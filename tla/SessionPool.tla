----------------------------- MODULE SessionPool -----------------------------
(***************************************************************************)
(* BaseService::handle (src/base_service.rs): the client's session pool.   *)
(*                                                                         *)
(* The pool is a DashMap: its keys are spread over shards and each shard   *)
(* is guarded by a lock that BLOCKS THE THREAD that waits for it.          *)
(* DashMap::entry takes the shard's write lock, and the Vacant entry keeps *)
(* it while handle awaits transport.connect and app.handshake.  So the     *)
(* model has two kinds of waiting: a task that awaits gives its thread     *)
(* back (Yield, Resume); a task at a taken shard lock does not.            *)
(*                                                                         *)
(* One request is one asynchronous task that runs handle once.  A session  *)
(* is named by the request that established it.                            *)
(***************************************************************************)
EXTENDS FiniteSets, Naturals

CONSTANTS
  Requests,      \* tasks that call Client::send
  Threads,       \* how many threads the executor polls the tasks on
  Uris,          \* the URIs asked for
  Keys,          \* pool keys: the authority of a URI, as a string
  Shards,        \* shards of the DashMap
  KeyOf,         \* [Uris -> Keys \cup {NoKey}]: uri.authority().to_string()
  ShardOf,       \* [Keys -> Shards]: the DashMap's hash of a key
  PeerOf,        \* the host and port the transport dials for a URI
  Unresponsive,  \* keys whose peer may never answer connect or handshake
  NoKey,         \* the URI has no authority
  None           \* no request, no session

ASSUME PoolAssumption ==
  /\ KeyOf \in [Uris -> Keys \cup {NoKey}]
  /\ ShardOf \in [Keys -> Shards]
  /\ NoKey \notin Keys
  /\ None \notin Requests
  /\ Unresponsive \subseteq Keys
  /\ IsFiniteSet(Requests)
  /\ Threads \in Nat \ {0}

VARIABLES
  uri,      \* [Requests -> Uris]
  pc,       \* where each task is in handle
  io,       \* the outcome of the future the task awaits
  polling,  \* the tasks that occupy a thread, running or blocked on it
  lock,     \* [Shards -> Requests \cup {None}]: holder of the shard's write lock
  pool,     \* [Keys -> Requests \cup {None}]: the pooled session of a key
  driver,   \* [Requests -> ...]: the background driver of a session
  session   \* [Requests -> Requests \cup {None}]: handle's local `session`

vars == << uri, pc, io, polling, lock, pool, driver, session >>

-----------------------------------------------------------------------------
Key(r)   == KeyOf[uri[r]]
Shard(r) == ShardOf[Key(r)]

\* The awaits of handle at which the Vacant entry, and so the lock, is alive.
Establishing == {"connect", "handshake"}
Awaiting     == Establishing \cup {"send"}
Finished     == {"ok", "failed", "cancelled"}

SpareThread == Cardinality(polling) < Threads

Init ==
  /\ uri \in [Requests -> Uris]
  /\ pc = [r \in Requests |-> "new"]
  /\ io = [r \in Requests |-> "none"]
  /\ polling = {}
  /\ lock = [s \in Shards |-> None]
  /\ pool = [k \in Keys |-> None]
  /\ driver = [r \in Requests |-> "none"]
  /\ session = [r \in Requests |-> None]

-----------------------------------------------------------------------------
(***************************************************************************)
(* The DashMap.  An operator whose name has an underscore is a faulty      *)
(* variant of the one after it; the model never uses it.                   *)
(***************************************************************************)

\* What entry finds under r's key.
Lookup_AnyKey(r) ==
  LET taken == {k \in Keys : pool[k] # None}
  IN  IF taken = {} THEN None ELSE pool[CHOOSE k \in taken : TRUE]
Lookup_LiveOnly(r) ==
  LET s == pool[Key(r)] IN IF s # None /\ driver[s] = "ended" THEN None ELSE s
Lookup(r) == pool[Key(r)]

\* A Vacant entry owns the write lock of its shard.
TakeShard_Released(r) == lock
TakeShard_WholeMap(r) == [s \in Shards |-> r]
TakeShard(r) == [lock EXCEPT ![Shard(r)] = r]

\* Inserting into the Vacant entry, or dropping it, frees that lock.
FreeShard_Leaked(r) == lock
FreeShard(r) == [s \in Shards |-> IF lock[s] = r THEN None ELSE lock[s]]

\* vacant.insert
Insert_Connection(r) == [pool EXCEPT ![Key(r)] = uri[r]]
Insert(r) == [pool EXCEPT ![Key(r)] = r]

-----------------------------------------------------------------------------
(***************************************************************************)
(* Steps of a task, on a thread.                                           *)
(***************************************************************************)

Goto(r, place, outcome) ==
  /\ pc' = [pc EXCEPT ![r] = place]
  /\ io' = [io EXCEPT ![r] = outcome]

Leave(r) == polling' = polling \ {r}

\* The first poll: a URI without an authority fails before the pool is touched.
RejectUri(r) ==
  /\ SpareThread /\ pc[r] = "new" /\ Key(r) = NoKey
  /\ Goto(r, "failed", "none")
  /\ UNCHANGED << uri, polling, lock, pool, driver, session >>

\* The first poll runs as far as the call of pool.entry.
PollNew(r) ==
  /\ SpareThread /\ pc[r] = "new" /\ Key(r) # NoKey
  /\ polling' = polling \cup {r}
  /\ Goto(r, "entry", "none")
  /\ UNCHANGED << uri, lock, pool, driver, session >>

\* Entry::Occupied: clone the pooled session.  The lock is taken and given
\* back with no await in between, so no other thread can see it taken.
EntryOccupied(r) ==
  /\ r \in polling /\ pc[r] = "entry"
  /\ lock[Shard(r)] = None
  /\ Lookup(r) # None
  /\ session' = [session EXCEPT ![r] = Lookup(r)]
  /\ Goto(r, "send", "pending")
  /\ UNCHANGED << uri, polling, lock, pool, driver >>

\* Entry::Vacant: keep the shard's lock and start transport.connect.
EntryVacant(r) ==
  /\ r \in polling /\ pc[r] = "entry"
  /\ lock[Shard(r)] = None
  /\ Lookup(r) = None
  /\ lock' = TakeShard(r)
  /\ Goto(r, "connect", "pending")
  /\ UNCHANGED << uri, polling, pool, driver, session >>

\* An await that is not ready gives the thread back to the executor.
Yield(r) ==
  /\ r \in polling /\ io[r] = "pending"
  /\ Leave(r)
  /\ UNCHANGED << uri, pc, io, lock, pool, driver, session >>

\* The awaited future is ready, the task was woken: a free thread polls it.
Resume(r) ==
  /\ r \notin polling /\ SpareThread /\ io[r] \in {"ok", "err"}
  /\ polling' = polling \cup {r}
  /\ UNCHANGED << uri, pc, io, lock, pool, driver, session >>

\* connect succeeded; start app.handshake, the lock still held.
Connected(r) ==
  /\ r \in polling /\ pc[r] = "connect" /\ io[r] = "ok"
  /\ Goto(r, "handshake", "pending")
  /\ UNCHANGED << uri, polling, lock, pool, driver, session >>

\* connect or handshake failed: `?` returns, dropping the Vacant entry.
EstablishFailed(r) ==
  /\ r \in polling /\ pc[r] \in Establishing /\ io[r] = "err"
  /\ lock' = FreeShard(r)
  /\ Goto(r, "failed", "none")
  /\ Leave(r)
  /\ UNCHANGED << uri, pool, driver, session >>

\* handshake succeeded: spawn the driver, insert the session, free the lock,
\* and start send_request.
HandshakeDone(r) ==
  /\ r \in polling /\ pc[r] = "handshake" /\ io[r] = "ok"
  /\ driver' = [driver EXCEPT ![r] = "running"]
  /\ pool' = Insert(r)
  /\ lock' = FreeShard(r)
  /\ session' = [session EXCEPT ![r] = r]
  /\ Goto(r, "send", "pending")
  /\ UNCHANGED << uri, polling >>

\* send_request returned: the response is normalised, or the error returned.
\* Neither outcome touches the pool.
SendDone(r) ==
  /\ r \in polling /\ pc[r] = "send" /\ io[r] \in {"ok", "err"}
  /\ Goto(r, IF io[r] = "ok" THEN "ok" ELSE "failed", "none")
  /\ Leave(r)
  /\ UNCHANGED << uri, lock, pool, driver, session >>

-----------------------------------------------------------------------------
(***************************************************************************)
(* Steps of the transport, of the drivers and of the callers.              *)
(***************************************************************************)

Answer(r, outcomes) ==
  /\ io[r] = "pending"
  /\ \E outcome \in outcomes : io' = [io EXCEPT ![r] = outcome]

\* The transport answers connect, the application protocol its handshake.
EstablishAnswered(r) ==
  /\ pc[r] \in Establishing
  /\ Answer(r, {"ok", "err"})
  /\ UNCHANGED << uri, pc, polling, lock, pool, driver, session >>

\* The driver of r's session is a spawned task: it needs a free thread to be
\* polled, and its progress answers the request or refuses it.
DriverServes(r) ==
  /\ pc[r] = "send"
  /\ driver[session[r]] = "running"
  /\ SpareThread
  /\ Answer(r, {"ok", "err"})
  /\ UNCHANGED << uri, pc, polling, lock, pool, driver, session >>

\* A driver ends when its connection closes.  Nothing tells the pool.
DriverEnds(s) ==
  /\ driver[s] = "running"
  /\ driver' = [driver EXCEPT ![s] = "ended"]
  /\ UNCHANGED << uri, pc, io, polling, lock, pool, session >>

\* send_request on a session whose driver has ended returns an error.
SendRefused(r) ==
  /\ pc[r] = "send"
  /\ driver[session[r]] = "ended"
  /\ Answer(r, {"err"})
  /\ UNCHANGED << uri, pc, polling, lock, pool, driver, session >>

\* The caller drops the future of handle (a timeout, a select).  A future is
\* dropped by the task that owns it, on a free thread, never while it is being
\* polled; a Vacant entry in it is dropped too.
Cancel(r) ==
  /\ pc[r] \in {"new"} \cup Awaiting
  /\ r \notin polling
  /\ SpareThread
  /\ lock' = FreeShard(r)
  /\ Goto(r, "cancelled", "none")
  /\ UNCHANGED << uri, polling, pool, driver, session >>

-----------------------------------------------------------------------------
TaskStep(r) ==
  \/ RejectUri(r)
  \/ PollNew(r)
  \/ EntryOccupied(r)
  \/ EntryVacant(r)
  \/ Yield(r)
  \/ Resume(r)
  \/ Connected(r)
  \/ EstablishFailed(r)
  \/ HandshakeDone(r)
  \/ SendDone(r)

\* All requests are over: the one state in which the system may rest.
AllFinished ==
  /\ \A r \in Requests : pc[r] \in Finished
  /\ UNCHANGED vars

Next ==
  \/ \E r \in Requests :
       \/ TaskStep(r)
       \/ EstablishAnswered(r)
       \/ DriverServes(r)
       \/ DriverEnds(r)
       \/ SendRefused(r)
       \/ Cancel(r)
  \/ AllFinished

Spec == Init /\ [][Next]_vars

\* The executor polls every woken task on a free thread and a freed shard lock
\* wakes its waiters.  handle sets no timeout, so an answer is owed only by the
\* peers that are not Unresponsive.  Callers need not cancel and connections
\* need not close.
Fairness ==
  \A r \in Requests :
    /\ WF_vars(TaskStep(r))
    /\ WF_vars(Key(r) \notin Unresponsive /\ EstablishAnswered(r))
    /\ WF_vars(Key(r) \notin Unresponsive /\ DriverServes(r))
    /\ WF_vars(SendRefused(r))

FairSpec == Spec /\ Fairness

-----------------------------------------------------------------------------
(***************************************************************************)
(* Properties.                                                             *)
(***************************************************************************)

\* The shape of the state: the pool, its locks, the tasks and their threads.
TypeOK ==
  /\ uri \in [Requests -> Uris]
  /\ pc \in [Requests -> {"new", "entry"} \cup Awaiting \cup Finished]
  /\ io \in [Requests -> {"none", "pending", "ok", "err"}]
  /\ polling \in SUBSET Requests
  /\ lock \in [Shards -> Requests \cup {None}]
  /\ pool \in [Keys -> Requests \cup {None}]
  /\ driver \in [Requests -> {"none", "running", "ended"}]
  /\ session \in [Requests -> Requests \cup {None}]

\* Single flight: while handle awaits connect or handshake no other request
\* of the same shard does, so two requests for one authority never connect
\* at the same time (base_service.rs, the Vacant entry kept across awaits).
OneEstablisher ==
  \A r, q \in Requests :
    pc[r] \in Establishing /\ pc[q] \in Establishing /\ r # q
      => Shard(r) # Shard(q)

\* No connection is orphaned: every driver ever spawned belongs to the session
\* that the pool holds for its authority, so an authority has at most one
\* connection in the life of a client (steps 4 and 5 of handle).
NoOrphanDriver ==
  \A s \in Requests : driver[s] # "none" => pool[Key(s)] = s

\* A request is sent over a session made for its own authority, and whose
\* driver was spawned before anyone could find the session in the pool.
SessionOfOwnKey ==
  \A r \in Requests :
    session[r] # None =>
      Key(session[r]) = Key(r) /\ driver[session[r]] # "none"

\* A shard's lock is always in the hands of a request that is still between
\* the miss and the insert: `?` on either await and a dropped future give it
\* back.
LockHeldWhileEstablishing ==
  \A s \in Shards :
    lock[s] # None => pc[lock[s]] \in Establishing /\ Shard(lock[s]) = s

\* A dead session is final: once the driver of an authority's session has
\* ended, no request that has not yet looked into the pool will ever be
\* served, for handle has no path that takes a session out of the pool.
Dead(k) == pool[k] # None /\ driver[pool[k]] = "ended"
DeadSessionIsFinal ==
  \A r \in Requests :
    [](pc[r] \in {"new", "entry"} /\ Key(r) \in Keys /\ Dead(Key(r))
         => [](pc[r] # "ok"))

\* A request reaches the peer its own URI names: the session it is sent over
\* was dialled for the same host and port ("Extract the authority (host:port)
\* to use as the cache key", base_service.rs:51).
DialedPeer ==
  \A r \in Requests :
    session[r] # None => PeerOf[uri[session[r]]] = PeerOf[uri[r]]

\* Every request ends, unless its shard may be stalled by a peer that never
\* answers: a silent peer delays its own shard only.
StallFree(r) ==
  Key(r) = NoKey \/ \A k \in Unresponsive : ShardOf[k] # Shard(r)
Completes ==
  \A r \in Requests : StallFree(r) ~> pc[r] \in Finished

\* The pool implements its promise, SharedSession.
Status(r) ==
  CASE pc[r] = "send" -> "bound"
    [] pc[r] = "ok" -> "served"
    [] pc[r] \in {"failed", "cancelled"} -> "failed"
    [] OTHER -> "waiting"
Shared == INSTANCE SharedSession WITH
            KeyOfUri <- KeyOf,
            sessionOf <- pool,
            status <- [r \in Requests |-> Status(r)],
            bound <- session
ImplementsSharedSession == Shared!AbstractSpec
=============================================================================
