-------------------------- MODULE SessionPoolProofs --------------------------
(***************************************************************************)
(* What the session pool guarantees for any number of requests, threads,   *)
(* keys and shards.                                                        *)
(***************************************************************************)
EXTENDS SessionPool, TLAPS

-----------------------------------------------------------------------------
(***************************************************************************)
(* The inductive invariant.  The properties of SessionPool are not         *)
(* inductive by themselves: that no driver is orphaned, for instance,      *)
(* rests on the pool having nothing under the key of a request that is     *)
(* connecting, and that rests on the request holding the shard's lock      *)
(* since it looked.                                                        *)
(***************************************************************************)

\* A request past the authority check has a key, and so has a driven session.
KeyKnown ==
  \A r \in Requests :
    pc[r] \in {"entry"} \cup Establishing \/ driver[r] # "none" => Key(r) \in Keys

\* A request between the miss and the insert holds its shard's lock, and what
\* it saw there is still so: nothing is pooled under its key.
MissStillTrue ==
  \A r \in Requests :
    pc[r] \in Establishing => lock[Shard(r)] = r /\ pool[Key(r)] = None

\* What the pool holds under a key was made for that key, its driver spawned.
PooledIsDriven ==
  \A k \in Keys :
    pool[k] # None => Key(pool[k]) = k /\ driver[pool[k]] # "none"

\* A request has a session exactly from the lookup or the insert on.
SessionWhenBound ==
  \A r \in Requests :
    /\ pc[r] \in {"new", "entry"} \cup Establishing => session[r] = None
    /\ pc[r] \in {"send", "ok"} => session[r] # None

IInv ==
  /\ TypeOK
  /\ KeyKnown
  /\ LockHeldWhileEstablishing
  /\ MissStillTrue
  /\ PooledIsDriven
  /\ NoOrphanDriver
  /\ SessionOfOwnKey
  /\ SessionWhenBound

LEMMA InitIInv == Init => IInv
BY PoolAssumption DEF Init, IInv, TypeOK, KeyKnown, LockHeldWhileEstablishing,
   MissStillTrue, PooledIsDriven, NoOrphanDriver, SessionOfOwnKey,
   SessionWhenBound, Key, Establishing, Awaiting, Finished

LEMMA StepIInv == IInv /\ [Next]_vars => IInv'
<1> SUFFICES ASSUME IInv, [Next]_vars
             PROVE  IInv'
  OBVIOUS
<1> USE PoolAssumption DEF IInv, TypeOK, KeyKnown, LockHeldWhileEstablishing,
        MissStillTrue, PooledIsDriven, NoOrphanDriver, SessionOfOwnKey,
        SessionWhenBound, Key, Shard, Establishing, Awaiting, Finished, Goto
<1>1. ASSUME NEW r \in Requests, RejectUri(r)
      PROVE  IInv'
  BY <1>1 DEF RejectUri
<1>2. ASSUME NEW r \in Requests, PollNew(r)
      PROVE  IInv'
  BY <1>2 DEF PollNew
<1>3. ASSUME NEW r \in Requests, EntryOccupied(r)
      PROVE  IInv'
  \* The session found was made for this key and is driven; nothing else moves.
  <2>1. /\ Key(r) \in Keys
        /\ pool[Key(r)] \in Requests
        /\ Key(pool[Key(r)]) = Key(r)
        /\ driver[pool[Key(r)]] # "none"
    BY <1>3 DEF EntryOccupied, Lookup
  <2>2. session' = [session EXCEPT ![r] = pool[Key(r)]] /\ pc' = [pc EXCEPT ![r] = "send"]
    BY <1>3 DEF EntryOccupied, Lookup
  <2>3. UNCHANGED << uri, polling, lock, pool, driver >>
    BY <1>3 DEF EntryOccupied
  <2>4. TypeOK'
    BY <1>3, <2>1, <2>2, <2>3 DEF EntryOccupied
  <2>5. KeyKnown' /\ LockHeldWhileEstablishing' /\ MissStillTrue'
    BY <1>3, <2>2, <2>3 DEF EntryOccupied
  <2>6. PooledIsDriven' /\ NoOrphanDriver'
    BY <2>3
  <2>7. SessionOfOwnKey'
    <3> SUFFICES ASSUME NEW q \in Requests, session'[q] # None
                 PROVE  /\ KeyOf[uri[session'[q]]] = KeyOf[uri[q]]
                        /\ driver[session'[q]] # "none"
      BY <2>3
    <3>1. CASE q = r
      BY <3>1, <2>1, <2>2
    <3>2. CASE q # r
      BY <3>2, <2>2
    <3> QED
      BY <3>1, <3>2
  <2>8. SessionWhenBound'
    BY <2>1, <2>2
  <2> QED
    BY <2>4, <2>5, <2>6, <2>7, <2>8
<1>4. ASSUME NEW r \in Requests, EntryVacant(r)
      PROVE  IInv'
  BY <1>4 DEF EntryVacant, Lookup, TakeShard
<1>5. ASSUME NEW r \in Requests, Yield(r)
      PROVE  IInv'
  BY <1>5 DEF Yield, Leave
<1>6. ASSUME NEW r \in Requests, Resume(r)
      PROVE  IInv'
  BY <1>6 DEF Resume
<1>7. ASSUME NEW r \in Requests, Connected(r)
      PROVE  IInv'
  BY <1>7 DEF Connected
<1>8. ASSUME NEW r \in Requests, EstablishFailed(r)
      PROVE  IInv'
  BY <1>8 DEF EstablishFailed, FreeShard, Leave
<1>9. ASSUME NEW r \in Requests, HandshakeDone(r)
      PROVE  IInv'
  \* The key has had no session, so the one inserted is the only one driven.
  <2>1. Key(r) \in Keys /\ lock[Shard(r)] = r /\ pool[Key(r)] = None
    BY <1>9 DEF HandshakeDone
  <2>2. /\ pool' = [pool EXCEPT ![Key(r)] = r]
        /\ driver' = [driver EXCEPT ![r] = "running"]
        /\ session' = [session EXCEPT ![r] = r]
        /\ pc' = [pc EXCEPT ![r] = "send"]
        /\ UNCHANGED << uri, polling >>
    BY <1>9 DEF HandshakeDone, Insert
  <2>3. TypeOK'
    BY <1>9, <2>2 DEF HandshakeDone, FreeShard
  <2>4. KeyKnown' /\ LockHeldWhileEstablishing'
    BY <1>9, <2>2 DEF HandshakeDone, FreeShard
  \* Another request that is establishing holds another shard's lock.
  <2>5. MissStillTrue'
    BY <1>9, <2>1, <2>2 DEF HandshakeDone, FreeShard
  <2>6. PooledIsDriven'
    BY <2>1, <2>2
  <2>7. NoOrphanDriver'
    BY <2>1, <2>2
  <2>8. SessionOfOwnKey' /\ SessionWhenBound'
    BY <2>1, <2>2
  <2> QED
    BY <2>3, <2>4, <2>5, <2>6, <2>7, <2>8
<1>10. ASSUME NEW r \in Requests, SendDone(r)
      PROVE  IInv'
  BY <1>10 DEF SendDone, Leave
<1>11. ASSUME NEW r \in Requests, EstablishAnswered(r)
      PROVE  IInv'
  BY <1>11 DEF EstablishAnswered, Answer
<1>12. ASSUME NEW r \in Requests, DriverServes(r)
      PROVE  IInv'
  BY <1>12 DEF DriverServes, Answer
<1>13. ASSUME NEW r \in Requests, DriverEnds(r)
      PROVE  IInv'
  BY <1>13 DEF DriverEnds
<1>14. ASSUME NEW r \in Requests, SendRefused(r)
      PROVE  IInv'
  BY <1>14 DEF SendRefused, Answer
<1>15. ASSUME NEW r \in Requests, Cancel(r)
      PROVE  IInv'
  BY <1>15 DEF Cancel, FreeShard
<1>16. CASE UNCHANGED vars
  BY <1>16 DEF vars
<1> QED
  BY <1>1, <1>2, <1>3, <1>4, <1>5, <1>6, <1>7, <1>8,
     <1>9, <1>10, <1>11, <1>12, <1>13, <1>14, <1>15, <1>16
  DEF Next, TaskStep, AllFinished

LEMMA SpecIInv == Spec => []IInv
BY InitIInv, StepIInv, PTL DEF Spec

-----------------------------------------------------------------------------
(***************************************************************************)
(* The safety properties of the pool.                                      *)
(***************************************************************************)

\* The variables of handle and of the DashMap keep their types.
THEOREM TypeCorrect == Spec => []TypeOK
<1>1. IInv => TypeOK
  BY DEF IInv
<1> QED
  BY <1>1, SpecIInv, PTL

\* However many requests race for an authority, one at a time connects for it.
THEOREM SingleFlight == Spec => []OneEstablisher
<1>1. IInv => OneEstablisher
  BY DEF IInv, OneEstablisher, MissStillTrue
<1> QED
  BY <1>1, SpecIInv, PTL

\* No interleaving of misses, failures and cancellations spawns a driver whose
\* session the pool does not hold.
THEOREM OneConnectionPerKey == Spec => []NoOrphanDriver
<1>1. IInv => NoOrphanDriver
  BY DEF IInv
<1> QED
  BY <1>1, SpecIInv, PTL

\* A request is never sent over another authority's session, nor over one that
\* nothing drives.
THEOREM SessionFitsRequest == Spec => []SessionOfOwnKey
<1>1. IInv => SessionOfOwnKey
  BY DEF IInv
<1> QED
  BY <1>1, SpecIInv, PTL

\* A shard's lock never outlives the miss it was taken for.
THEOREM NoLeakedLock == Spec => []LockHeldWhileEstablishing
<1>1. IInv => LockHeldWhileEstablishing
  BY DEF IInv
<1> QED
  BY <1>1, SpecIInv, PTL

\* When the URIs of one authority all name one peer (they write their port, or
\* all have the same scheme), a request reaches the peer its URI names.  Without
\* the hypothesis the run pool_default_ports refutes it.
THEOREM PeerFitsRequest ==
  ASSUME \A u, v \in Uris :
           KeyOf[u] \in Keys /\ KeyOf[u] = KeyOf[v] => PeerOf[u] = PeerOf[v]
  PROVE  Spec => []DialedPeer
<1>1. ASSUME IInv, NEW r \in Requests, session[r] # None
      PROVE  PeerOf[uri[session[r]]] = PeerOf[uri[r]]
  <2>1. /\ session[r] \in Requests
        /\ Key(session[r]) = Key(r)
        /\ Key(session[r]) \in Keys
    BY <1>1 DEF IInv, TypeOK, SessionOfOwnKey, KeyKnown
  <2> QED
    BY <1>1, <2>1 DEF IInv, TypeOK, Key
<1>2. IInv => DialedPeer
  BY <1>1 DEF DialedPeer
<1> QED
  BY <1>2, SpecIInv, PTL

-----------------------------------------------------------------------------
(***************************************************************************)
(* The pool implements SharedSession.                                      *)
(***************************************************************************)
statusMap == [r \in Requests |-> Status(r)]

LEMMA RefinesInit == Init => Shared!AbstractInit
BY DEF Init, Shared!AbstractInit, Status

\* A step that keeps the pool, the sessions and the place of every request
\* with respect to its session is a stutter of SharedSession.
LEMMA QuietIsStutter ==
  ASSUME TypeOK, NEW r \in Requests, NEW place,
         pc' = [pc EXCEPT ![r] = place],
         UNCHANGED << uri, pool, session >>,
         pc[r] \in {"new", "entry"} \cup Establishing,
         place \in {"new", "entry"} \cup Establishing
  PROVE  UNCHANGED Shared!abstractVars
<1>1. \A q \in Requests : Status(q)' = Status(q)
  BY DEF TypeOK, Status, Establishing
<1> QED
  BY <1>1 DEF Shared!abstractVars

LEMMA RefinesStep ==
  IInv /\ [Next]_vars => [Shared!AbstractNext]_(Shared!abstractVars)
<1> SUFFICES ASSUME IInv, [Next]_vars
             PROVE  Shared!AbstractNext \/ UNCHANGED Shared!abstractVars
  OBVIOUS
<1>fail. ASSUME NEW r \in Requests, NEW place \in {"failed", "cancelled"},
               pc' = [pc EXCEPT ![r] = place],
               pc[r] \notin Finished,
               UNCHANGED << uri, pool, session >>
        PROVE  Shared!AbstractNext
  <2>1. statusMap' = [q \in Requests |-> IF q \in {r} THEN "failed" ELSE statusMap[q]]
    BY <1>fail DEF IInv, TypeOK, statusMap, Status
  <2>2. statusMap[r] \in {"waiting", "bound"}
    BY <1>fail DEF IInv, TypeOK, statusMap, Status, Finished, Awaiting, Establishing
  <2>3. Shared!Fail({r}) /\ {r} \in SUBSET Requests
    BY <1>fail, <2>1, <2>2 DEF Shared!Fail, statusMap
  <2> QED
    BY <2>3, Zenon DEF Shared!AbstractNext
<1>1. ASSUME NEW r \in Requests, RejectUri(r)
      PROVE  Shared!AbstractNext
  BY <1>1, <1>fail DEF RejectUri, Goto, Finished
<1>2. ASSUME NEW r \in Requests, PollNew(r) \/ EntryVacant(r) \/ Connected(r)
      PROVE  UNCHANGED Shared!abstractVars
  BY <1>2, QuietIsStutter DEF IInv, PollNew, EntryVacant, Connected, Goto, Establishing
<1>3. ASSUME NEW r \in Requests, EntryOccupied(r)
      PROVE  Shared!AbstractNext
  <2>1. statusMap[r] = "waiting" /\ Key(r) \in Keys
    BY <1>3 DEF EntryOccupied, statusMap, Status, IInv, KeyKnown
  <2>2. statusMap' = [statusMap EXCEPT ![r] = "bound"]
    BY <1>3 DEF EntryOccupied, Goto, IInv, TypeOK, statusMap, Status
  <2>3. Shared!Share(r)
    BY <1>3, <2>1, <2>2 DEF EntryOccupied, Lookup, Key, Shared!Share, statusMap
  <2> QED
    BY <2>3 DEF Shared!AbstractNext
<1>4. ASSUME NEW r \in Requests,
             \/ Yield(r) \/ Resume(r) \/ EstablishAnswered(r)
             \/ DriverServes(r) \/ SendRefused(r) \/ DriverEnds(r)
      PROVE  UNCHANGED Shared!abstractVars
  <2>1. UNCHANGED << uri, pc, pool, session >>
    BY <1>4 DEF Yield, Resume, EstablishAnswered, DriverServes, SendRefused, DriverEnds
  <2> QED
    BY <2>1 DEF Shared!abstractVars, Status
<1>5. ASSUME NEW r \in Requests, EstablishFailed(r)
      PROVE  Shared!AbstractNext
  BY <1>5, <1>fail DEF EstablishFailed, Goto, Establishing, Finished
<1>6. ASSUME NEW r \in Requests, HandshakeDone(r)
      PROVE  Shared!AbstractNext
  <2>1. /\ statusMap[r] = "waiting"
        /\ Key(r) \in Keys
        /\ pool[Key(r)] = None
    BY <1>6 DEF HandshakeDone, statusMap, Status, IInv, KeyKnown, MissStillTrue, Establishing
  <2>2. statusMap' = [statusMap EXCEPT ![r] = "bound"]
    BY <1>6 DEF HandshakeDone, Goto, IInv, TypeOK, statusMap, Status
  <2>3. Shared!Establish(r)
    BY <1>6, <2>1, <2>2 DEF HandshakeDone, Insert, Key, Shared!Establish, statusMap
  <2> QED
    BY <2>3 DEF Shared!AbstractNext
<1>7. ASSUME NEW r \in Requests, SendDone(r)
      PROVE  Shared!AbstractNext
  <2>1. CASE io[r] = "ok"
    <3>1. statusMap[r] = "bound" /\ statusMap' = [statusMap EXCEPT ![r] = "served"]
      BY <1>7, <2>1 DEF SendDone, Goto, IInv, TypeOK, statusMap, Status
    <3>2. Shared!Serve(r)
      BY <1>7, <3>1 DEF SendDone, Shared!Serve, statusMap
    <3> QED
      BY <3>2 DEF Shared!AbstractNext
  <2>2. CASE io[r] # "ok"
    BY <1>7, <2>2, <1>fail DEF SendDone, Goto, Finished
  <2> QED
    BY <2>1, <2>2
<1>8. ASSUME NEW r \in Requests, Cancel(r)
      PROVE  Shared!AbstractNext
  BY <1>8, <1>fail DEF Cancel, Goto, Awaiting, Establishing, Finished
<1>9. CASE UNCHANGED vars
  BY <1>9 DEF vars, Shared!abstractVars, Status
<1> QED
  BY <1>1, <1>2, <1>3, <1>4, <1>5, <1>6, <1>7, <1>8, <1>9
  DEF Next, TaskStep, AllFinished

\* Seen from its users the pool is one session per authority, made once by one
\* of the requests for it and shared by all of them.
THEOREM PoolRefinesSharedSession == Spec => ImplementsSharedSession
BY SpecIInv, RefinesInit, RefinesStep, PTL
DEF Spec, ImplementsSharedSession, Shared!AbstractSpec
-----------------------------------------------------------------------------
(***************************************************************************)
(* A dead session is final.                                                *)
(***************************************************************************)

\* The authority's session is dead and r has no answer from it.
Doomed(r) ==
  /\ Key(r) \in Keys
  /\ Dead(Key(r))
  /\ pc[r] \in {"new", "entry", "send", "failed", "cancelled"}
  /\ pc[r] = "send" => session[r] = pool[Key(r)] /\ io[r] # "ok"

LEMMA DeadStaysDead ==
  ASSUME IInv, [Next]_vars, NEW k \in Keys, Dead(k)
  PROVE  Dead(k)' /\ pool'[k] = pool[k]
<1>1. CASE \E q \in Requests : HandshakeDone(q)
  <2>1. PICK q \in Requests : HandshakeDone(q)
    BY <1>1
  <2>2. Key(q) \in Keys /\ pool[Key(q)] = None
    BY <2>1 DEF HandshakeDone, IInv, KeyKnown, MissStillTrue, Establishing
  <2>3. Key(q) # k /\ pool[k] # q
    BY <2>2 DEF Dead, IInv, PooledIsDriven
  <2> QED
    BY <2>1, <2>2, <2>3 DEF HandshakeDone, Insert, Dead, IInv, TypeOK
<1>2. CASE \E q \in Requests : DriverEnds(q)
  BY <1>2 DEF DriverEnds, Dead, IInv, TypeOK
<1>3. CASE UNCHANGED << pool, driver >>
  BY <1>3 DEF Dead
<1> QED
  BY <1>1, <1>2, <1>3
  DEF Next, TaskStep, AllFinished, vars, RejectUri, PollNew, EntryOccupied,
      EntryVacant, Yield, Resume, Connected, EstablishFailed, SendDone,
      EstablishAnswered, DriverServes, SendRefused, Cancel

LEMMA DoomedStays ==
  ASSUME IInv, [Next]_vars, NEW r \in Requests, Doomed(r)
  PROVE  Doomed(r)'
<1>1. /\ Key(r)' = Key(r)
      /\ Dead(Key(r))'
      /\ pool'[Key(r)] = pool[Key(r)]
  <2>1. uri' = uri
    BY DEF Next, TaskStep, AllFinished, vars, RejectUri, PollNew, EntryOccupied,
       EntryVacant, Yield, Resume, Connected, EstablishFailed, HandshakeDone,
       SendDone, EstablishAnswered, DriverServes, DriverEnds, SendRefused, Cancel
  <2> QED
    BY <2>1, DeadStaysDead DEF Doomed, Key, Dead
<1>2. ASSUME UNCHANGED << pc, io, session >>
      PROVE  Doomed(r)'
  BY <1>1, <1>2 DEF Doomed
<1>3. ASSUME NEW q \in Requests, q # r,
             \/ TaskStep(q) \/ EstablishAnswered(q) \/ DriverServes(q)
             \/ SendRefused(q) \/ Cancel(q)
      PROVE  Doomed(r)'
  <2>1. pc'[r] = pc[r] /\ io'[r] = io[r] /\ session'[r] = session[r]
    BY <1>3 DEF IInv, TypeOK, TaskStep, RejectUri, PollNew, EntryOccupied,
       EntryVacant, Yield, Resume, Connected, EstablishFailed, HandshakeDone,
       SendDone, EstablishAnswered, DriverServes, SendRefused, Cancel, Goto, Answer
  <2> QED
    BY <1>1, <2>1 DEF Doomed
<1>4. ASSUME TaskStep(r)
      PROVE  Doomed(r)'
  \* r finds the dead session in the pool, or has it already.
  <2>1. CASE EntryOccupied(r)
    BY <1>1, <2>1 DEF EntryOccupied, Lookup, Goto, Doomed, IInv, TypeOK
  <2>2. CASE PollNew(r) \/ Yield(r) \/ Resume(r) \/ SendDone(r)
    BY <1>1, <2>2 DEF PollNew, Yield, Resume, SendDone, Goto, Doomed, IInv, TypeOK
  <2>3. ~RejectUri(r) /\ ~EntryVacant(r)
    BY PoolAssumption DEF RejectUri, EntryVacant, Lookup, Doomed, Dead
  <2>4. ~Connected(r) /\ ~EstablishFailed(r) /\ ~HandshakeDone(r)
    BY DEF Connected, EstablishFailed, HandshakeDone, Establishing, Doomed
  <2> QED
    BY <1>4, <2>1, <2>2, <2>3, <2>4 DEF TaskStep
<1>5. CASE EstablishAnswered(r) \/ DriverServes(r)
  BY <1>5 DEF EstablishAnswered, DriverServes, Establishing, Doomed, Dead
<1>6. CASE SendRefused(r)
  BY <1>1, <1>6 DEF SendRefused, Answer, Doomed, IInv, TypeOK
<1>7. CASE Cancel(r)
  BY <1>1, <1>7 DEF Cancel, Goto, Doomed, IInv, TypeOK
<1>8. CASE \E q \in Requests : DriverEnds(q)
  BY <1>2, <1>8 DEF DriverEnds
<1> QED
  BY <1>2, <1>3, <1>4, <1>5, <1>6, <1>7, <1>8 DEF Next, AllFinished, vars

\* The pool never recovers from a connection that closes: requests that come
\* after it fail, however long one waits.
THEOREM DeadSessionStays == Spec => DeadSessionIsFinal
<1>1. ASSUME NEW r \in Requests
      PROVE  Spec => [](pc[r] \in {"new", "entry"} /\ Key(r) \in Keys /\ Dead(Key(r))
                          => [](pc[r] # "ok"))
  <2>1. pc[r] \in {"new", "entry"} /\ Key(r) \in Keys /\ Dead(Key(r)) => Doomed(r)
    BY DEF Doomed
  <2>2. IInv /\ [Next]_vars /\ Doomed(r) => Doomed(r)'
    BY DoomedStays
  <2>3. Doomed(r) => pc[r] # "ok"
    BY DEF Doomed
  <2> QED
    BY <2>1, <2>2, <2>3, SpecIInv, PTL DEF Spec
<1> QED
  BY <1>1 DEF DeadSessionIsFinal

=============================================================================
