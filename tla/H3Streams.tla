------------------------------- MODULE H3Streams -------------------------------
(***************************************************************************)
(* H3Connection (navar-h3/src/adapter.rs): the transport's asynchronous    *)
(* open and accept methods turned into the poll functions that the h3      *)
(* crate wants.  Each handle caches the future of an attempt until it is   *)
(* done; h3 clones handles (opener, and a clone of the session for every   *)
(* request) and drops them, and with them the futures they cache.          *)
(*                                                                         *)
(* Iroh hands an attempt to its QUIC connection, Tokio makes a connection  *)
(* for it or refuses it.  What lies below them is external: an attempt     *)
(* takes some progress before it comes to a stream or an error.            *)
(***************************************************************************)
EXTENDS Naturals, FiniteSets, FiniteSetsExt

CONSTANTS
  Ops,         \* the operations called, out of AllOps
  Handles,     \* handles there may be, each used once
  First,       \* the handle that H3App::handshake makes
  Steps,       \* how far an attempt must come before it is done
  MaxAttempts, \* bound: attempts of one operation
  None         \* no future

\* A stream is opened by us or by the peer, to carry bytes both ways or one.
Opens  == {"open_bidi", "open_uni"}
AllOps == Opens \cup {"accept_bidi", "accept_uni"}

ASSUME H3StreamsAssumption ==
  /\ Ops \subseteq AllOps
  /\ First \in Handles /\ IsFiniteSet(Handles)
  /\ Steps \in Nat /\ MaxAttempts \in Nat
  /\ None \notin Nat

VARIABLES
  transport, \* the transport of the connection
  alive,    \* handles in use
  dead,     \* handles dropped
  fut,      \* [Handles -> [Ops -> progress of the cached attempt, or None]]
  closed,   \* the connection is closed
  started,  \* history: attempts begun, by operation
  ended,    \* history: attempts that ended in an error or with their handle
  streams   \* streams given out: [op, index], numbered from 0 by operation

vars == << transport, alive, dead, fut, closed, started, ended, streams >>

-----------------------------------------------------------------------------
\* Which of open_* and accept_* the transports can do: a Tokio connection is no
\* more than an address to connect to, and errs on all but open_bidirectional.
IrohOps  == AllOps
TokioOps == {"open_bidi"}
Supports == [iroh |-> IrohOps, tokio |-> TokioOps]
CanDo(op) == op \in Supports[transport]

Init ==
  /\ transport \in DOMAIN Supports
  /\ alive = {First}
  /\ dead = {}
  /\ fut = [h \in Handles |-> [op \in Ops |-> None]]
  /\ closed = FALSE
  /\ started = [op \in Ops |-> 0]
  /\ ended = [op \in Ops |-> 0]
  /\ streams = {}

-----------------------------------------------------------------------------
(***************************************************************************)
(* poll_open_bidi, poll_open_send, poll_accept_bidi, poll_accept_recv: one *)
(* operator for the four, for they differ in the method called.  A faulty  *)
(* variant, with an underscore in its name, is never used by the model.    *)
(***************************************************************************)

\* What stays cached after a poll that was pending, and after one that was not.
Pending_Dropped(progress) == None
Pending(progress) == progress
Ready(progress) == None

\* The future polled: the cached one, or a new one that has come nowhere.
Attempt(h, op) == IF fut[h][op] = None THEN 0 ELSE fut[h][op]

\* Polling counts as a beginning only when nothing is cached.
Started_EveryPoll(h, op) == [started EXCEPT ![op] = @ + 1]
Started(h, op) ==
  IF fut[h][op] = None THEN [started EXCEPT ![op] = @ + 1] ELSE started

Given(op) == Cardinality({s \in streams : s.op = op})

Poll(h, op) ==
  /\ h \in alive
  /\ fut[h][op] = None => started[op] < MaxAttempts
  /\ started' = Started(h, op)
  /\ UNCHANGED << transport, alive, dead, closed >>

PollReady(h, op) ==
  /\ Poll(h, op) /\ CanDo(op) /\ ~closed /\ Attempt(h, op) = Steps
  /\ fut' = [fut EXCEPT ![h][op] = Ready(Attempt(h, op))]
  /\ streams' = streams \cup {[op |-> op, index |-> Given(op)]}
  /\ UNCHANGED ended

PollFailed(h, op) ==
  /\ Poll(h, op)
  /\ fut' = [fut EXCEPT ![h][op] = Ready(Attempt(h, op))]
  /\ ended' = [ended EXCEPT ![op] = @ + 1]
  /\ UNCHANGED streams

PollPending(h, op) ==
  /\ Poll(h, op) /\ CanDo(op) /\ ~closed /\ Attempt(h, op) < Steps
  /\ fut' = [fut EXCEPT ![h][op] = Pending(Attempt(h, op))]
  /\ UNCHANGED << ended, streams >>

-----------------------------------------------------------------------------
\* Clone: the new handle caches nothing.
NoFutures_Copied(h) == fut[h]
NoFutures(h) == [op \in Ops |-> None]

Clone(h, new) ==
  /\ h \in alive /\ new \in Handles \ (alive \cup dead)
  /\ alive' = alive \cup {new}
  /\ fut' = [fut EXCEPT ![new] = NoFutures(h)]
  /\ UNCHANGED << transport, dead, closed, started, ended, streams >>

\* A handle is dropped, and the attempts it caches are given up.
DropHandle(h) ==
  /\ h \in alive
  /\ alive' = alive \ {h}
  /\ dead' = dead \cup {h}
  /\ ended' = [op \in Ops |-> IF fut[h][op] = None THEN ended[op] ELSE ended[op] + 1]
  /\ fut' = [fut EXCEPT ![h] = [op \in Ops |-> None]]
  /\ UNCHANGED << transport, closed, started, streams >>

\* close and the drivers' end leave the transport's connection alone; a QUIC
\* connection closes when the peer or the network closes it.
ConnectionCloses ==
  /\ transport = "iroh" /\ ~closed
  /\ closed' = TRUE
  /\ UNCHANGED << transport, alive, dead, fut, started, ended, streams >>

\* The transport brings an attempt forward (external).
Progress(h, op) ==
  /\ ~closed
  /\ fut[h][op] # None /\ fut[h][op] < Steps
  /\ fut' = [fut EXCEPT ![h][op] = @ + 1]
  /\ UNCHANGED << transport, alive, dead, closed, started, ended, streams >>

-----------------------------------------------------------------------------
PollAgain(h, op) ==
  /\ fut[h][op] # None
  /\ PollReady(h, op) \/ PollFailed(h, op) \/ PollPending(h, op)

Next ==
  \/ \E h \in Handles, op \in Ops :
       \/ PollReady(h, op)
       \/ PollFailed(h, op)
       \/ PollPending(h, op)
       \/ Progress(h, op)
  \/ \E h, new \in Handles : Clone(h, new)
  \/ \E h \in Handles : DropHandle(h)
  \/ ConnectionCloses

Spec == Init /\ [][Next]_vars

\* The transport opens a stream in the end, and a cached attempt is polled again when
\* its waker is woken.  To accept a stream takes a peer that opens one, which it need
\* not do: such an attempt may be pending for as long as the connection is open.
FairSpec ==
  /\ Spec
  /\ \A h \in Handles, op \in Ops : WF_vars(PollAgain(h, op))
  /\ \A h \in Handles, op \in Ops \cap Opens : WF_vars(Progress(h, op))

-----------------------------------------------------------------------------
(***************************************************************************)
(* Properties.                                                             *)
(***************************************************************************)

\* The shape of the state.
TypeOK ==
  /\ transport \in {"iroh", "tokio"}
  /\ alive \in SUBSET Handles /\ dead \in SUBSET Handles
  /\ fut \in [Handles -> [Ops -> 0..Steps \cup {None}]]
  /\ closed \in BOOLEAN
  /\ started \in [Ops -> 0..MaxAttempts] /\ ended \in [Ops -> Nat]
  /\ streams \subseteq [op : Ops, index : Nat]

\* Every attempt begun ends once, in a stream, in an error or with its handle,
\* or is cached by one handle: no stream is opened for nobody, and none is
\* accepted twice, however handles are cloned and dropped.
Cached(op) == Cardinality({h \in Handles : fut[h][op] # None})
AttemptsAccountedFor ==
  \A op \in Ops : started[op] = Given(op) + ended[op] + Cached(op)

\* Every attempt to open a stream comes to its end: it is kept from one poll to the
\* next, never begun anew in place of the one that was making progress.  So does every
\* attempt to accept one, once the connection is closed.
Settled(op, n) == Given(op) + ended[op] >= n
AttemptsEnd ==
  \A op \in Ops, n \in 1..MaxAttempts :
    /\ op \in Opens => (started[op] = n ~> Settled(op, n))
    /\ (started[op] = n /\ closed) ~> Settled(op, n)
=============================================================================
