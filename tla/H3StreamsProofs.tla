--------------------------- MODULE H3StreamsProofs ---------------------------
(***************************************************************************)
(* Every attempt to open or accept a stream is accounted for, for any      *)
(* number of handles, operations and attempts.                             *)
(***************************************************************************)
EXTENDS H3Streams, FiniteSetTheorems, TLAPS

Holders(op) == {h \in Handles : fut[h][op] # None}
GivenSet(op) == {s \in streams : s.op = op}

\* The inductive invariant.  The streams of an operation are numbered from 0, so
\* that the next one is new; and a handle out of use caches nothing, so that a
\* clone takes nothing over.
IInv ==
  /\ TypeOK
  /\ IsFiniteSet(streams)
  /\ \A s \in streams : s.index < Given(s.op)
  /\ \A h \in Handles \ alive, op \in Ops : fut[h][op] = None
  /\ AttemptsAccountedFor

LEMMA FiniteCounts ==
  ASSUME IInv
  PROVE  \A op \in Ops :
           /\ IsFiniteSet(Holders(op)) /\ Cached(op) = Cardinality(Holders(op))
           /\ IsFiniteSet(GivenSet(op)) /\ Given(op) = Cardinality(GivenSet(op))
           /\ Cached(op) \in Nat /\ Given(op) \in Nat
<1> TAKE op \in Ops
<1>1. Holders(op) \subseteq Handles /\ GivenSet(op) \subseteq streams
  BY DEF Holders, GivenSet
<1>2. IsFiniteSet(Holders(op)) /\ IsFiniteSet(GivenSet(op))
  BY <1>1, FS_Subset, H3StreamsAssumption DEF IInv
<1> QED
  BY <1>2, FS_CardinalityType DEF Cached, Given, Holders, GivenSet

LEMMA IInvInit == Init => IInv
<1> SUFFICES ASSUME Init PROVE IInv
  OBVIOUS
<1>1. \A op \in Ops : {h \in Handles : fut[h][op] # None} = {}
  BY DEF Init
<1>2. \A op \in Ops : {s \in streams : s.op = op} = {}
  BY DEF Init
<1>3. IsFiniteSet({}) /\ Cardinality({}) = 0
  BY FS_EmptySet
<1>4. AttemptsAccountedFor
  <2>1. \A op \in Ops : Given(op) = 0 /\ Cached(op) = 0
    BY <1>1, <1>2, <1>3 DEF Given, Cached
  <2>2. \A op \in Ops : started[op] = 0 /\ ended[op] = 0
    BY DEF Init
  <2> QED
    BY <2>1, <2>2 DEF AttemptsAccountedFor
<1>5. TypeOK
  <2>1. DOMAIN Supports = {"iroh", "tokio"}
    BY DEF Supports
  <2>2. 0 \in 0..MaxAttempts
    BY H3StreamsAssumption
  <2>3. First \in Handles
    BY H3StreamsAssumption
  <2>4. /\ fut \in [Handles -> [Ops -> 0..Steps \cup {None}]]
        /\ started \in [Ops -> 0..MaxAttempts] /\ ended \in [Ops -> Nat]
    BY <2>2 DEF Init
  <2> QED
    BY <2>1, <2>3, <2>4 DEF Init, TypeOK
<1> QED
  BY <1>3, <1>4, <1>5 DEF Init, IInv

-----------------------------------------------------------------------------
(***************************************************************************)
(* How the counts change with the futures and the streams.                 *)
(***************************************************************************)

\* Changing what one handle caches for one operation adds it to the holders,
\* takes it from them, or neither.
LEMMA CachedChange ==
  ASSUME IInv, NEW h \in Handles, NEW op \in Ops, NEW v \in 0..Steps \cup {None},
         fut' = [fut EXCEPT ![h][op] = v]
  PROVE  /\ \A o \in Ops : o # op => Cached(o)' = Cached(o)
         /\ fut[h][op] = None /\ v # None => Cached(op)' = Cached(op) + 1
         /\ fut[h][op] # None /\ v = None => Cached(op)' = Cached(op) - 1
         /\ (fut[h][op] = None <=> v = None) => Cached(op)' = Cached(op)
<1>1. fut \in [Handles -> [Ops -> 0..Steps \cup {None}]]
  BY DEF IInv, TypeOK
<1>2. \A g \in Handles, o \in Ops : fut'[g][o] = IF g = h /\ o = op THEN v ELSE fut[g][o]
  BY <1>1
<1>3. \A o \in Ops : Cached(o)' = Cardinality({g \in Handles : fut'[g][o] # None})
  BY DEF Cached
<1>4. \A o \in Ops : o # op => {g \in Handles : fut'[g][o] # None} = Holders(o)
  BY <1>2 DEF Holders
<1>5. fut[h][op] = None /\ v # None =>
        {g \in Handles : fut'[g][op] # None} = Holders(op) \cup {h} /\ h \notin Holders(op)
  BY <1>2 DEF Holders
<1>6. fut[h][op] # None /\ v = None =>
        {g \in Handles : fut'[g][op] # None} = Holders(op) \ {h} /\ h \in Holders(op)
  BY <1>2 DEF Holders
<1>7. (fut[h][op] = None <=> v = None) =>
        {g \in Handles : fut'[g][op] # None} = Holders(op)
  BY <1>2 DEF Holders
<1>8. /\ IsFiniteSet(Holders(op))
      /\ \A o \in Ops : Cached(o) = Cardinality(Holders(o))
  BY FiniteCounts
<1>9. \A o \in Ops : o # op => Cached(o)' = Cached(o)
  BY <1>3, <1>4, <1>8
<1>10. fut[h][op] = None /\ v # None => Cached(op)' = Cached(op) + 1
  <2> SUFFICES ASSUME fut[h][op] = None /\ v # None
               PROVE  Cached(op)' = Cached(op) + 1
    OBVIOUS
  <2>1. Cached(op)' = Cardinality(Holders(op) \cup {h}) /\ h \notin Holders(op)
    BY <1>3, <1>5
  <2>2. Cardinality(Holders(op) \cup {h}) = Cardinality(Holders(op)) + 1
    BY <1>8, <2>1, FS_AddElement
  <2> QED
    BY <1>8, <2>1, <2>2
<1>11. fut[h][op] # None /\ v = None => Cached(op)' = Cached(op) - 1
  <2> SUFFICES ASSUME fut[h][op] # None /\ v = None
               PROVE  Cached(op)' = Cached(op) - 1
    OBVIOUS
  <2>1. Cached(op)' = Cardinality(Holders(op) \ {h}) /\ h \in Holders(op)
    BY <1>3, <1>6
  <2>2. Cardinality(Holders(op) \ {h}) = Cardinality(Holders(op)) - 1
    BY <1>8, <2>1, FS_RemoveElement
  <2> QED
    BY <1>8, <2>1, <2>2
<1>12. (fut[h][op] = None <=> v = None) => Cached(op)' = Cached(op)
  BY <1>3, <1>7, <1>8
<1> QED
  BY <1>9, <1>10, <1>11, <1>12

\* A stream given out is a new one.
LEMMA GivenChange ==
  ASSUME IInv, NEW op \in Ops,
         streams' = streams \cup {[op |-> op, index |-> Given(op)]}
  PROVE  /\ IsFiniteSet(streams')
         /\ \A o \in Ops : Given(o)' = IF o = op THEN Given(o) + 1 ELSE Given(o)
         /\ \A s \in streams' : s.index < Given(s.op)'
         /\ streams' \subseteq [op : Ops, index : Nat]
<1> DEFINE new == [op |-> op, index |-> Given(op)]
<1>1. new.op = op /\ new.index = Given(op) /\ Given(op) \in Nat
  BY FiniteCounts
<1>2. new \notin streams
  BY <1>1 DEF IInv
<1>3. streams' = streams \cup {new}
  OBVIOUS
<1>4. new \in [op : Ops, index : Nat]
  BY <1>1
<1> HIDE DEF new
<1>5. IsFiniteSet(streams')
  BY <1>3, FS_AddElement DEF IInv
<1>6. \A o \in Ops : Given(o)' = Cardinality({s \in streams' : s.op = o})
  BY DEF Given
<1>7. {s \in streams' : s.op = op} = GivenSet(op) \cup {new} /\ new \notin GivenSet(op)
  BY <1>1, <1>2, <1>3 DEF GivenSet
<1>8. \A o \in Ops : o # op => {s \in streams' : s.op = o} = GivenSet(o)
  BY <1>1, <1>3 DEF GivenSet
<1>9. \A o \in Ops : Given(o)' = IF o = op THEN Given(o) + 1 ELSE Given(o)
  <2>1. /\ \A o \in Ops : Given(o) = Cardinality(GivenSet(o))
        /\ IsFiniteSet(GivenSet(op))
    BY FiniteCounts
  <2>2. Given(op)' = Given(op) + 1
    <3>1. Given(op)' = Cardinality(GivenSet(op) \cup {new}) /\ new \notin GivenSet(op)
      BY <1>6, <1>7
    <3>2. Cardinality(GivenSet(op) \cup {new}) = Cardinality(GivenSet(op)) + 1
      BY <2>1, <3>1, FS_AddElement
    <3> QED
      BY <2>1, <3>1, <3>2
  <2>3. \A o \in Ops : o # op => Given(o)' = Given(o)
    BY <1>6, <1>8, <2>1
  <2> QED
    BY <2>2, <2>3
<1>10. \A s \in streams' : s.index < Given(s.op)'
  <2> SUFFICES ASSUME NEW s \in streams' PROVE s.index < Given(s.op)'
    OBVIOUS
  <2>1. CASE s = new
    BY <1>1, <1>9, <2>1
  <2>2. CASE s \in streams
    <3>1. s.op \in Ops /\ s.index \in Nat /\ s.index < Given(s.op)
      BY <2>2 DEF IInv, TypeOK
    <3>2. Given(s.op) \in Nat
      BY <3>1, FiniteCounts
    <3> QED
      BY <1>9, <3>1, <3>2
  <2> QED
    BY <1>3, <2>1, <2>2
<1> QED
  BY <1>3, <1>4, <1>5, <1>9, <1>10 DEF IInv, TypeOK

\* Nothing is given out while `streams` stays as it is.
LEMMA GivenSame ==
  ASSUME UNCHANGED streams
  PROVE  \A op \in Ops : Given(op)' = Given(op)
BY DEF Given

-----------------------------------------------------------------------------
(***************************************************************************)
(* The steps.                                                              *)
(***************************************************************************)

\* What the three outcomes of a poll have in common.
LEMMA PollFacts ==
  ASSUME IInv, NEW h \in Handles, NEW op \in Ops, Poll(h, op)
  PROVE  /\ started' \in [Ops -> 0..MaxAttempts]
         /\ \A o \in Ops : started'[o] = IF o = op /\ fut[h][op] = None
                                         THEN started[o] + 1 ELSE started[o]
         /\ h \in alive /\ Attempt(h, op) \in 0..Steps
<1>1. /\ fut \in [Handles -> [Ops -> 0..Steps \cup {None}]]
      /\ started \in [Ops -> 0..MaxAttempts]
  BY DEF IInv, TypeOK
<1>2. Attempt(h, op) \in 0..Steps
  BY <1>1, H3StreamsAssumption DEF Attempt
<1>3. CASE fut[h][op] = None
  <2>1. started[op] + 1 \in 0..MaxAttempts
    BY <1>1, <1>3, H3StreamsAssumption DEF Poll
  <2>2. started' = [started EXCEPT ![op] = @ + 1]
    BY <1>3 DEF Poll, Started
  <2> QED
    BY <1>1, <1>2, <1>3, <2>1, <2>2 DEF Poll
<1>4. CASE fut[h][op] # None
  BY <1>1, <1>2, <1>4 DEF Poll, Started
<1> QED
  BY <1>3, <1>4

\* A future of a handle in use may change; the rest of the types and the handles out
\* of use stay as they are.
LEMMA FutChange ==
  ASSUME IInv, NEW h \in alive, NEW op \in Ops, NEW v \in 0..Steps \cup {None},
         fut' = [fut EXCEPT ![h][op] = v], UNCHANGED << alive, dead >>
  PROVE  /\ fut' \in [Handles -> [Ops -> 0..Steps \cup {None}]]
         /\ \A g \in Handles \ alive', o \in Ops : fut'[g][o] = None
<1>1. fut \in [Handles -> [Ops -> 0..Steps \cup {None}]] /\ h \in Handles
  BY DEF IInv, TypeOK
<1> QED
  BY <1>1 DEF IInv

LEMMA IInvNext == IInv /\ [Next]_vars => IInv'
<1> SUFFICES ASSUME IInv, [Next]_vars PROVE IInv'
  OBVIOUS
<1>0. /\ TypeOK /\ AttemptsAccountedFor /\ IsFiniteSet(streams)
      /\ \A s \in streams : s.index < Given(s.op)
      /\ \A op \in Ops : Cached(op) \in Nat /\ Given(op) \in Nat
      /\ \A op \in Ops : started[op] \in Nat /\ ended[op] \in Nat
      /\ None \notin 0..Steps
  BY FiniteCounts, H3StreamsAssumption DEF IInv, TypeOK
\* What a step must show when it gives no stream out.
<1>g. ASSUME UNCHANGED streams
      PROVE  /\ IsFiniteSet(streams') /\ \A s \in streams' : s.index < Given(s.op)'
             /\ streams' \subseteq [op : Ops, index : Nat]
             /\ \A op \in Ops : Given(op)' = Given(op)
  <2>1. \A s \in streams : Given(s.op)' = Given(s.op)
    BY <1>0, <1>g, GivenSame DEF TypeOK
  <2> QED
    BY <1>0, <1>g, <2>1, GivenSame DEF TypeOK
<1>1. ASSUME NEW h \in Handles, NEW op \in Ops, PollReady(h, op)
      PROVE  IInv'
  <2>1. Poll(h, op) /\ fut' = [fut EXCEPT ![h][op] = None]
        /\ streams' = streams \cup {[op |-> op, index |-> Given(op)]}
        /\ UNCHANGED << ended, transport, alive, dead, closed >>
    BY <1>1 DEF PollReady, Ready, Poll
  <2>2. AttemptsAccountedFor'
    <3> SUFFICES ASSUME NEW o \in Ops
                 PROVE  started'[o] = Given(o)' + ended'[o] + Cached(o)'
      BY DEF AttemptsAccountedFor
    <3>1. started[o] = Given(o) + ended[o] + Cached(o)
      BY <1>0 DEF AttemptsAccountedFor
    <3>2. Given(o)' = IF o = op THEN Given(o) + 1 ELSE Given(o)
      BY <2>1, GivenChange
    <3>3. Cached(o)' = IF o = op /\ fut[h][op] # None THEN Cached(o) - 1 ELSE Cached(o)
      BY <2>1, CachedChange
    <3>4. started'[o] = IF o = op /\ fut[h][op] = None THEN started[o] + 1 ELSE started[o]
      BY <2>1, PollFacts
    <3> QED
      BY <1>0, <2>1, <3>1, <3>2, <3>3, <3>4
  <2>3. TypeOK'
    BY <1>0, <2>1, PollFacts, FutChange, GivenChange DEF TypeOK
  <2> QED
    BY <2>1, <2>2, <2>3, PollFacts, FutChange, GivenChange DEF IInv
<1>2. ASSUME NEW h \in Handles, NEW op \in Ops, PollFailed(h, op)
      PROVE  IInv'
  <2>1. Poll(h, op) /\ fut' = [fut EXCEPT ![h][op] = None]
        /\ ended' = [ended EXCEPT ![op] = @ + 1]
        /\ UNCHANGED << streams, transport, alive, dead, closed >>
    BY <1>2 DEF PollFailed, Ready, Poll
  <2>2. AttemptsAccountedFor'
    <3> SUFFICES ASSUME NEW o \in Ops
                 PROVE  started'[o] = Given(o)' + ended'[o] + Cached(o)'
      BY DEF AttemptsAccountedFor
    <3>1. started[o] = Given(o) + ended[o] + Cached(o)
      BY <1>0 DEF AttemptsAccountedFor
    <3>2. Given(o)' = Given(o)
      BY <1>g, <2>1
    <3>3. Cached(o)' = IF o = op /\ fut[h][op] # None THEN Cached(o) - 1 ELSE Cached(o)
      BY <2>1, CachedChange
    <3>4. started'[o] = IF o = op /\ fut[h][op] = None THEN started[o] + 1 ELSE started[o]
      BY <2>1, PollFacts
    <3>5. ended'[o] = IF o = op THEN ended[o] + 1 ELSE ended[o]
      BY <1>0, <2>1 DEF TypeOK
    <3> QED
      BY <1>0, <3>1, <3>2, <3>3, <3>4, <3>5
  <2>3. ended' \in [Ops -> Nat]
    BY <1>0, <2>1 DEF TypeOK
  <2>4. TypeOK'
    BY <1>0, <1>g, <2>1, <2>3, PollFacts, FutChange DEF TypeOK
  <2> QED
    BY <1>g, <2>1, <2>2, <2>4, PollFacts, FutChange DEF IInv
<1>3. ASSUME NEW h \in Handles, NEW op \in Ops, PollPending(h, op)
      PROVE  IInv'
  <2>1. Poll(h, op) /\ fut' = [fut EXCEPT ![h][op] = Attempt(h, op)]
        /\ UNCHANGED << ended, streams, transport, alive, dead, closed >>
    BY <1>3 DEF PollPending, Pending, Poll
  <2>2. Attempt(h, op) \in 0..Steps /\ Attempt(h, op) # None
    BY <1>0, <2>1, PollFacts
  <2>3. AttemptsAccountedFor'
    <3> SUFFICES ASSUME NEW o \in Ops
                 PROVE  started'[o] = Given(o)' + ended'[o] + Cached(o)'
      BY DEF AttemptsAccountedFor
    <3>1. started[o] = Given(o) + ended[o] + Cached(o)
      BY <1>0 DEF AttemptsAccountedFor
    <3>2. Given(o)' = Given(o)
      BY <1>g, <2>1
    <3>3. Cached(o)' = IF o = op /\ fut[h][op] = None THEN Cached(o) + 1 ELSE Cached(o)
      <4> DEFINE v == Attempt(h, op)
      <4>1. v \in 0..Steps \cup {None} /\ v # None /\ fut' = [fut EXCEPT ![h][op] = v]
        BY <2>1, <2>2
      <4> HIDE DEF v
      <4>2. /\ \A p \in Ops : p # op => Cached(p)' = Cached(p)
            /\ fut[h][op] = None => Cached(op)' = Cached(op) + 1
            /\ fut[h][op] # None => Cached(op)' = Cached(op)
        BY <4>1, CachedChange
      <4> QED
        BY <4>2
    <3>4. started'[o] = IF o = op /\ fut[h][op] = None THEN started[o] + 1 ELSE started[o]
      BY <2>1, PollFacts
    <3> QED
      BY <1>0, <2>1, <3>1, <3>2, <3>3, <3>4
  <2>4. TypeOK'
    BY <1>0, <1>g, <2>1, <2>2, PollFacts, FutChange DEF TypeOK
  <2> QED
    BY <1>g, <2>1, <2>2, <2>3, <2>4, PollFacts, FutChange DEF IInv
<1>4. ASSUME NEW h \in Handles, NEW op \in Ops, Progress(h, op)
      PROVE  IInv'
  <2>1. /\ fut[h][op] # None /\ fut[h][op] < Steps
        /\ fut' = [fut EXCEPT ![h][op] = fut[h][op] + 1]
        /\ UNCHANGED << transport, alive, dead, closed, started, ended, streams >>
    BY <1>0, <1>4 DEF Progress, TypeOK
  <2>2. fut[h][op] + 1 \in 0..Steps /\ fut[h][op] + 1 # None
    <3>1. fut[h][op] \in 0..Steps
      BY <1>0, <2>1 DEF TypeOK
    <3> QED
      BY <1>0, <2>1, <3>1, H3StreamsAssumption
  <2>3. h \in alive
    BY <2>1 DEF IInv
  <2>4. \A o \in Ops : Cached(o)' = Cached(o)
    <3> DEFINE v == fut[h][op] + 1
    <3>1. v \in 0..Steps \cup {None} /\ v # None /\ fut' = [fut EXCEPT ![h][op] = v]
      BY <2>1, <2>2
    <3> HIDE DEF v
    <3>2. fut[h][op] # None
      BY <2>1
    <3>3. Cached(op)' = Cached(op)
      BY <3>1, <3>2, CachedChange
    <3>4. \A o \in Ops : o # op => Cached(o)' = Cached(o)
      BY <3>1, CachedChange
    <3> QED
      BY <3>3, <3>4
  <2>5. AttemptsAccountedFor'
    BY <1>0, <1>g, <2>1, <2>4 DEF AttemptsAccountedFor
  <2>6. TypeOK'
    BY <1>0, <1>g, <2>1, <2>2, <2>3, FutChange DEF TypeOK
  <2> QED
    BY <1>g, <2>1, <2>2, <2>3, <2>5, <2>6, FutChange DEF IInv
<1>5. ASSUME NEW h \in Handles, NEW new \in Handles, Clone(h, new)
      PROVE  IInv'
  <2>1. /\ new \in Handles \ alive
        /\ alive' = alive \cup {new}
        /\ fut' = [fut EXCEPT ![new] = [op \in Ops |-> None]]
        /\ UNCHANGED << transport, dead, closed, started, ended, streams >>
    BY <1>5 DEF Clone, NoFutures
  <2>2. fut' = fut
    <3>1. fut[new] = [op \in Ops |-> None]
      BY <1>0, <2>1 DEF IInv, TypeOK
    <3> QED
      BY <1>0, <2>1, <3>1 DEF TypeOK
  <2>3. \A o \in Ops : Cached(o)' = Cached(o)
    BY <2>2 DEF Cached
  <2>4. AttemptsAccountedFor'
    BY <1>0, <1>g, <2>1, <2>3 DEF AttemptsAccountedFor
  <2>5. TypeOK'
    BY <1>0, <1>g, <2>1, <2>2 DEF TypeOK
  <2> QED
    BY <1>g, <2>1, <2>2, <2>4, <2>5 DEF IInv
<1>6. ASSUME NEW h \in Handles, DropHandle(h)
      PROVE  IInv'
  <2>1. /\ h \in alive /\ alive' = alive \ {h} /\ dead' = dead \cup {h}
        /\ ended' = [op \in Ops |-> IF fut[h][op] = None THEN ended[op] ELSE ended[op] + 1]
        /\ fut' = [fut EXCEPT ![h] = [op \in Ops |-> None]]
        /\ UNCHANGED << transport, closed, started, streams >>
    BY <1>6 DEF DropHandle
  <2>2. \A g \in Handles, o \in Ops : fut'[g][o] = IF g = h THEN None ELSE fut[g][o]
    BY <1>0, <2>1 DEF TypeOK
  <2>3. \A o \in Ops : Cached(o)' = IF fut[h][o] = None THEN Cached(o) ELSE Cached(o) - 1
    <3> SUFFICES ASSUME NEW o \in Ops
                 PROVE  Cached(o)' = IF fut[h][o] = None THEN Cached(o) ELSE Cached(o) - 1
      OBVIOUS
    <3>1. Cached(o)' = Cardinality({g \in Handles : fut'[g][o] # None})
      BY DEF Cached
    <3>2. {g \in Handles : fut'[g][o] # None} = Holders(o) \ {h}
      BY <2>2 DEF Holders
    <3>3. IsFiniteSet(Holders(o)) /\ Cached(o) = Cardinality(Holders(o))
      BY FiniteCounts
    <3>4. h \in Holders(o) <=> fut[h][o] # None
      BY DEF Holders
    <3> QED
      BY <3>1, <3>2, <3>3, <3>4, FS_RemoveElement
  <2>4. AttemptsAccountedFor'
    <3> SUFFICES ASSUME NEW o \in Ops
                 PROVE  started'[o] = Given(o)' + ended'[o] + Cached(o)'
      BY DEF AttemptsAccountedFor
    <3>1. started[o] = Given(o) + ended[o] + Cached(o) /\ Given(o)' = Given(o)
      BY <1>0, <1>g, <2>1 DEF AttemptsAccountedFor
    <3>2. ended'[o] = IF fut[h][o] = None THEN ended[o] ELSE ended[o] + 1
      BY <2>1
    <3> QED
      BY <1>0, <2>1, <2>3, <3>1, <3>2
  <2>5. TypeOK'
    <3>1. fut' \in [Handles -> [Ops -> 0..Steps \cup {None}]]
      BY <1>0, <2>1 DEF TypeOK
    <3>2. ended' \in [Ops -> Nat]
      BY <1>0, <2>1
    <3> QED
      BY <1>0, <1>g, <2>1, <3>1, <3>2 DEF TypeOK
  <2> QED
    BY <1>g, <2>1, <2>2, <2>4, <2>5 DEF IInv
<1>7. CASE ConnectionCloses \/ UNCHANGED vars
  <2>1. UNCHANGED << transport, alive, dead, fut, started, ended, streams >> /\ closed' \in BOOLEAN
    BY <1>0, <1>7 DEF ConnectionCloses, vars, TypeOK
  <2>2. \A o \in Ops : Cached(o)' = Cached(o)
    BY <2>1 DEF Cached
  <2>3. AttemptsAccountedFor'
    BY <1>0, <1>g, <2>1, <2>2 DEF AttemptsAccountedFor
  <2>4. TypeOK'
    BY <1>0, <2>1 DEF TypeOK
  <2> QED
    BY <1>g, <2>1, <2>3, <2>4 DEF IInv
<1> QED
  BY <1>1, <1>2, <1>3, <1>4, <1>5, <1>6, <1>7 DEF Next

LEMMA IInvHolds == Spec => []IInv
  BY IInvInit, IInvNext, PTL DEF Spec

\* The handles, their futures and the counts keep their types, for any number of
\* handles, operations and attempts.
THEOREM StreamsTypeCorrect == Spec => []TypeOK
  BY IInvHolds, PTL DEF IInv

\* Every attempt begun ends once, in a stream, in an error or with its handle, or is
\* cached by one handle, however handles are cloned and dropped.
THEOREM EveryAttemptAccountedFor == Spec => []AttemptsAccountedFor
  BY IInvHolds, PTL DEF IInv
=============================================================================
