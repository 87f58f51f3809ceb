-------------------------- MODULE HyperPromiseProofs --------------------------
(***************************************************************************)
(* What a Hyper session promises to any number of callers: turns over      *)
(* HTTP/1.1 are taken in the order in which they were asked for, requests  *)
(* fail for a few reasons only, and the session implements OneSession.     *)
(***************************************************************************)
EXTENDS HyperSessionProofs

-----------------------------------------------------------------------------
(***************************************************************************)
(* Turns.                                                                  *)
(***************************************************************************)

\* c stands before d in s.
Earlier(s, c, d) ==
  \E i, j \in 1..Len(s) : i < j /\ s[i] = c /\ s[j] = d

\* Who has asked has done it once, and nobody's request is handed over unasked.
AskedOnce ==
  /\ \A i, j \in 1..Len(asked) : asked[i] = asked[j] => i = j
  /\ \A c \in Callers : pc[c] = "new" <=> \A i \in 1..Len(asked) : asked[i] # c
  /\ \A i \in 1..Len(handed) : pc[handed[i]] # "new"

\* The Mutex queues the callers in the order in which they asked, and whoever
\* has had a turn asked before those that still wait for one.
TurnsInOrder ==
  ~IsH2 =>
    /\ \A i, j \in 1..Len(queue) : i < j => Earlier(asked, queue[i], queue[j])
    /\ \A i, j \in 1..Len(handed) : i < j => Earlier(asked, handed[i], handed[j])
    /\ \A i \in 1..Len(handed), j \in 1..Len(queue) :
         \/ Earlier(asked, handed[i], queue[j])
         \/ handed[i] = queue[j] /\ pc[queue[j]] = "inflight"

Turns == AskedOnce /\ TurnsInOrder

\* Each two of the new queue stood in the old one in the same order.
Thinned ==
  \A i, j \in 1..Len(queue') : \E k, l \in 1..Len(queue) :
    queue'[i] = queue[k] /\ queue'[j] = queue[l] /\ (i < j => k < l)

\* Leaving the queue leaves the others in their order.
LEMMA LeavingThins ==
  ASSUME TypeOK, NEW c \in Callers, queue' = queue \/ queue' = Release(c)
  PROVE  Thinned
<1>1. queue \in Seq(Callers) /\ Len(queue) \in Nat
  BY LenProperties DEF TypeOK
<1>2. CASE queue' = queue
  BY <1>2 DEF Thinned
<1>3. ASSUME NEW p \in 1..Len(queue), Len(queue') = Len(queue) - 1,
             \A j \in 1..Len(queue) - 1 :
               queue'[j] = IF j < p THEN queue[j] ELSE queue[j + 1]
      PROVE  Thinned
  <2> DEFINE old(j) == IF j < p THEN j ELSE j + 1
  <2>1. \A j \in 1..Len(queue') : old(j) \in 1..Len(queue) /\ queue'[j] = queue[old(j)]
    BY <1>1, <1>3
  <2>2. \A i, j \in 1..Len(queue') : i < j => old(i) < old(j)
    BY <1>1, <1>3
  <2> HIDE DEF old
  <2> QED
    BY <2>1, <2>2 DEF Thinned
<1>4. CASE queue' = Release(c)
  <2>1. \/ queue' = queue /\ \A i \in 1..Len(queue) : queue[i] # c
        \/ \E p \in 1..Len(queue) :
             /\ queue[p] = c
             /\ Len(queue') = Len(queue) - 1
             /\ \A j \in 1..Len(queue) - 1 :
                  queue'[j] = IF j < p THEN queue[j] ELSE queue[j + 1]
    BY <1>1, <1>4, RemoveFirstEffect DEF Release
  <2> QED
    BY <1>2, <1>3, <2>1
<1> QED
  BY <1>2, <1>4

\* Turns stay in order when callers do nothing but leave.
LEMMA TurnsKept ==
  ASSUME Turns, TypeOK, IsH2' = IsH2, UNCHANGED << asked, handed >>,
         \A c \in Callers : pc'[c] = "new" <=> pc[c] = "new",
         ~IsH2 => Thinned,
         ~IsH2 => \A i \in 1..Len(queue') :
                    pc[queue'[i]] = "inflight" => pc'[queue'[i]] = "inflight"
  PROVE  Turns'
<1>1. \A i \in 1..Len(handed) : handed[i] \in Callers
  BY ElementOfSeq DEF TypeOK
<1>2. AskedOnce'
  BY <1>1 DEF Turns, AskedOnce
<1>3. TurnsInOrder'
  <2> SUFFICES ASSUME ~IsH2
               PROVE  TurnsInOrder'
    BY DEF TurnsInOrder
  <2>1. /\ \A i, j \in 1..Len(queue) : i < j => Earlier(asked, queue[i], queue[j])
        /\ \A i, j \in 1..Len(handed) : i < j => Earlier(asked, handed[i], handed[j])
        /\ \A i \in 1..Len(handed), j \in 1..Len(queue) :
             \/ Earlier(asked, handed[i], queue[j])
             \/ handed[i] = queue[j] /\ pc[queue[j]] = "inflight"
    BY DEF Turns, TurnsInOrder
  <2>0. \A i, j \in 1..Len(queue') : \E k, l \in 1..Len(queue) :
          queue'[i] = queue[k] /\ queue'[j] = queue[l] /\ (i < j => k < l)
    BY DEF Thinned
  <2>2. ASSUME NEW i \in 1..Len(queue'), NEW j \in 1..Len(queue'), i < j
        PROVE  Earlier(asked, queue'[i], queue'[j])
    <3>1. PICK k, l \in 1..Len(queue) :
            queue'[i] = queue[k] /\ queue'[j] = queue[l] /\ (i < j => k < l)
      BY <2>0
    <3> QED
      BY <2>1, <2>2, <3>1
  <2>3. ASSUME NEW i \in 1..Len(handed), NEW j \in 1..Len(queue')
        PROVE  \/ Earlier(asked, handed[i], queue'[j])
               \/ handed[i] = queue'[j] /\ pc'[queue'[j]] = "inflight"
    <3>1. PICK k \in 1..Len(queue) : queue'[j] = queue[k]
      BY <2>0
    <3> QED
      BY <2>1, <3>1
  <2> QED
    BY <2>1, <2>2, <2>3 DEF TurnsInOrder
<1> QED
  BY <1>2, <1>3 DEF Turns

\* Whoever is at the end of a sequence came after all others in it.
LEMMA LastIsLater ==
  ASSUME NEW S, NEW s \in Seq(S), NEW d \in S
  PROVE  /\ Append(s, d) \in Seq(S)
         /\ Len(s) \in Nat /\ Len(Append(s, d)) = Len(s) + 1
         /\ \A i \in 1..Len(s) : Append(s, d)[i] = s[i]
         /\ Append(s, d)[Len(s) + 1] = d
         /\ \A i \in 1..Len(s) : Earlier(Append(s, d), s[i], d)
         /\ \A b, c : Earlier(s, b, c) => Earlier(Append(s, d), b, c)
<1>1. /\ Append(s, d) \in Seq(S)
      /\ Len(s) \in Nat /\ Len(Append(s, d)) = Len(s) + 1
      /\ \A i \in 1..Len(s) : Append(s, d)[i] = s[i]
      /\ Append(s, d)[Len(s) + 1] = d
  BY AppendProperties, LenProperties
<1> DEFINE t == Append(s, d)
<1> HIDE DEF t
<1>2. /\ Len(s) \in Nat /\ Len(t) = Len(s) + 1
      /\ \A i \in 1..Len(s) : t[i] = s[i]
      /\ t[Len(s) + 1] = d
  BY <1>1 DEF t
<1>3. ASSUME NEW i \in 1..Len(s)
      PROVE  Earlier(t, s[i], d)
  <2>1. i \in 1..Len(t) /\ Len(s) + 1 \in 1..Len(t) /\ i < Len(s) + 1
    BY <1>2
  <2> QED
    BY <1>2, <2>1 DEF Earlier
<1>4. ASSUME NEW b, NEW c, Earlier(s, b, c)
      PROVE  Earlier(t, b, c)
  BY <1>2, <1>4 DEF Earlier
<1> QED
  BY <1>1, <1>3, <1>4 DEF t

\* Turns stay in order in every step.
LEMMA TurnsStep ==
  IInv /\ Turns /\ [Next]_vars => Turns'
<1> SUFFICES ASSUME IInv, Turns, [Next]_vars
             PROVE  Turns'
  OBVIOUS
<1>1. TypeOK /\ LockOrder /\ LockOrder' /\ IsH2' = IsH2
  BY ProtocolKept, LockStep DEF IInv
<1>2. /\ queue \in Seq(Callers) /\ asked \in Seq(Callers) /\ handed \in Seq(Callers)
      /\ pc = [d \in Callers |-> pc[d]]
      /\ \A i \in 1..Len(queue) : queue[i] \in Callers
      /\ \A i \in 1..Len(handed) : handed[i] \in Callers
      /\ Len(queue) \in Nat /\ Len(handed) \in Nat /\ Len(asked) \in Nat
  <2>1. /\ queue \in Seq(Callers) /\ asked \in Seq(Callers) /\ handed \in Seq(Callers)
        /\ pc = [d \in Callers |-> pc[d]]
    BY <1>1 DEF TypeOK
  <2> QED
    BY <2>1, ElementOfSeq, LenProperties
<1>3. ASSUME NEW c \in Callers, Ask(c)
      PROVE  Turns'
  <2>1. /\ pc[c] = "new" /\ asked' = Append(asked, c) /\ handed' = handed
        /\ Goto(c, "readying") \/ Goto(c, "queued")
        /\ ~IsH2 => Goto(c, "queued") /\ queue' = Append(queue, c)
    BY <1>3 DEF Ask, Join
  <2>2. /\ pc'[c] # "new" /\ \A d \in Callers : d # c => pc'[d] = pc[d]
    BY <1>2, <2>1 DEF Goto
  <2>3. /\ Len(asked') = Len(asked) + 1
        /\ \A i \in 1..Len(asked) : asked'[i] = asked[i]
        /\ asked'[Len(asked) + 1] = c
        /\ \A i \in 1..Len(asked) : Earlier(asked', asked[i], c)
        /\ \A a, b : Earlier(asked, a, b) => Earlier(asked', a, b)
    BY <1>2, <2>1, LastIsLater
  <2>4. /\ \A i, j \in 1..Len(asked) : asked[i] = asked[j] => i = j
        /\ \A d \in Callers : pc[d] = "new" <=> \A i \in 1..Len(asked) : asked[i] # d
        /\ \A i \in 1..Len(handed) : pc[handed[i]] # "new"
    BY DEF Turns, AskedOnce
  <2>5. AskedOnce'
    <3>1. \A i \in 1..Len(asked') : i \in 1..Len(asked) \/ i = Len(asked) + 1
      BY <1>2, <2>3
    <3>2. \A i, j \in 1..Len(asked') : asked'[i] = asked'[j] => i = j
      BY <2>1, <2>3, <2>4, <3>1
    <3>3. ASSUME NEW d \in Callers
          PROVE  pc'[d] = "new" <=> \A i \in 1..Len(asked') : asked'[i] # d
      <4>1. 1..Len(asked) \subseteq 1..Len(asked') /\ Len(asked) + 1 \in 1..Len(asked')
        BY <1>2, <2>3
      <4>2. CASE d = c
        BY <2>2, <2>3, <4>1, <4>2
      <4>3. CASE d # c
        BY <2>2, <2>3, <2>4, <3>1, <4>1, <4>3
      <4> QED
        BY <4>2, <4>3
    <3>4. \A i \in 1..Len(handed') : pc'[handed'[i]] # "new"
      BY <1>2, <2>1, <2>2, <2>4
    <3> QED
      BY <3>2, <3>3, <3>4 DEF AskedOnce
  <2>6. TurnsInOrder'
    <3> SUFFICES ASSUME ~IsH2
                 PROVE  TurnsInOrder'
      BY <1>1 DEF TurnsInOrder
    <3>1. /\ Len(queue') = Len(queue) + 1
          /\ \A i \in 1..Len(queue) : queue'[i] = queue[i]
          /\ queue'[Len(queue) + 1] = c
      BY <1>2, <2>1, LastIsLater
    <3>2. \A i \in 1..Len(queue') : i \in 1..Len(queue) \/ i = Len(queue) + 1
      BY <1>2, <3>1
    <3>3. ASSUME NEW d \in Callers, pc[d] # "new"
          PROVE  Earlier(asked', d, c)
      BY <2>3, <2>4, <3>3
    <3>4. \A i \in 1..Len(queue) : pc[queue[i]] # "new"
      BY <1>1, <1>2 DEF LockOrder, Calling
    <3>5. /\ \A i, j \in 1..Len(queue) : i < j => Earlier(asked, queue[i], queue[j])
          /\ \A i, j \in 1..Len(handed) : i < j => Earlier(asked, handed[i], handed[j])
          /\ \A i \in 1..Len(handed), j \in 1..Len(queue) :
               \/ Earlier(asked, handed[i], queue[j])
               \/ handed[i] = queue[j] /\ pc[queue[j]] = "inflight"
      BY DEF Turns, TurnsInOrder
    <3>6. ASSUME NEW i \in 1..Len(queue'), NEW j \in 1..Len(queue'), i < j
          PROVE  Earlier(asked', queue'[i], queue'[j])
      <4>1. i \in 1..Len(queue)
        BY <1>2, <3>1, <3>6
      <4>2. CASE j \in 1..Len(queue)
        BY <2>3, <3>1, <3>5, <3>6, <4>1, <4>2
      <4>3. CASE j = Len(queue) + 1
        BY <1>2, <3>1, <3>3, <3>4, <4>1, <4>3
      <4> QED
        BY <3>2, <4>2, <4>3
    <3>7. ASSUME NEW i \in 1..Len(handed'), NEW j \in 1..Len(queue')
          PROVE  \/ Earlier(asked', handed'[i], queue'[j])
                 \/ handed'[i] = queue'[j] /\ pc'[queue'[j]] = "inflight"
      <4>1. CASE j \in 1..Len(queue)
        <5>1. queue[j] # c
          BY <2>1, <3>4, <4>1
        <5> QED
          BY <1>2, <2>1, <2>2, <2>3, <3>1, <3>5, <4>1, <5>1
      <4>2. CASE j = Len(queue) + 1
        BY <1>2, <2>1, <2>4, <3>1, <3>3, <4>2
      <4> QED
        BY <3>2, <4>1, <4>2
    <3>8. \A i, j \in 1..Len(handed') : i < j => Earlier(asked', handed'[i], handed'[j])
      BY <2>1, <2>3, <3>5
    <3> QED
      BY <3>6, <3>7, <3>8 DEF TurnsInOrder
  <2> QED
    BY <2>5, <2>6 DEF Turns
\* The one that hands a request over is the holder, after all who had a turn.
<1>4. ASSUME NEW c \in Callers, Send(c)
      PROVE  Turns'
  <2>1. /\ pc[c] = "readying" /\ pc' = [pc EXCEPT ![c] = "inflight"]
        /\ handed' = Append(handed, c) /\ UNCHANGED << queue, asked >>
    BY <1>4 DEF Send, Ready, Goto
  <2>2. \A d \in Callers : pc'[d] = IF d = c THEN "inflight" ELSE pc[d]
    BY <1>2, <2>1
  <2>3. /\ Len(handed') = Len(handed) + 1
        /\ \A i \in 1..Len(handed) : handed'[i] = handed[i]
        /\ handed'[Len(handed) + 1] = c
    BY <1>2, <2>1, LastIsLater
  <2>4. \A i \in 1..Len(handed') : i \in 1..Len(handed) \/ i = Len(handed) + 1
    BY <1>2, <2>3
  <2>5. AskedOnce'
    <3>1. \A d \in Callers : pc'[d] = "new" <=> pc[d] = "new"
      BY <2>1, <2>2
    <3>2. \A i \in 1..Len(handed') : pc'[handed'[i]] # "new"
      BY <1>2, <2>1, <2>2, <2>3, <2>4, <3>1 DEF Turns, AskedOnce
    <3> QED
      BY <2>1, <3>1, <3>2 DEF Turns, AskedOnce
  <2>6. TurnsInOrder'
    <3> SUFFICES ASSUME ~IsH2
                 PROVE  TurnsInOrder'
      BY <1>1 DEF TurnsInOrder
    <3>1. /\ \A i, j \in 1..Len(queue) : i < j => Earlier(asked, queue[i], queue[j])
          /\ \A i, j \in 1..Len(handed) : i < j => Earlier(asked, handed[i], handed[j])
          /\ \A i \in 1..Len(handed), j \in 1..Len(queue) :
               \/ Earlier(asked, handed[i], queue[j])
               \/ handed[i] = queue[j] /\ pc[queue[j]] = "inflight"
      BY DEF Turns, TurnsInOrder
    <3>2. 1 \in 1..Len(queue) /\ queue[1] = c
      <4>1. PICK i \in 1..Len(queue) : queue[i] = c
        BY <1>1, <2>1 DEF LockOrder, Calling
      <4>2. i = 1
        BY <1>1, <1>2, <2>1, <4>1 DEF LockOrder
      <4> QED
        BY <4>1, <4>2
    <3>3. \A i \in 1..Len(handed) : Earlier(asked, handed[i], c)
      BY <2>1, <3>1, <3>2
    <3>4. ASSUME NEW i \in 1..Len(handed'), NEW j \in 1..Len(handed'), i < j
          PROVE  Earlier(asked, handed'[i], handed'[j])
      <4>1. i \in 1..Len(handed)
        BY <1>2, <2>3, <3>4
      <4> QED
        BY <2>3, <2>4, <3>1, <3>3, <3>4, <4>1
    <3>5. ASSUME NEW i \in 1..Len(handed'), NEW j \in 1..Len(queue)
          PROVE  \/ Earlier(asked, handed'[i], queue[j])
                 \/ handed'[i] = queue[j] /\ pc'[queue[j]] = "inflight"
      <4>1. CASE i \in 1..Len(handed)
        BY <1>2, <2>2, <2>3, <3>1, <4>1
      <4>2. CASE i = Len(handed) + 1 /\ j = 1
        BY <1>2, <2>2, <2>3, <3>2, <4>2
      <4>3. CASE i = Len(handed) + 1 /\ j # 1
        <5>1. 1 < j
          BY <1>2, <4>3
        <5> QED
          BY <2>3, <3>1, <3>2, <4>3, <5>1
      <4> QED
        BY <2>4, <4>1, <4>2, <4>3
    <3> QED
      BY <2>1, <3>1, <3>4, <3>5 DEF TurnsInOrder
  <2> QED
    BY <2>5, <2>6 DEF Turns
\* A caller that moves on within, or out of, send_request.
<1>5. ASSUME NEW c \in Callers, NEW place, Goto(c, place), place # "new", pc[c] # "new",
             UNCHANGED << asked, handed >>,
             \/ queue' = queue /\ pc[c] # "inflight"
             \/ queue' = Release(c) /\ place \notin Calling
      PROVE  Turns'
  <2>1. \A d \in Callers : pc'[d] = IF d = c THEN place ELSE pc[d]
    BY <1>2, <1>5 DEF Goto
  <2>2. Thinned
    BY <1>1, <1>5, LeavingThins
  <2>3. ASSUME ~IsH2, NEW i \in 1..Len(queue'), pc[queue'[i]] = "inflight"
        PROVE  pc'[queue'[i]] = "inflight"
    <3>1. queue'[i] \in Callers
      BY <1>2, <2>2, <2>3 DEF Thinned
    <3>2. queue'[i] # c
      BY <1>1, <1>5, <2>1, <2>3 DEF LockOrder
    <3> QED
      BY <2>1, <2>3, <3>1, <3>2
  <2> QED
    BY <1>1, <1>5, <2>1, <2>2, <2>3, TurnsKept
<1>6. ASSUME NEW c \in Callers, Locked(c) \/ NotReady(c) \/ Return(c) \/ Cancel(c)
                                 \/ BodyStep(c)
      PROVE  Turns'
  <2>1. \E place :
          /\ Goto(c, place) /\ place # "new" /\ pc[c] # "new"
          /\ UNCHANGED << asked, handed >>
          /\ \/ queue' = queue /\ pc[c] # "inflight"
             \/ queue' = Release(c) /\ place \notin Calling
    BY <1>6 DEF Locked, NotReady, Return, Cancel, BodyStep, ReadBody, DropBody, Calling
  <2> QED
    BY <1>5, <2>1
<1>7. CASE UNCHANGED << pc, queue, asked, handed >>
  <2>1. Thinned
    BY <1>7 DEF Thinned
  <2> QED
    BY <1>1, <1>7, <2>1, TurnsKept
<1>8. ConnStep \/ Mishap \/ UNCHANGED vars => UNCHANGED << pc, queue, asked, handed >>
  BY DEF ConnStep, Mishap, ServerCloses, BodyFails, StreamReset, LoseStream, vars,
         callerVars, Want, Take, TakeCancelled, Answer, Abandoned, Forget, Drained,
         Close
<1> QED
  BY <1>3, <1>4, <1>6, <1>7, <1>8 DEF Next, CallerStep

-----------------------------------------------------------------------------
(***************************************************************************)
(* The connection.                                                         *)
(***************************************************************************)

\* A connection that was closed has nothing in it, and was closed by the server,
\* or over HTTP/1.1 because of a request that could not be finished.  Errors come
\* from a closed connection or, over HTTP/2, from the end of one's own stream.
Culprit(c) == GivenUp(c) \/ c \in broken
ClosedForAReason ==
  /\ conn = "closed" => ~IsH2 /\ \E c \in Callers : Culprit(c)
  /\ conn # "open" => channel = << >> /\ exchange = {}
  /\ \A c \in Callers :
       pc[c] = "failed" \/ answer[c] = Error => conn # "open" \/ (IsH2 /\ c \in broken)

\* What the connection has was handed to it, and has not failed; each request is
\* in one place of it, and answered only after it has left the channel.
EachInOnePlace ==
  /\ \A c \in exchange :
       /\ answer[c] # Error /\ pc[c] # "failed"
       /\ \E i \in 1..Len(handed) : handed[i] = c
  /\ \A i \in 1..Len(channel) :
       /\ channel[i] \notin exchange
       /\ answer[channel[i]] = None
       /\ \E j \in 1..Len(handed) : handed[j] = channel[i]
  /\ \A i, j \in 1..Len(channel) : channel[i] = channel[j] => i = j

Connected(c) == c \in exchange \/ \E i \in 1..Len(channel) : channel[i] = c

\* An unanswered caller is in the connection, and whom the connection has not
\* answered is either after its response or has given up.
SentIsConnected ==
  \A c \in Callers :
    /\ pc[c] = "inflight" /\ answer[c] = None => Connected(c)
    /\ Connected(c) /\ answer[c] = None => pc[c] \in {"inflight", "cancelled"}

Reasons == ClosedForAReason /\ EachInOnePlace /\ SentIsConnected

\* The callers in the connection, as OneSession has them.
LEMMA InConnection ==
  ASSUME TypeOK
  PROVE  /\ \A c : Connected(c) <=> c \in ToSet(channel) \cup exchange
         /\ \A c : c \in ToSet(handed) <=> \E i \in 1..Len(handed) : handed[i] = c
         /\ \A c : Connected(c) => c \in Callers
<1>1. /\ DOMAIN channel = 1..Len(channel) /\ DOMAIN handed = 1..Len(handed)
      /\ \A i \in 1..Len(channel) : channel[i] \in Callers
      /\ exchange \subseteq Callers
  BY LenProperties, ElementOfSeq DEF TypeOK
<1> QED
  BY <1>1 DEF Connected, ToSet

\* A connection that closes for a reason is empty, and has told everyone.
LEMMA ClosingStep ==
  ASSUME IInv, Reasons, IsH2' = IsH2, NEW how \in {"closed", "refused"}, Close(how),
         broken \subseteq broken',
         how = "closed" => ~IsH2 /\ \E c \in Callers : GivenUp(c) \/ c \in broken'
  PROVE  Reasons'
<1>1. /\ channel' = << >> /\ exchange' = {} /\ conn' = how
      /\ UNCHANGED << pc, handed >>
      /\ answer' = [c \in Callers |->
                      IF answer[c] = None /\ c \in ToSet(channel) \cup exchange
                      THEN Error ELSE answer[c]]
      /\ Len(<< >>) = 0
  BY EmptySeq DEF Close, callerVars
<1>2. ClosedForAReason'
  <2>1. \A c \in Callers : GivenUp(c) => GivenUp(c)'
    BY <1>1 DEF GivenUp
  <2> QED
    BY <1>1, <2>1 DEF ClosedForAReason, Culprit
<1>3. EachInOnePlace'
  BY <1>1 DEF EachInOnePlace
<1>4. SentIsConnected'
  <2>1. \A c : ~Connected(c)'
    BY <1>1 DEF Connected
  <2>2. ASSUME NEW c \in Callers, pc[c] = "inflight", answer'[c] = None
        PROVE  FALSE
    <3>1. answer[c] = None /\ c \notin ToSet(channel) \cup exchange
      BY <1>1, <2>2, HyperAssumption
    <3>2. Connected(c)
      BY <2>2, <3>1 DEF Reasons, SentIsConnected
    <3> QED
      BY <3>1, <3>2, InConnection DEF IInv
  <2> QED
    BY <1>1, <2>1, <2>2 DEF SentIsConnected
<1> QED
  BY <1>2, <1>3, <1>4 DEF Reasons

\* A caller that moves on without touching the connection: not into flight, and
\* away from its exchange only when it gives up or has its answer.
LEMMA MovingOn ==
  ASSUME IInv, Reasons, IsH2' = IsH2, NEW c \in Callers, NEW place, Goto(c, place),
         UNCHANGED << answer, channel, conn, broken, handed >>,
         \/ exchange' = exchange
         \/ exchange' = exchange \ {c} /\ answer[c] # None,
         place # "inflight", pc[c] \notin {"cancelled", "dropped"},
         place = "failed" => conn # "open" \/ answer[c] = Error,
         place = "cancelled" \/ answer[c] # None \/ ~Connected(c)
  PROVE  Reasons'
<1>1. \A d \in Callers : pc'[d] = IF d = c THEN place ELSE pc[d]
  BY DEF Goto, IInv, TypeOK
<1>2. ClosedForAReason'
  <2>1. \A d \in Callers : GivenUp(d) => GivenUp(d)'
    BY <1>1 DEF GivenUp
  <2> QED
    BY <1>1, <2>1 DEF Reasons, ClosedForAReason, Culprit
<1>3. EachInOnePlace'
  <2>1. exchange' \subseteq exchange /\ exchange \subseteq Callers
    BY DEF IInv, TypeOK
  <2>2. ASSUME NEW d \in exchange'
        PROVE  /\ answer'[d] # Error /\ pc'[d] # "failed"
               /\ \E i \in 1..Len(handed') : handed'[i] = d
    <3>1. /\ answer[d] # Error /\ pc[d] # "failed" /\ conn = "open"
          /\ \E i \in 1..Len(handed) : handed[i] = d
      BY <2>1 DEF Reasons, EachInOnePlace, ClosedForAReason
    <3> QED
      BY <1>1, <2>1, <3>1
  <2> QED
    BY <2>1, <2>2 DEF Reasons, EachInOnePlace
<1>4. SentIsConnected'
  <2>1. \A d : Connected(d)' => Connected(d)
    BY DEF Connected
  <2>2. \A d : Connected(d) /\ answer[d] = None => Connected(d)'
    BY DEF Connected
  <2> QED
    BY <1>1, <2>1, <2>2 DEF Reasons, SentIsConnected
<1> QED
  BY <1>2, <1>3, <1>4 DEF Reasons

\* An exchange ends whose caller is answered or gone.
LEMMA ExchangeEnds ==
  ASSUME IInv, Reasons, IsH2' = IsH2, NEW c \in Callers, exchange' = exchange \ {c},
         pc[c] # "inflight" \/ answer[c] # None,
         UNCHANGED << pc, answer, channel, conn, broken, handed >>
  PROVE  Reasons'
<1>1. ClosedForAReason'
  <2>1. \A d \in Callers : GivenUp(d) => GivenUp(d)'
    BY DEF GivenUp
  <2> QED
    BY <2>1 DEF Reasons, ClosedForAReason, Culprit
<1>2. EachInOnePlace'
  BY DEF Reasons, EachInOnePlace
<1>3. SentIsConnected'
  <2>1. \A d : Connected(d)' => Connected(d)
    BY DEF Connected
  <2>2. \A d : Connected(d) /\ d # c => Connected(d)'
    BY DEF Connected
  <2> QED
    BY <2>1, <2>2 DEF Reasons, SentIsConnected
<1> QED
  BY <1>1, <1>2, <1>3 DEF Reasons

\* The connection takes the request at the head of its channel, or skips it when
\* its caller is gone.
LEMMA HeadTaken ==
  ASSUME IInv, Reasons, IsH2' = IsH2, channel # << >>, channel' = Tail(channel),
         \/ exchange' = exchange \cup {Head(channel)}
         \/ exchange' = exchange /\ pc[Head(channel)] = "cancelled",
         conn = "open", UNCHANGED << pc, answer, conn, broken, handed >>
  PROVE  Reasons'
<1>1. /\ Head(channel) = channel[1] /\ 1 \in 1..Len(channel) /\ Head(channel) \in Callers
      /\ Len(channel') = Len(channel) - 1 /\ Len(channel) \in Nat
      /\ \A i \in 1..Len(channel') :
           i + 1 \in 1..Len(channel) /\ channel'[i] = channel[i + 1]
  BY TakeEffect, LenProperties DEF IInv, TypeOK
<1>2. ClosedForAReason'
  BY DEF Reasons, ClosedForAReason
<1>3. /\ \A d \in exchange :
           /\ answer[d] # Error /\ pc[d] # "failed"
           /\ \E i \in 1..Len(handed) : handed[i] = d
      /\ \A i \in 1..Len(channel) :
           /\ channel[i] \notin exchange
           /\ answer[channel[i]] = None
           /\ \E j \in 1..Len(handed) : handed[j] = channel[i]
      /\ \A i, j \in 1..Len(channel) : channel[i] = channel[j] => i = j
  BY DEF Reasons, EachInOnePlace
<1>4. \A i \in 1..Len(channel') : channel'[i] # Head(channel)
  BY <1>1, <1>3
<1>5. EachInOnePlace'
  <2>0. pc[Head(channel)] # "failed" /\ answer[Head(channel)] # Error
    BY <1>1, <1>3, HyperAssumption DEF Reasons, SentIsConnected, Connected
  <2>1. \A d \in exchange' :
          /\ answer[d] # Error /\ pc[d] # "failed"
          /\ \E i \in 1..Len(handed) : handed[i] = d
    <3> SUFFICES ASSUME NEW d \in exchange'
                 PROVE  /\ answer[d] # Error /\ pc[d] # "failed"
                        /\ \E i \in 1..Len(handed) : handed[i] = d
      OBVIOUS
    <3>1. CASE d \in exchange
      BY <1>3, <3>1
    <3>2. CASE d \notin exchange
      <4>1. d = Head(channel)
        BY <3>2
      <4> QED
        BY <1>1, <1>3, <2>0, <4>1
    <3> QED
      BY <3>1, <3>2
  <2>2. ASSUME NEW i \in 1..Len(channel')
        PROVE  /\ channel'[i] \notin exchange' /\ answer[channel'[i]] = None
               /\ \E j \in 1..Len(handed) : handed[j] = channel'[i]
    BY <1>1, <1>3, <1>4
  <2>3. \A i, j \in 1..Len(channel') : channel'[i] = channel'[j] => i = j
    BY <1>1, <1>3
  <2> QED
    BY <2>1, <2>2, <2>3 DEF EachInOnePlace
<1>6. SentIsConnected'
  <2>1. \A d : Connected(d)' => Connected(d)
    BY <1>1 DEF Connected
  <2>2. ASSUME NEW d, Connected(d), d # Head(channel)
        PROVE  Connected(d)'
    <3>1. CASE d \in exchange
      BY <3>1 DEF Connected
    <3>2. CASE d \notin exchange
      <4>1. PICK i \in 1..Len(channel) : channel[i] = d
        BY <2>2, <3>2 DEF Connected
      <4>2. i - 1 \in 1..Len(channel') /\ (i - 1) + 1 = i
        BY <1>1, <2>2, <4>1
      <4>3. channel'[i - 1] = d
        BY <1>1, <4>1, <4>2
      <4> QED
        BY <4>2, <4>3 DEF Connected
    <3> QED
      BY <3>1, <3>2
  <2>3. ASSUME NEW d, d = Head(channel), pc[d] # "cancelled"
        PROVE  Connected(d)'
    BY <2>3 DEF Connected
  <2> QED
    BY <2>1, <2>2, <2>3 DEF Reasons, SentIsConnected
<1> QED
  BY <1>2, <1>5, <1>6 DEF Reasons

\* A stream ends alone, and its caller learns it, if it has no response yet.
LEMMA StreamEnds ==
  ASSUME IInv, Reasons, IsH2' = IsH2, IsH2, NEW c \in Callers, c \in exchange,
         LoseStream(c)
  PROVE  Reasons'
<1>1. /\ exchange' = exchange \ {c} /\ UNCHANGED << pc, channel, conn, handed >>
      /\ broken' = IF answer[c] = None THEN broken \cup {c} ELSE broken
      /\ \A d \in Callers :
           answer'[d] = IF d = c /\ answer[d] = None THEN Error ELSE answer[d]
  BY DEF LoseStream, callerVars, IInv, TypeOK
<1>2. ClosedForAReason'
  BY <1>1 DEF Reasons, ClosedForAReason
<1>3. \A i \in 1..Len(channel) : channel[i] \in Callers /\ channel[i] # c
  BY InConnection DEF IInv, Reasons, EachInOnePlace, Connected
<1>4. exchange \subseteq Callers
  BY DEF IInv, TypeOK
<1>5. EachInOnePlace'
  <2>1. ASSUME NEW d \in exchange'
        PROVE  /\ answer'[d] # Error /\ pc'[d] # "failed"
               /\ \E i \in 1..Len(handed') : handed'[i] = d
    BY <1>1, <1>4 DEF Reasons, EachInOnePlace
  <2>2. ASSUME NEW i \in 1..Len(channel')
        PROVE  /\ channel'[i] \notin exchange' /\ answer'[channel'[i]] = None
               /\ \E j \in 1..Len(handed') : handed'[j] = channel'[i]
    BY <1>1, <1>3 DEF Reasons, EachInOnePlace
  <2> QED
    BY <1>1, <2>1, <2>2 DEF Reasons, EachInOnePlace
<1>6. SentIsConnected'
  <2>1. \A d : Connected(d)' => Connected(d)
    BY <1>1 DEF Connected
  <2>2. \A d : Connected(d) /\ d # c => Connected(d)'
    BY <1>1 DEF Connected
  <2>3. answer'[c] # None
    BY <1>1, HyperAssumption
  <2> QED
    BY <1>1, <2>1, <2>2, <2>3 DEF Reasons, SentIsConnected
<1> QED
  BY <1>2, <1>5, <1>6 DEF Reasons

\* The reasons hold in every step.
LEMMA ReasonsStep ==
  IInv /\ Reasons /\ [Next]_vars => Reasons'
<1> SUFFICES ASSUME IInv, Reasons, [Next]_vars
             PROVE  Reasons'
  OBVIOUS
<1>1. /\ TypeOK /\ NothingBeforeSend /\ OwnResponse /\ OneAtATime /\ IsH2' = IsH2
      /\ ClosedForAReason /\ EachInOnePlace /\ SentIsConnected
      /\ pc = [d \in Callers |-> pc[d]]
  BY ProtocolKept DEF IInv, Reasons, TypeOK
<1>2. \A c \in Callers :
        /\ pc[c] \in {"new", "queued", "readying"} => answer[c] = None /\ ~Connected(c)
        /\ pc[c] = "reading" => answer[c] # None
  BY <1>1 DEF NothingBeforeSend, Connected
<1>3. ASSUME NEW c \in Callers, Ask(c) \/ Locked(c) \/ NotReady(c) \/ Return(c)
                                 \/ Cancel(c) \/ BodyStep(c)
      PROVE  Reasons'
  <2>1. CASE Ask(c) \/ Locked(c) \/ NotReady(c)
    BY <1>1, <1>2, <2>1, MovingOn DEF Ask, Locked, NotReady, connVars
  <2>2. CASE Return(c)
    BY <1>1, <2>2, MovingOn DEF Return, connVars, ClosedForAReason
  <2>3. CASE Cancel(c)
    BY <1>1, <2>3, MovingOn DEF Cancel, connVars, Calling
  <2>4. CASE BodyStep(c)
    BY <1>1, <1>2, <2>4, MovingOn DEF BodyStep, ReadBody, DropBody, connVars
  <2> QED
    BY <1>3, <2>1, <2>2, <2>3, <2>4
<1>4. ASSUME NEW c \in Callers, Send(c)
      PROVE  Reasons'
  <2>1. /\ pc[c] = "readying" /\ pc' = [pc EXCEPT ![c] = "inflight"] /\ conn = "open"
        /\ channel' = Append(channel, c) /\ handed' = Append(handed, c)
        /\ UNCHANGED << answer, exchange, conn, broken >>
    BY <1>4 DEF Send, Ready, Goto
  <2>2. /\ channel \in Seq(Callers) /\ handed \in Seq(Callers)
        /\ Len(channel) \in Nat /\ Len(handed) \in Nat
    BY <1>1, LenProperties DEF TypeOK
  <2>3. /\ Len(channel') = Len(channel) + 1 /\ Len(handed') = Len(handed) + 1
        /\ \A i \in 1..Len(channel) : channel'[i] = channel[i]
        /\ \A i \in 1..Len(handed) : handed'[i] = handed[i]
        /\ channel'[Len(channel) + 1] = c /\ handed'[Len(handed) + 1] = c
    BY <2>1, <2>2, LastIsLater
  <2>4. /\ \A d \in Callers : pc'[d] = IF d = c THEN "inflight" ELSE pc[d]
        /\ answer[c] = None /\ c \notin exchange
        /\ \A i \in 1..Len(channel) : channel[i] # c
    BY <1>1, <2>1 DEF NothingBeforeSend
  <2>5. ClosedForAReason'
    BY <1>1, <2>1, <2>4 DEF ClosedForAReason
  <2>6. /\ \A i \in 1..Len(channel') : i \in 1..Len(channel) \/ i = Len(channel) + 1
        /\ 1..Len(channel) \subseteq 1..Len(channel') /\ Len(channel) + 1 \in 1..Len(channel')
        /\ 1..Len(handed) \subseteq 1..Len(handed') /\ Len(handed) + 1 \in 1..Len(handed')
    BY <2>2, <2>3
  <2>7. EachInOnePlace'
    <3>1. \A d : (\E i \in 1..Len(handed) : handed[i] = d)
                   => \E i \in 1..Len(handed') : handed'[i] = d
      BY <2>3, <2>6
    <3>2. \E i \in 1..Len(handed') : handed'[i] = c
      BY <2>3, <2>6
    <3>3. \A d \in exchange' :
            /\ answer'[d] # Error /\ pc'[d] # "failed"
            /\ \E i \in 1..Len(handed') : handed'[i] = d
      <4>1. exchange \subseteq Callers
        BY <1>1 DEF TypeOK
      <4> QED
        BY <1>1, <2>1, <2>4, <3>1, <4>1 DEF EachInOnePlace
    <3>4. ASSUME NEW i \in 1..Len(channel')
          PROVE  /\ channel'[i] \notin exchange' /\ answer'[channel'[i]] = None
                 /\ \E j \in 1..Len(handed') : handed'[j] = channel'[i]
      <4>1. CASE i \in 1..Len(channel)
        BY <1>1, <2>1, <2>3, <3>1, <4>1 DEF EachInOnePlace
      <4>2. CASE i = Len(channel) + 1
        BY <2>1, <2>3, <2>4, <3>2, <4>2
      <4> QED
        BY <2>6, <4>1, <4>2
    <3>5. ASSUME NEW i \in 1..Len(channel'), NEW j \in 1..Len(channel'),
                 channel'[i] = channel'[j]
          PROVE  i = j
      <4>1. /\ i \in 1..Len(channel) \/ i = Len(channel) + 1
            /\ j \in 1..Len(channel) \/ j = Len(channel) + 1
        BY <2>6
      <4>2. CASE i \in 1..Len(channel) /\ j \in 1..Len(channel)
        <5>1. channel[i] = channel[j]
          BY <2>3, <3>5, <4>2
        <5> QED
          BY <1>1, <4>2, <5>1 DEF EachInOnePlace
      <4>3. CASE i \in 1..Len(channel) /\ j = Len(channel) + 1
        <5>1. channel[i] = c /\ channel[i] # c
          BY <2>3, <2>4, <3>5, <4>3
        <5> QED
          BY <5>1
      <4>4. CASE j \in 1..Len(channel) /\ i = Len(channel) + 1
        <5>1. channel[j] = c /\ channel[j] # c
          BY <2>3, <2>4, <3>5, <4>4
        <5> QED
          BY <5>1
      <4> QED
        BY <4>1, <4>2, <4>3, <4>4
    <3> QED
      BY <3>3, <3>4, <3>5 DEF EachInOnePlace
  <2>8. SentIsConnected'
    <3>1. Connected(c)'
      BY <2>3, <2>6 DEF Connected
    <3>2. ASSUME NEW d \in Callers, d # c
          PROVE  Connected(d)' <=> Connected(d)
      BY <2>1, <2>3, <2>6, <3>2 DEF Connected
    <3> QED
      BY <1>1, <2>1, <2>4, <3>1, <3>2 DEF SentIsConnected
  <2> QED
    BY <2>5, <2>7, <2>8 DEF Reasons
<1>5. ASSUME UNCHANGED << pc, answer, channel, exchange, conn, broken, handed >>
      PROVE  Reasons'
  BY <1>1, <1>5 DEF Reasons, ClosedForAReason, EachInOnePlace, SentIsConnected, Culprit,
                    GivenUp, Connected
<1>6. CASE Take
  BY <1>1, <1>6, HeadTaken DEF Take, callerVars
\* Whoever the connection has and is gone is a reason to close.
<1>7. ASSUME NEW c \in Callers, Connected(c), pc[c] \in {"cancelled", "dropped"}
      PROVE  GivenUp(c)
  BY <1>1, <1>7, InConnection DEF EachInOnePlace, Connected, GivenUp
<1>8. CASE TakeCancelled
  <2>1. CASE IsH2
    BY <1>1, <1>8, <2>1, HeadTaken DEF TakeCancelled, callerVars
  <2>2. CASE ~IsH2
    <3>1. Head(channel) \in Callers /\ Connected(Head(channel))
      BY <1>1, <1>8, TakeEffect DEF TakeCancelled, TypeOK, Connected
    <3> QED
      BY <1>1, <1>7, <1>8, <2>2, <3>1, ClosingStep DEF TakeCancelled
  <2> QED
    BY <2>1, <2>2
<1>9. ASSUME NEW c \in Callers, Abandoned(c) \/ Drained(c)
      PROVE  Reasons'
  <2>1. /\ c \in exchange /\ pc[c] \in {"cancelled", "dropped"}
        /\ \/ ~IsH2 /\ Close("closed")
           \/ /\ exchange' = exchange \ {c}
              /\ UNCHANGED << pc, answer, channel, conn, handed >>
        /\ broken' = broken
    BY <1>9 DEF Abandoned, Drained, Forget, callerVars
  <2>2. GivenUp(c)
    BY <1>7, <2>1 DEF Connected
  <2> QED
    BY <1>1, <2>1, <2>2, ClosingStep, ExchangeEnds
<1>10. CASE ServerCloses
  BY <1>1, <1>10, ClosingStep DEF ServerCloses
<1>11. ASSUME NEW c \in Callers, NEW asker \in Callers, NEW hasBody \in BOOLEAN,
              Answer(c, asker, hasBody)
       PROVE  Reasons'
  <2>1. /\ conn = "open" /\ asker \in exchange /\ answer' = [answer EXCEPT ![asker] = c]
        /\ exchange' \in {exchange, exchange \ {asker}}
        /\ UNCHANGED << pc, channel, conn, broken, handed >>
    BY <1>11 DEF Answer, callerVars
  <2>2. /\ \A d \in Callers : answer'[d] = IF d = asker THEN c ELSE answer[d]
        /\ c # None /\ c # Error
    BY <1>1, <2>1, HyperAssumption DEF TypeOK
  <2>3. ClosedForAReason'
    <3>1. \A d \in Callers : GivenUp(d) => GivenUp(d)'
      BY <2>1 DEF GivenUp
    <3> QED
      BY <1>1, <2>1, <2>2, <3>1 DEF ClosedForAReason, Culprit
  <2>4. EachInOnePlace'
    <3>1. \A i \in 1..Len(channel) : channel[i] \in Callers /\ channel[i] # asker
      BY <1>1, <2>1, InConnection DEF EachInOnePlace, Connected
    <3>2. exchange \subseteq Callers
      BY <1>1 DEF TypeOK
    <3> QED
      BY <1>1, <2>1, <2>2, <3>1, <3>2 DEF EachInOnePlace
  <2>5. SentIsConnected'
    <3>1. \A d : Connected(d)' => Connected(d)
      BY <2>1 DEF Connected
    <3>2. \A d : Connected(d) /\ d # asker => Connected(d)'
      BY <2>1 DEF Connected
    <3> QED
      BY <1>1, <2>1, <2>2, <3>1, <3>2 DEF SentIsConnected
  <2> QED
    BY <2>3, <2>4, <2>5 DEF Reasons
<1>12. ASSUME Want \/ UNCHANGED vars
       PROVE  Reasons'
  BY <1>5, <1>12 DEF Want, vars, callerVars
<1>13. ASSUME NEW c \in Callers, BodyFails(c) \/ StreamReset(c)
       PROVE  Reasons'
  <2>1. CASE IsH2
    BY <1>1, <1>13, <2>1, StreamEnds DEF BodyFails, StreamReset
  <2>2. CASE ~IsH2
    BY <1>1, <1>13, <2>2, ClosingStep DEF BodyFails, StreamReset
  <2> QED
    BY <2>1, <2>2
<1> QED
  BY <1>3, <1>4, <1>6, <1>8, <1>9, <1>10, <1>11, <1>12, <1>13
     DEF Next, CallerStep, ConnStep, Mishap

\* The elements of a sequence that grows at its end, or is empty.
LEMMA ToSetOfAppend ==
  ASSUME NEW S, NEW s \in Seq(S), NEW d \in S
  PROVE  ToSet(Append(s, d)) = ToSet(s) \cup {d}
<1> DEFINE t == Append(s, d)
<1>1. /\ t \in Seq(S) /\ Len(s) \in Nat /\ Len(t) = Len(s) + 1
      /\ DOMAIN s = 1..Len(s) /\ DOMAIN t = 1..Len(t)
      /\ \A i \in 1..Len(s) : t[i] = s[i]
      /\ t[Len(s) + 1] = d
  BY LastIsLater, LenProperties
<1> HIDE DEF t
<1>2. \A i \in 1..Len(t) : i \in 1..Len(s) \/ i = Len(s) + 1
  BY <1>1
<1>3. 1..Len(s) \subseteq 1..Len(t) /\ Len(s) + 1 \in 1..Len(t)
  BY <1>1
<1>4. ToSet(t) = ToSet(s) \cup {d}
  BY <1>1, <1>2, <1>3 DEF ToSet
<1> QED
  BY <1>4 DEF t

LEMMA ToSetOfEmpty == ToSet(<< >>) = {}
  BY DEF ToSet

LEMMA InToSet ==
  ASSUME NEW s, DOMAIN s = 1..Len(s)
  PROVE  \A x : x \in ToSet(s) <=> \E i \in 1..Len(s) : s[i] = x
  BY DEF ToSet

\* Taking the head of a sequence takes one element, if there is but one such.
LEMMA ToSetOfTail ==
  ASSUME NEW S, NEW s \in Seq(S), s # << >>,
         \A i, j \in 1..Len(s) : s[i] = s[j] => i = j
  PROVE  ToSet(Tail(s)) = ToSet(s) \ {Head(s)} /\ Head(s) \in ToSet(s)
<1> DEFINE t == Tail(s)
<1>1. /\ t \in Seq(S) /\ Len(s) \in Nat /\ Len(t) = Len(s) - 1
      /\ DOMAIN s = 1..Len(s) /\ DOMAIN t = 1..Len(t)
      /\ Head(s) = s[1] /\ 1 \in 1..Len(s)
      /\ \A i \in 1..Len(t) : i + 1 \in 1..Len(s) /\ t[i] = s[i + 1]
  BY TakeEffect, LenProperties
<1> HIDE DEF t
<1>2. /\ \A x : x \in ToSet(s) <=> \E i \in 1..Len(s) : s[i] = x
      /\ \A x : x \in ToSet(t) <=> \E i \in 1..Len(t) : t[i] = x
  BY <1>1, InToSet
<1>3. ASSUME NEW i \in 1..Len(s), i # 1
      PROVE  s[i] \in ToSet(t)
  <2>1. i - 1 \in 1..Len(t) /\ (i - 1) + 1 = i
    BY <1>1, <1>3
  <2>2. t[i - 1] = s[i]
    BY <1>1, <2>1
  <2> QED
    BY <1>2, <2>1, <2>2
<1>4. ASSUME NEW i \in 1..Len(t)
      PROVE  t[i] \in ToSet(s) /\ t[i] # Head(s)
  <2>1. i + 1 \in 1..Len(s) /\ t[i] = s[i + 1] /\ i + 1 # 1
    BY <1>1
  <2>2. s[i + 1] # s[1]
    BY <1>1, <2>1
  <2> QED
    BY <1>1, <1>2, <2>1, <2>2
<1>5. Head(s) \in ToSet(s)
  BY <1>1, <1>2
<1>6. ASSUME NEW x
      PROVE  x \in ToSet(t) <=> x \in ToSet(s) /\ x # Head(s)
  <2>1. ASSUME x \in ToSet(t) PROVE x \in ToSet(s) /\ x # Head(s)
    BY <1>2, <1>4, <2>1
  <2>2. ASSUME x \in ToSet(s), x # Head(s) PROVE x \in ToSet(t)
    BY <1>1, <1>2, <1>3, <2>2
  <2> QED
    BY <2>1, <2>2
<1>7. ToSet(t) = ToSet(s) \ {Head(s)}
  BY <1>6
<1> QED
  BY <1>5, <1>7 DEF t

-----------------------------------------------------------------------------
(***************************************************************************)
(* The refinement.                                                         *)
(***************************************************************************)

PhaseMap == [c \in Callers |-> Phase(c)]
Busy     == ToSet(channel) \cup exchange

\* What OneSession sees of a caller's step.
LEMMA PhaseMoves ==
  ASSUME TypeOK, NEW c \in Callers, NEW place, Goto(c, place), UNCHANGED answer,
         NEW to, Phase(c)' = to
  PROVE  PhaseMap' = [PhaseMap EXCEPT ![c] = to]
<1>1. \A d \in Callers : d # c => pc'[d] = pc[d]
  BY DEF Goto, TypeOK
<1>2. \A d \in Callers : Phase(d)' = IF d = c THEN to ELSE Phase(d)
  BY <1>1 DEF Phase
<1> QED
  BY <1>2 DEF PhaseMap

\* Every step of a caller is one of OneSession, or none.
LEMMA CallerKeepsPromise ==
  ASSUME IInv, Reasons, IsH2' = IsH2, NEW c \in Callers,
         CallerStep(c) \/ BodyStep(c) \/ Cancel(c)
  PROVE  [Promise!SessionNext]_(Promise!sessionVars)
<1>1. /\ TypeOK /\ NothingBeforeSend /\ OwnResponse /\ OneAtATime
      /\ ClosedForAReason /\ EachInOnePlace /\ SentIsConnected
      /\ PhaseMap[c] = Phase(c)
  BY DEF IInv, Reasons, PhaseMap
<1>2. \A place : Goto(c, place) => pc'[c] = place
  BY <1>1 DEF Goto, TypeOK
<1>3. /\ answer[c] \in {c, None, Error} /\ None # Error /\ c # None /\ c # Error
      /\ pc[c] \in {"new", "queued", "readying"} => answer[c] = None
      /\ pc[c] = "reading" => answer[c] # None
  BY <1>1, HyperAssumption DEF OwnResponse, NothingBeforeSend
<1>4. UNCHANGED connVars => Busy' = Busy /\ UNCHANGED << conn, answer >>
  BY DEF connVars, Busy
<1>5. CASE Ask(c)
  <2>1. Phase(c) = "new" /\ Phase(c)' = "waiting"
    BY <1>2, <1>5 DEF Ask, Phase
  <2>2. PhaseMap' = [PhaseMap EXCEPT ![c] = "waiting"]
    BY <1>1, <1>5, <2>1, PhaseMoves DEF Ask, connVars
  <2>3. conn # "none"
    BY <1>1 DEF TypeOK
  <2>4. Promise!Move(c, {"new"}, "waiting")
    BY <1>1, <2>1, <2>2 DEF Promise!Move, PhaseMap
  <2>5. Promise!Ask(c)
    BY <1>4, <1>5, <2>3, <2>4 DEF Ask, Promise!Ask, Busy
  <2> QED
    BY <2>5 DEF Promise!SessionNext
<1>6. CASE Locked(c)
  <2>1. Phase(c) = "waiting" /\ Phase(c)' = "waiting"
    BY <1>2, <1>6 DEF Locked, Phase
  <2>2. PhaseMap' = [PhaseMap EXCEPT ![c] = "waiting"]
    BY <1>1, <1>6, <2>1, PhaseMoves DEF Locked, connVars
  <2>3. PhaseMap' = PhaseMap
    BY <1>1, <2>1, <2>2 DEF PhaseMap
  <2> QED
    BY <1>4, <1>6, <2>3 DEF Locked, PhaseMap, Busy, Promise!sessionVars
<1>7. CASE Send(c)
  <2>1. /\ pc[c] = "readying" /\ Goto(c, "inflight") /\ conn = "open"
        /\ channel' = Append(channel, c) /\ (IsH2 \/ wanted)
        /\ UNCHANGED << answer, exchange, conn >>
    BY <1>7 DEF Send, Ready
  <2>2. Phase(c) = "waiting" /\ Phase(c)' = "sent"
    BY <1>2, <1>3, <2>1 DEF Phase
  <2>3. PhaseMap' = [PhaseMap EXCEPT ![c] = "sent"]
    BY <1>1, <2>1, <2>2, PhaseMoves
  <2>4. ToSet(channel') = ToSet(channel) \cup {c}
    BY <1>1, <2>1, ToSetOfAppend DEF TypeOK
  <2>5. ~IsH2 => Busy = {}
    BY <1>1, <2>1, ToSetOfEmpty DEF OneAtATime, Busy
  <2>6. Promise!Move(c, {"waiting"}, "sent")
    BY <1>1, <2>2, <2>3 DEF Promise!Move, PhaseMap
  <2>7. Promise!Send(c)
    BY <2>1, <2>4, <2>5, <2>6 DEF Promise!Send, Busy
  <2> QED
    BY <2>7 DEF Promise!SessionNext
<1>8. CASE NotReady(c)
  <2>1. Phase(c) = "waiting" /\ Phase(c)' = "failed"
    BY <1>2, <1>8 DEF NotReady, Phase
  <2>2. PhaseMap' = [PhaseMap EXCEPT ![c] = "failed"]
    BY <1>1, <1>8, <2>1, PhaseMoves DEF NotReady, connVars
  <2>3. conn \in {"closed", "refused"}
    BY <1>1, <1>8 DEF NotReady, TypeOK
  <2>4. Promise!Move(c, {"waiting"}, "failed")
    BY <1>1, <2>1, <2>2 DEF Promise!Move, PhaseMap
  <2>5. Promise!Refuse(c)
    BY <1>4, <1>8, <2>3, <2>4 DEF NotReady, Promise!Refuse, Busy
  <2> QED
    BY <2>5 DEF Promise!SessionNext
<1>9. CASE Return(c)
  <2>1. Phase(c)' = Phase(c)
    BY <1>2, <1>3, <1>9 DEF Return, Phase, connVars
  <2>2. PhaseMap' = [PhaseMap EXCEPT ![c] = Phase(c)]
    BY <1>1, <1>9, <2>1, PhaseMoves DEF Return, connVars
  <2>3. PhaseMap' = PhaseMap
    BY <1>1, <2>2 DEF PhaseMap
  <2> QED
    BY <1>4, <1>9, <2>3 DEF Return, PhaseMap, Busy, Promise!sessionVars
\* A response that is there already is dropped with the future.
<1>10. CASE Cancel(c)
  <2>1. CASE answer[c] = c
    <3>1. Phase(c) = "answered" /\ Phase(c)' = "over"
      BY <1>2, <1>3, <1>10, <2>1 DEF Cancel, Phase, connVars, Calling
    <3>2. PhaseMap' = [PhaseMap EXCEPT ![c] = "over"]
      BY <1>1, <1>10, <3>1, PhaseMoves DEF Cancel, connVars
    <3>3. Promise!Move(c, {"answered"}, "over")
      BY <1>1, <3>1, <3>2 DEF Promise!Move, PhaseMap
    <3>4. Promise!EndResponse(c)
      BY <1>4, <1>10, <3>3 DEF Cancel, Promise!EndResponse, Busy
    <3> QED
      BY <3>4 DEF Promise!SessionNext
  <2>2. CASE answer[c] # c
    <3>1. Phase(c) \in {"waiting", "sent", "failed"} /\ Phase(c)' = "cancelled"
      BY <1>2, <1>3, <1>10, <2>2 DEF Cancel, Phase, connVars, Calling
    <3>2. PhaseMap' = [PhaseMap EXCEPT ![c] = "cancelled"]
      BY <1>1, <1>10, <3>1, PhaseMoves DEF Cancel, connVars
    <3>3. Promise!Move(c, {"waiting", "sent", "failed"}, "cancelled")
      BY <1>1, <3>1, <3>2 DEF Promise!Move, PhaseMap
    <3>4. Promise!GiveUp(c)
      BY <1>4, <1>10, <3>3 DEF Cancel, Promise!GiveUp, Busy
    <3> QED
      BY <3>4 DEF Promise!SessionNext
  <2> QED
    BY <2>1, <2>2
<1>11. CASE BodyStep(c)
  <2>1. /\ pc[c] = "reading" /\ \E place \in {"done", "dropped"} : Goto(c, place)
        /\ exchange' \in {exchange, exchange \ {c}}
        /\ UNCHANGED << answer, channel, conn >>
    BY <1>11 DEF BodyStep, ReadBody, DropBody, connVars
  <2>2. Phase(c) = "answered" /\ Phase(c)' = "over"
    BY <1>2, <1>3, <2>1 DEF Phase
  <2>3. PhaseMap' = [PhaseMap EXCEPT ![c] = "over"]
    BY <1>1, <2>1, <2>2, PhaseMoves
  \* It has left the channel, having been answered.
  <2>4. c \notin ToSet(channel)
    <3>1. DOMAIN channel = 1..Len(channel)
      BY <1>1, LenProperties DEF TypeOK
    <3> QED
      BY <1>1, <1>3, <2>1, <3>1 DEF EachInOnePlace, ToSet
  <2>5. Busy' \in {Busy, Busy \ {c}}
    BY <2>1, <2>4 DEF Busy
  <2>6. Promise!Move(c, {"answered"}, "over")
    BY <1>1, <2>2, <2>3 DEF Promise!Move, PhaseMap
  <2>7. Promise!EndResponse(c)
    BY <2>1, <2>5, <2>6 DEF Promise!EndResponse, Busy
  <2> QED
    BY <2>7 DEF Promise!SessionNext
<1> QED
  BY <1>5, <1>6, <1>7, <1>8, <1>9, <1>10, <1>11 DEF CallerStep

\* A connection that may close does so as OneSession has it.
LEMMA ClosingKeepsPromise ==
  ASSUME IInv, Reasons, IsH2' = IsH2, NEW how \in {"closed", "refused"}, Close(how),
         conn = "open",
         how = "closed" =>
           ~IsH2 /\ \E c \in Callers :
                      /\ Connected(c)
                      /\ Phase(c) \in {"over", "cancelled"} \/ c \in Faulty
  PROVE  Promise!Close(how)
<1>1. /\ TypeOK /\ SentIsConnected /\ OwnResponse /\ NothingBeforeSend
  BY DEF IInv, Reasons
<1>2. /\ conn' = how /\ UNCHANGED pc
      /\ \A c \in Callers : answer'[c] = IF answer[c] = None /\ Connected(c)
                                         THEN Error ELSE answer[c]
      /\ Busy' = {}
  BY <1>1, InConnection, ToSetOfEmpty DEF Close, callerVars, Busy
<1>3. ASSUME NEW c \in Callers
      PROVE  Phase(c)' = IF Phase(c) = "sent" THEN "failed" ELSE Phase(c)
  <2>1. None # Error /\ c # None /\ c # Error
    BY HyperAssumption
  <2>2. CASE answer[c] = None /\ Connected(c)
    <3>1. pc[c] \in {"inflight", "cancelled"} /\ answer'[c] = Error /\ pc'[c] = pc[c]
      BY <1>1, <1>2, <2>2 DEF SentIsConnected
    <3> QED
      BY <2>1, <2>2, <3>1 DEF Phase
  <2>3. CASE ~(answer[c] = None /\ Connected(c))
    <3>1. answer'[c] = answer[c] /\ pc'[c] = pc[c]
      BY <1>2, <2>3
    <3>2. ~(pc[c] = "inflight" /\ answer[c] = None)
      BY <1>1, <2>3 DEF SentIsConnected
    <3>3. pc[c] # "sent"
      BY <1>1 DEF TypeOK, Calling
    <3>4. Phase(c) # "sent"
      BY <3>2, <3>3 DEF Phase
    <3> QED
      BY <3>1, <3>4 DEF Phase
  <2> QED
    BY <2>2, <2>3
<1>4. PhaseMap' = [c \in Callers |-> IF PhaseMap[c] = "sent" THEN "failed" ELSE PhaseMap[c]]
  BY <1>3 DEF PhaseMap
<1>5. how = "closed" =>
        ~IsH2 /\ \E c \in Busy : PhaseMap[c] \in {"over", "cancelled"} \/ c \in Faulty
  BY <1>1, InConnection DEF Busy, PhaseMap
<1> QED
  BY <1>2, <1>4, <1>5 DEF Promise!Close, Promise!Unfinishable, PhaseMap, Busy

\* A request that the connection goes on without is one whose caller is gone.
LEMMA DiscardingKeepsPromise ==
  ASSUME IInv, Reasons, IsH2' = IsH2, NEW c \in Callers, Connected(c),
         UNCHANGED << pc, answer, conn >>, Busy' = Busy \ {c},
         Phase(c) = "over" \/ (Phase(c) = "cancelled" /\ IsH2)
  PROVE  Promise!Discard(c)
<1>1. PhaseMap' = PhaseMap
  BY DEF PhaseMap, Phase
<1>2. c \in Busy /\ PhaseMap[c] = Phase(c)
  BY InConnection DEF IInv, Busy, PhaseMap
<1> QED
  BY <1>1, <1>2 DEF Promise!Discard, Promise!Discardable, PhaseMap, Busy

\* A stream that ends alone is a request that fails alone, or a response that ends
\* early, or an exchange whose caller is gone already.
LEMMA StreamEndKeepsPromise ==
  ASSUME IInv, Reasons, IsH2' = IsH2, IsH2, NEW c \in Callers, c \in exchange,
         LoseStream(c)
  PROVE  Promise!FailAlone(c) \/ Promise!Discard(c)
<1>1. /\ exchange' = exchange \ {c} /\ UNCHANGED << pc, channel, conn >>
      /\ \A d \in Callers :
           answer'[d] = IF d = c /\ answer[d] = None THEN Error ELSE answer[d]
  BY DEF LoseStream, callerVars, IInv, TypeOK
<1>2. /\ conn = "open" /\ Connected(c)
      /\ answer[c] \in {c, None} /\ pc[c] # "failed"
      /\ None # Error /\ c # None /\ c # Error
  BY HyperAssumption
     DEF IInv, OwnResponse, Reasons, ClosedForAReason, EachInOnePlace, Connected
<1>3. c \notin ToSet(channel)
  <2>1. DOMAIN channel = 1..Len(channel)
    BY LenProperties DEF IInv, TypeOK
  <2> QED
    BY <2>1 DEF Reasons, EachInOnePlace, ToSet
<1>4. Busy' = Busy \ {c} /\ c \in Busy /\ PhaseMap[c] = Phase(c)
  BY <1>1, <1>3 DEF Busy, PhaseMap
<1>5. \A d \in Callers : d # c => Phase(d)' = Phase(d)
  BY <1>1 DEF Phase
<1>6. CASE answer[c] = None /\ pc[c] = "inflight"
  <2>1. Phase(c) = "sent" /\ Phase(c)' = "failed"
    BY <1>1, <1>2, <1>6 DEF Phase
  <2>2. PhaseMap' = [PhaseMap EXCEPT ![c] = "failed"]
    BY <1>5, <2>1 DEF PhaseMap
  <2> QED
    BY <1>1, <1>2, <1>4, <2>1, <2>2 DEF Promise!FailAlone, PhaseMap, Busy
<1>7. ASSUME Phase(c)' = Phase(c), Phase(c) = "answered"
      PROVE  Promise!FailAlone(c)
  <2>1. PhaseMap' = [PhaseMap EXCEPT ![c] = PhaseMap[c]]
    BY <1>4, <1>5, <1>7 DEF PhaseMap
  <2> QED
    BY <1>1, <1>2, <1>4, <1>7, <2>1 DEF Promise!FailAlone, PhaseMap, Busy
<1>8. ASSUME Phase(c)' = Phase(c), Phase(c) \in {"over", "cancelled"}
      PROVE  Promise!Discard(c)
  <2>1. PhaseMap' = PhaseMap
    BY <1>4, <1>5, <1>8 DEF PhaseMap
  <2> QED
    BY <1>1, <1>4, <1>8, <2>1 DEF Promise!Discard, Promise!Discardable, PhaseMap, Busy
<1>9. CASE answer[c] = None /\ pc[c] = "cancelled"
  BY <1>1, <1>2, <1>8, <1>9 DEF Phase
<1>10. CASE answer[c] = c
  <2>1. pc[c] \in {"inflight", "reading", "done", "dropped", "cancelled"}
    BY <1>2, <1>10 DEF IInv, TypeOK, NothingBeforeSend, Calling
  <2>2. Phase(c) \in {"answered", "over"} /\ Phase(c)' = Phase(c)
    BY <1>1, <1>2, <1>10, <2>1 DEF Phase
  <2> QED
    BY <1>7, <1>8, <2>2
<1> QED
  BY <1>2, <1>6, <1>9, <1>10 DEF Reasons, SentIsConnected

\* Every step of the connection is one of OneSession, or none.
LEMMA ConnKeepsPromise ==
  ASSUME IInv, Reasons, IsH2' = IsH2, ConnStep \/ Mishap
  PROVE  [Promise!SessionNext]_(Promise!sessionVars)
<1>1. /\ TypeOK /\ OwnResponse /\ OneAtATime /\ NothingBeforeSend
      /\ ClosedForAReason /\ EachInOnePlace /\ SentIsConnected
      /\ channel \in Seq(Callers) /\ DOMAIN channel = 1..Len(channel)
  BY LenProperties DEF IInv, Reasons, TypeOK
<1>2. ASSUME UNCHANGED << pc, answer, conn >>, Busy' = Busy
      PROVE  UNCHANGED Promise!sessionVars
  <2>1. PhaseMap' = PhaseMap
    BY <1>2 DEF PhaseMap, Phase
  <2> QED
    BY <1>2, <2>1 DEF PhaseMap, Busy, Promise!sessionVars
<1>3. ASSUME channel # << >>, channel' = Tail(channel)
      PROVE  /\ ToSet(channel') = ToSet(channel) \ {Head(channel)}
             /\ Head(channel) \in ToSet(channel) /\ Head(channel) \in Callers
             /\ Connected(Head(channel)) /\ answer[Head(channel)] = None
             /\ Head(channel) \notin exchange
  <2>1. /\ ToSet(channel') = ToSet(channel) \ {Head(channel)}
        /\ Head(channel) \in ToSet(channel)
    <3>1. \A i, j \in 1..Len(channel) : channel[i] = channel[j] => i = j
      BY <1>1 DEF EachInOnePlace
    <3>2. channel \in Seq(Callers)
      BY <1>1
    <3> QED
      BY <1>3, <3>1, <3>2, ToSetOfTail
  <2>2. Head(channel) = channel[1] /\ 1 \in 1..Len(channel) /\ Head(channel) \in Callers
    BY <1>1, <1>3, TakeEffect
  <2> QED
    BY <1>1, <2>1, <2>2 DEF EachInOnePlace, Connected
<1>4. CASE Want
  BY <1>2, <1>4 DEF Want, callerVars, Busy
<1>5. CASE Take
  <2>1. Busy' = Busy
    BY <1>3, <1>5 DEF Take, Busy
  <2> QED
    BY <1>2, <1>5, <2>1 DEF Take, callerVars
<1>6. CASE TakeCancelled
  <2>1. /\ Head(channel) \in Callers /\ Connected(Head(channel))
        /\ answer[Head(channel)] = None /\ Phase(Head(channel)) = "cancelled"
    <3>1. channel # << >> /\ pc[Head(channel)] = "cancelled"
      BY <1>6 DEF TakeCancelled
    <3>2. /\ Head(channel) = channel[1] /\ 1 \in 1..Len(channel)
          /\ Head(channel) \in Callers
      BY <1>1, <3>1, TakeEffect
    <3>3. answer[Head(channel)] = None /\ Connected(Head(channel))
      BY <1>1, <3>2 DEF EachInOnePlace, Connected
    <3>4. Head(channel) # None
      BY <3>2, HyperAssumption
    <3> QED
      BY <3>1, <3>2, <3>3, <3>4 DEF Phase
  <2>2. CASE IsH2
    <3>1. Busy' = Busy \ {Head(channel)} /\ UNCHANGED << pc, answer, conn >>
      BY <1>3, <1>6, <2>2 DEF TakeCancelled, callerVars, Busy
    <3>2. Promise!Discard(Head(channel))
      BY <2>1, <2>2, <3>1, DiscardingKeepsPromise
    <3> QED
      BY <2>1, <3>2 DEF Promise!SessionNext
  <2>3. CASE ~IsH2
    <3>1. Promise!Close("closed")
      BY <1>6, <2>1, <2>3, ClosingKeepsPromise DEF TakeCancelled
    <3> QED
      BY <3>1 DEF Promise!SessionNext
  <2> QED
    BY <2>2, <2>3
<1>7. ASSUME NEW c \in Callers, NEW asker \in Callers, NEW hasBody \in BOOLEAN,
             Answer(c, asker, hasBody)
      PROVE  [Promise!SessionNext]_(Promise!sessionVars)
  <2>1. /\ conn = "open" /\ asker \in exchange /\ answer[asker] = None
        /\ pc[asker] # "cancelled"
        /\ answer' = [answer EXCEPT ![asker] = c]
        /\ exchange' \in {exchange, exchange \ {asker}}
        /\ UNCHANGED << pc, channel, conn >>
    BY <1>7 DEF Answer, callerVars
  <2>2. \A d \in Callers : answer'[d] = IF d = asker THEN c ELSE answer[d]
    BY <1>1, <2>1 DEF TypeOK
  <2>3. c # None /\ c # Error
    BY HyperAssumption
  <2>4. pc[asker] = "inflight"
    BY <1>1, <2>1 DEF SentIsConnected, Connected
  <2>5. Phase(asker) = "sent" /\ Phase(asker)' = "answered"
    BY <2>1, <2>2, <2>3, <2>4 DEF Phase
  <2>6. \A d \in Callers : Phase(d)' = IF d = asker THEN "answered" ELSE Phase(d)
    BY <2>1, <2>2, <2>5 DEF Phase
  <2>7. PhaseMap' = [PhaseMap EXCEPT ![asker] = "answered"]
    BY <2>6 DEF PhaseMap
  <2>8. asker \notin ToSet(channel)
    BY <1>1, <2>1 DEF EachInOnePlace, ToSet
  <2>9. Busy' \in {Busy, Busy \ {asker}}
    BY <2>1, <2>8 DEF Busy
  <2>10. Promise!Move(asker, {"sent"}, "answered")
    BY <2>5, <2>7 DEF Promise!Move, PhaseMap
  <2>11. Promise!Respond(asker)
    BY <2>1, <2>9, <2>10 DEF Promise!Respond, Busy
  <2> QED
    BY <2>11 DEF Promise!SessionNext
\* An exchange is only in a connection that is open, and has no error.
<1>8. ASSUME NEW c \in Callers, Abandoned(c) \/ Drained(c)
      PROVE  [Promise!SessionNext]_(Promise!sessionVars)
  <2>1. /\ c \in exchange /\ pc[c] \in {"cancelled", "dropped"} /\ Connected(c)
        /\ \/ ~IsH2 /\ Close("closed")
           \/ /\ exchange' = exchange \ {c} /\ (answer[c] # None \/ IsH2)
              /\ UNCHANGED << pc, answer, channel, conn >>
    BY <1>8 DEF Abandoned, Drained, Forget, callerVars, Connected
  <2>2. conn = "open"
    BY <1>1, <2>1 DEF ClosedForAReason
  <2>3. answer[c] \in {c, None} /\ c # None
    BY <1>1, <2>1, HyperAssumption DEF OwnResponse, EachInOnePlace
  <2>4. /\ Phase(c) \in {"over", "cancelled"}
        /\ answer[c] # None => Phase(c) = "over"
    BY <2>1, <2>3 DEF Phase
  <2>5. c \notin ToSet(channel)
    BY <1>1, <2>1 DEF EachInOnePlace, ToSet
  <2>6. CASE ~IsH2 /\ Close("closed")
    <3>1. Promise!Close("closed")
      BY <2>1, <2>2, <2>4, <2>6, ClosingKeepsPromise
    <3> QED
      BY <3>1 DEF Promise!SessionNext
  <2>7. CASE ~(~IsH2 /\ Close("closed"))
    <3>1. Busy' = Busy \ {c}
      BY <2>1, <2>5, <2>7 DEF Busy
    <3>2. Promise!Discard(c)
      BY <2>1, <2>4, <2>7, <3>1, DiscardingKeepsPromise
    <3> QED
      BY <3>2 DEF Promise!SessionNext
  <2> QED
    BY <2>6, <2>7
<1>9. CASE ServerCloses
  <2>1. Promise!Close("refused")
    BY <1>9, ClosingKeepsPromise DEF ServerCloses
  <2> QED
    BY <2>1 DEF Promise!SessionNext
<1>10. ASSUME NEW c \in Callers, BodyFails(c) \/ StreamReset(c)
       PROVE  [Promise!SessionNext]_(Promise!sessionVars)
  <2>1. CASE IsH2
    <3>1. Promise!FailAlone(c) \/ Promise!Discard(c)
      BY <1>10, <2>1, StreamEndKeepsPromise DEF BodyFails, StreamReset
    <3> QED
      BY <3>1 DEF Promise!SessionNext
  <2>2. CASE ~IsH2
    <3>1. c \in Faulty /\ c \in exchange /\ Close("closed")
      BY <1>10, <2>2 DEF BodyFails, StreamReset
    <3>2. Promise!Close("closed")
      BY <1>1, <2>2, <3>1, ClosingKeepsPromise DEF ClosedForAReason, Connected
    <3> QED
      BY <3>2 DEF Promise!SessionNext
  <2> QED
    BY <2>1, <2>2
<1> QED
  BY <1>4, <1>5, <1>6, <1>7, <1>8, <1>9, <1>10 DEF ConnStep, Mishap

-----------------------------------------------------------------------------
(***************************************************************************)
(* The theorems.                                                           *)
(***************************************************************************)

LEMMA InitTurnsAndReasons == Init => Turns /\ Reasons
<1> SUFFICES ASSUME Init
             PROVE  Turns /\ Reasons
  OBVIOUS
<1>1. /\ Len(<< >>) = 0 /\ conn = "open" /\ None # Error
      /\ queue = << >> /\ asked = << >> /\ handed = << >> /\ channel = << >>
      /\ exchange = {} /\ \A c \in Callers : pc[c] = "new" /\ answer[c] = None
  BY EmptySeq, HyperAssumption DEF Init
<1>2. Turns
  BY <1>1 DEF Turns, AskedOnce, TurnsInOrder
<1>3. Reasons
  BY <1>1 DEF Reasons, ClosedForAReason, EachInOnePlace, SentIsConnected, Connected
<1> QED
  BY <1>2, <1>3

LEMMA SpecTurnsAndReasons == Spec => [](IInv /\ Turns /\ Reasons)
<1>1. IInv /\ Turns /\ Reasons /\ [Next]_vars => (IInv /\ Turns /\ Reasons)'
  BY LockStep, ConnectionStep, TurnsStep, ReasonsStep DEF IInv
<1> QED
  BY InitIInv, InitTurnsAndReasons, <1>1, PTL DEF Spec

\* Whoever is cancelled in the queue, the lock of send_request (navar-hyper
\* lib.rs:114) serves the callers of an HTTP/1.1 session in the order of their calls.
THEOREM TurnsAreTakenInOrder == Spec => []FirstComeFirstServed
<1>1. IInv /\ Turns => FirstComeFirstServed
  <2> SUFFICES ASSUME IInv, Turns, ~IsH2, NEW i \in 1..Len(handed),
                      NEW j \in 1..Len(handed), i < j
               PROVE  Place(asked, handed[i]) < Place(asked, handed[j])
    BY DEF FirstComeFirstServed
  <2>1. PICK k, l \in 1..Len(asked) : k < l /\ asked[k] = handed[i] /\ asked[l] = handed[j]
    BY DEF Turns, TurnsInOrder, Earlier
  <2>2. Len(asked) \in Nat
    BY LenProperties DEF IInv, TypeOK
  <2>3. ASSUME NEW m \in 1..Len(asked)
        PROVE  Place(asked, asked[m]) = m
    <3>1. {n \in 1..Len(asked) : asked[n] = asked[m]} = {m}
      BY DEF Turns, AskedOnce
    <3>2. Min({m}) = m
      BY <2>2, MinIsLeast
    <3> QED
      BY <3>1, <3>2 DEF Place, SelectInSeq
  <2>4. Place(asked, handed[i]) = k /\ Place(asked, handed[j]) = l
    BY <2>1, <2>3
  <2> QED
    BY <2>1, <2>4
<1> QED
  BY SpecTurnsAndReasons, <1>1, PTL

\* A caller that gives up while it waits for its turn harms nobody: send_request
\* fails only because the server closed the connection; or, over HTTP/2, because
\* the request's own stream broke off; or, over HTTP/1.1, because a request was given
\* up after it had been handed over or its body was in error; and never because
\* a request came before the connection wanted it, ready() being awaited under the
\* lock (navar-hyper lib.rs:114-116).
THEOREM FailuresHaveReasons == Spec => []FailsForAReason
<1>1. IInv /\ Reasons => FailsForAReason
  <2> SUFFICES ASSUME IInv, Reasons, NEW c \in Callers, pc[c] = "failed"
               PROVE  \/ conn = "refused"
                      \/ IsH2 /\ c \in broken
                      \/ ~IsH2 /\ \E d \in Callers : GivenUp(d) \/ d \in broken
    BY DEF FailsForAReason
  <2> QED
    BY DEF Reasons, ClosedForAReason, Culprit, IInv, TypeOK
<1> QED
  BY SpecTurnsAndReasons, <1>1, PTL

\* For any callers, and whichever version of HTTP was agreed on, the Mutex, the wants
\* and the channel of HyperSender keep the promise of the trait Session: OneSession,
\* which is what the composed Client is built on.
THEOREM HyperKeepsThePromise == Spec => ImplementsOneSession
<1>1. Init => Promise!SessionInit
  <2> SUFFICES ASSUME Init
               PROVE  Promise!SessionInit
    OBVIOUS
  <2>1. PhaseMap = [c \in Callers |-> "new"]
    BY DEF Init, PhaseMap, Phase
  <2>2. Busy = {}
    BY ToSetOfEmpty DEF Init, Busy
  <2> QED
    BY <2>1, <2>2, HyperAssumption DEF Init, Promise!SessionInit, PhaseMap, Busy
<1>2. IInv /\ Reasons /\ [Next]_vars => [Promise!SessionNext]_(Promise!sessionVars)
  <2> SUFFICES ASSUME IInv, Reasons, [Next]_vars
               PROVE  [Promise!SessionNext]_(Promise!sessionVars)
    OBVIOUS
  <2>1. IsH2' = IsH2
    BY ProtocolKept
  <2>2. CASE UNCHANGED vars
    BY <2>1, <2>2 DEF vars, Promise!sessionVars, Phase
  <2> QED
    BY <2>1, <2>2, CallerKeepsPromise, ConnKeepsPromise DEF Next
<1> QED
  BY <1>1, <1>2, SpecTurnsAndReasons, PTL DEF Spec, ImplementsOneSession, Promise!SessionSpec
=============================================================================
