-------------------------- MODULE HyperSessionProofs --------------------------
(***************************************************************************)
(* What a Hyper session guarantees to any number of callers: the Mutex is  *)
(* in the right hands, and over HTTP/1.1 the one exchange that it lets the *)
(* connection have is what keeps responses from being mixed up.            *)
(***************************************************************************)
EXTENDS HyperSession, SequenceTheorems, WellFoundedInduction, TLAPS

-----------------------------------------------------------------------------
(***************************************************************************)
(* The inductive invariant.                                                *)
(***************************************************************************)

\* Position by position: the Mutex is held and waited for by the callers inside
\* send_request, each once, and only its holder has gone past the lock.
LockOrder ==
  /\ IsH2 => queue = << >>
  /\ ~IsH2 =>
       /\ \A c \in Callers :
            pc[c] \in Calling <=> \E i \in 1..Len(queue) : queue[i] = c
       /\ \A i \in 2..Len(queue) : pc[queue[i]] = "queued"
       /\ \A i, j \in 1..Len(queue) : queue[i] = queue[j] => i = j

\* An HTTP/1.1 connection has one thing at a time: the wish for a request, a
\* request in the channel, or an exchange; and what the server has yet to answer
\* is that exchange.
OneAtATime ==
  ~IsH2 =>
    /\ wanted => channel = << >> /\ exchange = {}
    /\ channel # << >> => exchange = {} /\ Len(channel) = 1
    /\ \A c, d \in exchange : c = d
    /\ Len(wire) <= 1
    /\ \A i \in 1..Len(wire) : wire[i] \in exchange /\ answer[wire[i]] = None
    /\ \A i \in 1..Len(channel) : answer[channel[i]] = None

\* A caller that has handed nothing over has no answer and no place in the
\* connection; one that reads a response has its answer.
NothingBeforeSend ==
  \A c \in Callers :
    /\ pc[c] \in {"new", "queued", "readying"} =>
         /\ answer[c] = None
         /\ c \notin exchange
         /\ \A i \in 1..Len(channel) : channel[i] # c
    /\ pc[c] = "reading" => answer[c] # None

IInv ==
  /\ TypeOK
  /\ LockOrder
  /\ OneAtATime
  /\ NothingBeforeSend
  /\ OwnResponse

-----------------------------------------------------------------------------
(***************************************************************************)
(* Removing from a queue.                                                  *)
(***************************************************************************)

\* A nonempty set of numbers has a least one.
LEMMA MinIsLeast ==
  ASSUME NEW S \in SUBSET Nat, S # {}
  PROVE  Min(S) \in S /\ \A x \in S : Min(S) <= x
<1>1. PICK x \in S : \A y \in S : << y, x >> \notin OpToRel(<, Nat)
  BY NatLessThanWellFounded, WFMin
<1>2. \A y \in S : x <= y
  <2> SUFFICES ASSUME NEW y \in S
               PROVE  x <= y
    OBVIOUS
  <2>1. x \in Nat /\ y \in Nat
    OBVIOUS
  <2>2. ~(y < x)
    BY <1>1, <2>1 DEF OpToRel
  <2> QED
    BY <2>1, <2>2
<1> QED
  BY <1>2 DEF Min

\* RemoveFirst leaves a queue as it is or takes one place out of it.
LEMMA RemoveFirstEffect ==
  ASSUME NEW S, NEW s \in Seq(S), NEW e
  PROVE  /\ RemoveFirst(s, e) \in Seq(S)
         /\ \/ /\ RemoveFirst(s, e) = s
               /\ \A i \in 1..Len(s) : s[i] # e
            \/ \E p \in 1..Len(s) :
                 /\ s[p] = e
                 /\ Len(RemoveFirst(s, e)) = Len(s) - 1
                 /\ \A j \in 1..Len(s) - 1 :
                      RemoveFirst(s, e)[j] = IF j < p THEN s[j] ELSE s[j + 1]
<1>1. CASE \A i \in 1..Len(s) : s[i] # e
  BY <1>1 DEF RemoveFirst
<1>2. CASE \E i \in 1..Len(s) : s[i] = e
  <2> DEFINE places == {i \in 1..Len(s) : s[i] = e}
             p == Min(places)
  <2>1. Len(s) \in Nat /\ \A i \in 1..Len(s) : s[i] \in S
    BY LenProperties, ElementOfSeq
  <2>2. p \in 1..Len(s) /\ s[p] = e
    <3>1. places \in SUBSET Nat /\ places # {}
      BY <1>2, <2>1
    <3>2. p \in places
      BY <3>1, MinIsLeast
    <3> QED
      BY <3>2
  <2>3. RemoveFirst(s, e) = SubSeq(s, 1, p - 1) \o SubSeq(s, p + 1, Len(s))
    BY <1>2, <2>2 DEF RemoveFirst, SelectInSeq, RemoveAt
  <2> HIDE DEF p, places
  <2>4. /\ SubSeq(s, 1, p - 1) \in Seq(S) /\ Len(SubSeq(s, 1, p - 1)) = p - 1
        /\ \A j \in 1..p - 1 : SubSeq(s, 1, p - 1)[j] = s[j]
    BY <2>1, <2>2, SubSeqProperties
  <2>5. /\ SubSeq(s, p + 1, Len(s)) \in Seq(S)
        /\ Len(SubSeq(s, p + 1, Len(s))) = Len(s) - p
        /\ \A j \in 1..Len(s) - p : SubSeq(s, p + 1, Len(s))[j] = s[p + j]
    BY <2>1, <2>2, SubSeqProperties
  <2> DEFINE a == SubSeq(s, 1, p - 1)
             b == SubSeq(s, p + 1, Len(s))
  <2>6. /\ a \in Seq(S) /\ Len(a) = p - 1 /\ \A j \in 1..p - 1 : a[j] = s[j]
        /\ b \in Seq(S) /\ Len(b) = Len(s) - p
        /\ \A j \in 1..Len(s) - p : b[j] = s[p + j]
        /\ RemoveFirst(s, e) = a \o b
    BY <2>3, <2>4, <2>5
  <2> HIDE DEF a, b
  <2> DEFINE ab == a \o b
  <2>7. /\ ab \in Seq(S) /\ Len(ab) = Len(a) + Len(b)
        /\ \A j \in 1..Len(a) + Len(b) :
             ab[j] = IF j <= Len(a) THEN a[j] ELSE b[j - Len(a)]
    BY <2>6, ConcatProperties
  <2>0. RemoveFirst(s, e) = ab
    BY <2>6
  <2> HIDE DEF ab
  <2>8. ASSUME NEW j \in 1..Len(s) - 1
        PROVE  ab[j] = IF j < p THEN s[j] ELSE s[j + 1]
    <3>0. j \in 1..Len(a) + Len(b) /\ Len(a) = p - 1
      BY <2>1, <2>2, <2>6
    <3>1. CASE j < p
      <4>1. j <= Len(a) /\ j \in 1..p - 1
        BY <2>1, <2>2, <3>0, <3>1
      <4>2. ab[j] = a[j] /\ a[j] = s[j]
        BY <2>6, <2>7, <3>0, <4>1
      <4> QED
        BY <3>1, <4>2
    <3>2. CASE ~(j < p)
      <4>1. ab[j] = b[j - (p - 1)]
        <5>1. ~(j <= Len(a))
          BY <2>1, <2>2, <3>0, <3>2
        <5> QED
          BY <2>7, <3>0, <5>1
      <4>2. j - (p - 1) \in 1..Len(s) - p /\ p + (j - (p - 1)) = j + 1
        BY <2>1, <2>2, <3>2
      <4> QED
        BY <2>6, <3>2, <4>1, <4>2
    <3> QED
      BY <3>1, <3>2
  <2>9. Len(ab) = Len(s) - 1
    <3>1. Len(a) = p - 1 /\ Len(b) = Len(s) - p /\ Len(ab) = Len(a) + Len(b)
      BY <2>6, <2>7
    <3> QED
      BY <2>1, <2>2, <3>1
  <2> QED
    BY <2>0, <2>2, <2>7, <2>8, <2>9
<1> QED
  BY <1>1, <1>2

-----------------------------------------------------------------------------
(***************************************************************************)
(* The Mutex.                                                              *)
(***************************************************************************)

\* The protocol is chosen once.
LEMMA ProtocolKept ==
  [Next]_vars => negotiated' = negotiated /\ IsH2' = IsH2
<1>1. [Next]_vars => negotiated' = negotiated
  BY DEF Next, vars, CallerStep, BodyStep, ConnStep, Ask, Locked, Send, NotReady,
         Return, Cancel, ReadBody, DropBody, Close, Want, Take, TakeCancelled,
         Answer, Forget, Abandoned, Drained, Mishap, ServerCloses, BodyFails,
         StreamReset, LoseStream, connVars
<1>2. negotiated' = negotiated => IsH2' = IsH2
  BY DEF IsH2, StreamAlpn
<1> QED
  BY <1>1, <1>2

\* A caller that leaves send_request, from wherever it stands in the queue,
\* leaves the Mutex in order.
LEMMA LeaveInOrder ==
  ASSUME TypeOK, LockOrder, NEW c \in Callers, NEW place,
         place \notin Calling, IsH2' = IsH2, Goto(c, place), queue' = Release(c)
  PROVE  queue' \in Seq(Callers) /\ LockOrder'
<1>1. queue \in Seq(Callers) /\ Len(queue) \in Nat
  BY LenProperties DEF TypeOK
<1>2. /\ queue' \in Seq(Callers)
      /\ \/ /\ queue' = queue
            /\ \A i \in 1..Len(queue) : queue[i] # c
         \/ \E p \in 1..Len(queue) :
              /\ queue[p] = c
              /\ Len(queue') = Len(queue) - 1
              /\ \A j \in 1..Len(queue) - 1 :
                   queue'[j] = IF j < p THEN queue[j] ELSE queue[j + 1]
  <2> DEFINE rest == RemoveFirst(queue, c)
  <2>1. /\ rest \in Seq(Callers)
        /\ \/ rest = queue /\ \A i \in 1..Len(queue) : queue[i] # c
           \/ \E p \in 1..Len(queue) :
                /\ queue[p] = c
                /\ Len(rest) = Len(queue) - 1
                /\ \A j \in 1..Len(queue) - 1 :
                     rest[j] = IF j < p THEN queue[j] ELSE queue[j + 1]
    BY <1>1, RemoveFirstEffect
  <2>2. queue' = rest
    BY DEF Release
  <2> HIDE DEF rest
  <2> QED
    BY <2>1, <2>2
<1>3. \A d \in Callers : pc'[d] = IF d = c THEN place ELSE pc[d]
  BY DEF Goto, TypeOK
<1>4. \A i \in 1..Len(queue) : queue[i] \in Callers
  BY <1>1, ElementOfSeq
<1>5. CASE IsH2
  <2>1. queue = << >> /\ Len(<< >>) = 0
    BY <1>5 DEF LockOrder
  <2>2. queue' = queue
    BY <1>2, <2>1
  <2> QED
    BY <1>2, <1>5, <2>1, <2>2 DEF LockOrder
<1>6. CASE ~IsH2 /\ \A i \in 1..Len(queue) : queue[i] # c
  <2>1. queue' = queue
    BY <1>2, <1>6
  <2>2. pc[c] \notin Calling
    BY <1>6 DEF LockOrder
  <2> QED
    BY <1>1, <1>2, <1>3, <1>4, <1>6, <2>1, <2>2 DEF LockOrder
<1>7. CASE ~IsH2 /\ \E i \in 1..Len(queue) : queue[i] = c
  <2>1. PICK p \in 1..Len(queue) :
          /\ queue[p] = c
          /\ Len(queue') = Len(queue) - 1
          /\ \A j \in 1..Len(queue) - 1 :
               queue'[j] = IF j < p THEN queue[j] ELSE queue[j + 1]
    BY <1>2, <1>7
  <2>2. /\ \A d \in Callers :
             pc[d] \in Calling <=> \E i \in 1..Len(queue) : queue[i] = d
        /\ \A i \in 2..Len(queue) : pc[queue[i]] = "queued"
        /\ \A i, j \in 1..Len(queue) : queue[i] = queue[j] => i = j
    BY <1>7 DEF LockOrder
  \* Where the caller at a place of the new queue stood in the old one.
  <2> DEFINE old(j) == IF j < p THEN j ELSE j + 1
  <2>3. \A j \in 1..Len(queue') :
          /\ old(j) \in 1..Len(queue) /\ old(j) # p /\ old(j) >= j
          /\ queue'[j] = queue[old(j)]
    BY <1>1, <2>1
  <2>4. \A i \in 1..Len(queue) :
          i # p => \E j \in 1..Len(queue') : old(j) = i
    <3> SUFFICES ASSUME NEW i \in 1..Len(queue), i # p
                 PROVE  \E j \in 1..Len(queue') : old(j) = i
      OBVIOUS
    <3>1. CASE i < p
      <4>1. i \in 1..Len(queue') /\ old(i) = i
        BY <1>1, <2>1, <3>1
      <4> QED
        BY <4>1
    <3>2. CASE i > p
      <4>1. i - 1 \in 1..Len(queue') /\ old(i - 1) = i
        BY <1>1, <2>1, <3>2
      <4> QED
        BY <4>1
    <3> QED
      BY <1>1, <3>1, <3>2
  <2>5. \A i, j \in 1..Len(queue') : old(i) = old(j) => i = j
    BY <1>1, <2>1
  <2> HIDE DEF old
  <2>6. \A d \in Callers :
          pc'[d] \in Calling <=> \E j \in 1..Len(queue') : queue'[j] = d
    <3> SUFFICES ASSUME NEW d \in Callers
                 PROVE  pc'[d] \in Calling <=> \E j \in 1..Len(queue') : queue'[j] = d
      OBVIOUS
    <3>1. CASE d = c
      <4>1. \A j \in 1..Len(queue') : queue'[j] # c
        BY <2>1, <2>2, <2>3
      <4> QED
        BY <1>3, <3>1, <4>1
    <3>2. CASE d # c
      <4>1. pc'[d] \in Calling <=> \E i \in 1..Len(queue) : queue[i] = d
        BY <1>3, <2>2, <3>2
      <4>2. ASSUME NEW i \in 1..Len(queue), queue[i] = d
            PROVE  \E j \in 1..Len(queue') : queue'[j] = d
        BY <2>1, <2>3, <2>4, <3>2, <4>2
      <4>3. ASSUME NEW j \in 1..Len(queue'), queue'[j] = d
            PROVE  \E i \in 1..Len(queue) : queue[i] = d
        BY <2>3, <4>3
      <4> QED
        BY <4>1, <4>2, <4>3
    <3> QED
      BY <3>1, <3>2
  <2>7. \A j \in 2..Len(queue') : pc'[queue'[j]] = "queued"
    <3> SUFFICES ASSUME NEW j \in 2..Len(queue')
                 PROVE  pc'[queue'[j]] = "queued"
      OBVIOUS
    <3>1. j \in 1..Len(queue') /\ Len(queue') \in Nat
      BY <1>1, <2>1
    <3>2. old(j) \in 2..Len(queue) /\ queue'[j] = queue[old(j)]
      BY <1>1, <2>3, <3>1
    <3>3. queue[old(j)] \in Callers /\ queue[old(j)] # c
      BY <1>4, <2>1, <2>2, <2>3, <3>1
    <3> QED
      BY <1>3, <2>2, <3>2, <3>3
  <2>8. \A i, j \in 1..Len(queue') : queue'[i] = queue'[j] => i = j
    BY <2>2, <2>3, <2>5
  <2> QED
    BY <1>2, <1>7, <2>6, <2>7, <2>8 DEF LockOrder
<1> QED
  BY <1>5, <1>6, <1>7

\* The lock stays in order in every step.
LEMMA LockStep ==
  IInv /\ [Next]_vars => LockOrder'
<1> SUFFICES ASSUME IInv, [Next]_vars
             PROVE  LockOrder'
  OBVIOUS
<1>1. TypeOK /\ LockOrder /\ IsH2' = IsH2
  BY ProtocolKept DEF IInv
<1>2. /\ queue \in Seq(Callers) /\ Len(queue) \in Nat
      /\ \A i \in 1..Len(queue) : queue[i] \in Callers
      /\ pc = [d \in Callers |-> pc[d]]
  <2>1. queue \in Seq(Callers) /\ pc = [d \in Callers |-> pc[d]]
    BY <1>1 DEF TypeOK
  <2> QED
    BY <2>1, LenProperties, ElementOfSeq
\* A step that changes neither the queue nor who is inside send_request.
<1>3. ASSUME UNCHANGED queue,
             \A d \in Callers : pc'[d] \in Calling <=> pc[d] \in Calling,
             \A d \in Callers : pc[d] = "queued" => pc'[d] = "queued"
      PROVE  LockOrder'
  <2>1. CASE IsH2
    BY <1>1, <1>3, <2>1 DEF LockOrder
  <2>2. CASE ~IsH2
    <3>1. \A i \in 2..Len(queue) : pc'[queue[i]] = "queued"
      BY <1>1, <1>2, <1>3, <2>2 DEF LockOrder
    <3> QED
      BY <1>1, <1>3, <2>2, <3>1 DEF LockOrder
  <2> QED
    BY <2>1, <2>2
<1>4. ASSUME NEW c \in Callers, Ask(c)
      PROVE  LockOrder'
  <2>1. CASE IsH2
    BY <1>1, <1>4, <2>1 DEF Ask, LockOrder
  <2>2. CASE ~IsH2
    <3>1. pc[c] = "new" /\ pc' = [pc EXCEPT ![c] = "queued"] /\ queue' = Append(queue, c)
      BY <1>4, <2>2 DEF Ask, Goto, Join
    <3>2. /\ Len(queue') = Len(queue) + 1
          /\ \A i \in 1..Len(queue) : queue'[i] = queue[i]
          /\ queue'[Len(queue) + 1] = c
      BY <1>2, <3>1, AppendProperties
    <3>3. \A i \in 1..Len(queue) : queue[i] # c
      BY <1>1, <2>2, <3>1 DEF LockOrder, Calling
    <3>4. \A d \in Callers : pc'[d] = IF d = c THEN "queued" ELSE pc[d]
      BY <1>2, <3>1
    <3>5. \A d \in Callers :
            pc'[d] \in Calling <=> \E i \in 1..Len(queue') : queue'[i] = d
      <4> SUFFICES ASSUME NEW d \in Callers
                   PROVE  pc'[d] \in Calling <=> \E i \in 1..Len(queue') : queue'[i] = d
        OBVIOUS
      <4>1. CASE d = c
        BY <1>2, <3>2, <3>4, <4>1 DEF Calling
      <4>2. CASE d # c
        <5>1. pc'[d] \in Calling <=> \E i \in 1..Len(queue) : queue[i] = d
          BY <1>1, <2>2, <3>4, <4>2 DEF LockOrder
        <5> QED
          BY <1>2, <3>2, <4>2, <5>1
      <4> QED
        BY <4>1, <4>2
    <3>6. \A i \in 2..Len(queue') : pc'[queue'[i]] = "queued"
      BY <1>1, <1>2, <2>2, <3>2, <3>3, <3>4 DEF LockOrder
    <3>7. \A i, j \in 1..Len(queue') : queue'[i] = queue'[j] => i = j
      BY <1>1, <1>2, <2>2, <3>2, <3>3 DEF LockOrder
    <3> QED
      BY <1>1, <2>2, <3>5, <3>6, <3>7 DEF LockOrder
  <2> QED
    BY <2>1, <2>2
<1>5. ASSUME NEW c \in Callers, Locked(c)
      PROVE  LockOrder'
  \* Only the holder, at the head, takes it, and it stands nowhere else.
  <2>1. /\ pc[c] = "queued" /\ pc' = [pc EXCEPT ![c] = "readying"] /\ queue' = queue
        /\ queue # << >> /\ queue[1] = c
    BY <1>2, <1>5 DEF Locked, Holder, Goto
  <2>2. CASE IsH2
    BY <1>1, <2>1, <2>2 DEF LockOrder
  <2>3. CASE ~IsH2
    <3>1. \A d \in Callers : pc'[d] = IF d = c THEN "readying" ELSE pc[d]
      BY <1>2, <2>1
    <3>2. \A i \in 2..Len(queue) : queue[i] # c
      <4>1. Len(queue) >= 1
        BY <1>2, <2>1, EmptySeq
      <4> QED
        BY <1>1, <1>2, <2>1, <2>3, <4>1 DEF LockOrder
    <3>3. \A i \in 2..Len(queue) : pc'[queue[i]] = "queued"
      BY <1>1, <1>2, <2>3, <3>1, <3>2 DEF LockOrder
    <3>4. \A d \in Callers : pc'[d] \in Calling <=> pc[d] \in Calling
      BY <2>1, <3>1 DEF Calling
    <3> QED
      BY <1>1, <2>1, <2>3, <3>3, <3>4 DEF LockOrder
  <2> QED
    BY <2>2, <2>3
<1>6. ASSUME NEW c \in Callers, Send(c)
      PROVE  LockOrder'
  <2>1. CASE Goto(c, "inflight") /\ UNCHANGED queue
    BY <1>2, <1>3, <1>6, <2>1 DEF Send, Goto, Calling
  <2>2. CASE Goto(c, "failed") /\ queue' = Release(c)
    BY <1>1, <2>2, LeaveInOrder DEF Calling
  <2> QED
    BY <1>6, <2>1, <2>2 DEF Send
<1>7. ASSUME NEW c \in Callers, NotReady(c) \/ Return(c) \/ Cancel(c)
      PROVE  LockOrder'
  <2>1. \E place : place \notin Calling /\ Goto(c, place) /\ queue' = Release(c)
    BY <1>7 DEF NotReady, Return, Cancel, Calling
  <2> QED
    BY <1>1, <2>1, LeaveInOrder
<1>8. ASSUME NEW c \in Callers, BodyStep(c)
      PROVE  LockOrder'
  BY <1>2, <1>3, <1>8 DEF BodyStep, ReadBody, DropBody, Goto, Calling
<1>9. ASSUME UNCHANGED << pc, queue >>
      PROVE  LockOrder'
  BY <1>3, <1>9
<1>10. ConnStep \/ Mishap \/ UNCHANGED vars => UNCHANGED << pc, queue >>
  BY DEF ConnStep, Mishap, ServerCloses, BodyFails, StreamReset, LoseStream, vars,
         callerVars, Want, Take, TakeCancelled, Answer, Abandoned, Forget, Drained,
         Close
<1> QED
  BY <1>4, <1>5, <1>6, <1>7, <1>8, <1>9, <1>10 DEF Next, CallerStep

-----------------------------------------------------------------------------
(***************************************************************************)
(* The connection.                                                         *)
(***************************************************************************)

\* Closing the connection empties it, and only turns "no answer" into an error.
LEMMA CloseEffect ==
  ASSUME TypeOK, OwnResponse, NothingBeforeSend, IsH2' = IsH2,
         NEW how \in {"closed", "refused"}, Close(how), broken' \in SUBSET Callers
  PROVE  TypeOK' /\ OneAtATime' /\ NothingBeforeSend' /\ OwnResponse'
<1>1. /\ answer' \in [Callers -> Callers \cup {None, Error}]
      /\ \A c \in Callers : answer'[c] \in {answer[c], Error}
      /\ \A c \in Callers :
           answer'[c] # answer[c] => c \in ToSet(channel) \cup exchange
  BY DEF TypeOK, Close
<1>2. /\ wanted' = FALSE /\ channel' = << >> /\ exchange' = {} /\ wire' = << >>
      /\ conn' = how
      /\ UNCHANGED << negotiated, pc, queue, asked, handed >>
  BY DEF Close, callerVars
<1>3. Len(<< >>) = 0 /\ << >> \in Seq(Callers)
  BY EmptySeq
<1>4. TypeOK'
  <2>1. {queue', channel', wire', asked', handed'} \subseteq Seq(Callers)
    BY <1>2, <1>3 DEF TypeOK
  <2>2. Len(channel') <= 1
    BY <1>2, <1>3
  <2>3. {exchange', broken'} \subseteq SUBSET Callers /\ wanted' \in BOOLEAN
    BY <1>2
  <2>4. conn' \in {"open", "closed", "refused"}
    BY <1>2
  <2> QED
    BY <1>1, <1>2, <2>1, <2>2, <2>3, <2>4 DEF TypeOK
<1>5. OneAtATime'
  BY <1>2, <1>3 DEF OneAtATime
<1>6. NothingBeforeSend'
  <2>1. ASSUME NEW c \in Callers, pc[c] \in {"new", "queued", "readying"}
        PROVE  answer'[c] = None
    <3>1. channel \in Seq(Callers) /\ DOMAIN channel = 1..Len(channel)
      BY LenProperties DEF TypeOK
    <3>2. c \notin ToSet(channel) /\ c \notin exchange /\ answer[c] = None
      BY <2>1, <3>1 DEF NothingBeforeSend, ToSet
    <3> QED
      BY <1>1, <3>2
  <2>2. ASSUME NEW c \in Callers, pc[c] = "reading"
        PROVE  answer'[c] # None
    BY <1>1, <2>2, HyperAssumption DEF NothingBeforeSend
  <2> QED
    BY <1>2, <1>3, <2>1, <2>2 DEF NothingBeforeSend
<1>7. OwnResponse'
  BY <1>1 DEF OwnResponse
<1> QED
  BY <1>4, <1>5, <1>6, <1>7

\* The head of a channel, and what is left when it is taken.
LEMMA TakeEffect ==
  ASSUME NEW S, NEW s \in Seq(S), s # << >>
  PROVE  /\ Head(s) = s[1] /\ Head(s) \in S /\ 1 \in 1..Len(s)
         /\ Tail(s) \in Seq(S) /\ Len(Tail(s)) = Len(s) - 1
         /\ \A i \in 1..Len(Tail(s)) : i + 1 \in 1..Len(s) /\ Tail(s)[i] = s[i + 1]
<1>1. Len(s) \in Nat \ {0}
  BY EmptySeq
<1> QED
  BY <1>1, HeadTailProperties

\* The shape of the state, the one exchange of HTTP/1.1, and whose answers are
\* whose, in every step.
LEMMA ConnectionStep ==
  IInv /\ [Next]_vars => TypeOK' /\ OneAtATime' /\ NothingBeforeSend' /\ OwnResponse'
<1> DEFINE Goal == TypeOK' /\ OneAtATime' /\ NothingBeforeSend' /\ OwnResponse'
<1> SUFFICES ASSUME IInv, [Next]_vars
             PROVE  Goal
  OBVIOUS
<1>1. /\ TypeOK /\ LockOrder /\ OneAtATime /\ NothingBeforeSend /\ OwnResponse
      /\ IsH2' = IsH2 /\ negotiated' = negotiated
  BY ProtocolKept DEF IInv
<1>2. /\ queue \in Seq(Callers) /\ channel \in Seq(Callers) /\ wire \in Seq(Callers)
      /\ asked \in Seq(Callers) /\ handed \in Seq(Callers)
      /\ Len(channel) \in Nat /\ Len(wire) \in Nat /\ Len(<< >>) = 0
  <2>1. /\ queue \in Seq(Callers) /\ channel \in Seq(Callers) /\ wire \in Seq(Callers)
        /\ asked \in Seq(Callers) /\ handed \in Seq(Callers)
    BY <1>1 DEF TypeOK
  <2> QED
    BY <2>1, LenProperties, EmptySeq
\* A caller that moves on without touching the connection, and not backwards.
<1>3. ASSUME NEW c \in Callers, NEW place, UNCHANGED connVars,
             Goto(c, place),
             place \in {"queued", "readying", "reading", "failed", "dropped", "cancelled"},
             place \in {"queued", "readying"} => pc[c] \in {"new", "queued"},
             place = "reading" => answer[c] # None,
             queue' \in Seq(Callers), asked' \in Seq(Callers), UNCHANGED handed
      PROVE  Goal
  <2>1. \A d \in Callers : pc'[d] = IF d = c THEN place ELSE pc[d]
    BY <1>1, <1>3 DEF Goto, TypeOK
  <2>2. TypeOK'
    BY <1>1, <1>3 DEF TypeOK, Goto, connVars, Calling
  <2>3. OneAtATime' /\ OwnResponse'
    BY <1>1, <1>3 DEF OneAtATime, OwnResponse, connVars
  <2>4. NothingBeforeSend'
    BY <1>1, <1>3, <2>1 DEF NothingBeforeSend, connVars
  <2> QED
    BY <2>2, <2>3, <2>4
<1>4. ASSUME NEW c \in Callers, Ask(c)
      PROVE  Goal
  <2>1. asked' \in Seq(Callers) /\ Append(queue, c) \in Seq(Callers)
    BY <1>2, <1>4, AppendProperties DEF Ask
  <2>2. /\ pc[c] = "new" /\ UNCHANGED << connVars, handed >>
        /\ queue' \in Seq(Callers)
        /\ Goto(c, "readying") \/ Goto(c, "queued")
    BY <1>2, <1>4, <2>1 DEF Ask, Join
  <2> QED
    BY <1>3, <2>1, <2>2
<1>5. ASSUME NEW c \in Callers, Locked(c)
      PROVE  Goal
  BY <1>2, <1>3, <1>5 DEF Locked
<1>6. ASSUME NEW c \in Callers, NotReady(c) \/ Return(c) \/ Cancel(c)
      PROVE  Goal
  <2>1. Release(c) \in Seq(Callers)
    BY <1>2, RemoveFirstEffect DEF Release
  <2>2. CASE NotReady(c)
    BY <1>2, <1>3, <2>1, <2>2 DEF NotReady
  <2>3. CASE Return(c)
    BY <1>2, <1>3, <2>1, <2>3 DEF Return
  <2>4. CASE Cancel(c)
    BY <1>2, <1>3, <2>1, <2>4 DEF Cancel
  <2> QED
    BY <1>6, <2>2, <2>3, <2>4
<1>7. ASSUME NEW c \in Callers, DropBody(c)
      PROVE  Goal
  BY <1>2, <1>3, <1>7 DEF DropBody
<1>8. ASSUME NEW c \in Callers, Send(c)
      PROVE  Goal
  \* ready() returned, so that the connection has nothing else to do.
  <2>1. /\ pc[c] = "readying" /\ pc' = [pc EXCEPT ![c] = "inflight"]
        /\ channel' = Append(channel, c) /\ handed' = Append(handed, c)
        /\ wanted' = FALSE /\ (IsH2 \/ wanted)
        /\ UNCHANGED << negotiated, queue, answer, exchange, wire, conn, broken,
                        asked >>
    BY <1>8 DEF Send, Ready, Satisfied, Goto
  <2>2. /\ channel' \in Seq(Callers) /\ handed' \in Seq(Callers)
        /\ Len(channel') = Len(channel) + 1
        /\ \A i \in 1..Len(channel) : channel'[i] = channel[i]
        /\ channel'[Len(channel) + 1] = c
    BY <1>2, <2>1, AppendProperties
  <2>3. \A d \in Callers : pc'[d] = IF d = c THEN "inflight" ELSE pc[d]
    BY <1>1, <2>1 DEF TypeOK
  <2>4. ~IsH2 => Len(channel) = 0 /\ exchange = {}
    BY <1>1, <1>2, <2>1 DEF OneAtATime
  <2>5. answer[c] = None
    BY <1>1, <2>1 DEF NothingBeforeSend
  <2>6. TypeOK'
    <3>1. ~IsH2' => Len(channel') <= 1
      BY <1>1, <1>2, <2>2, <2>4
    <3>2. pc' \in [Callers -> {"new", "reading", "done", "dropped", "failed",
                               "cancelled"} \cup Calling]
      BY <1>1, <2>1 DEF TypeOK, Calling
    <3>3. {queue', channel', wire', asked', handed'} \subseteq Seq(Callers)
      BY <1>2, <2>1, <2>2
    <3> QED
      BY <1>1, <2>1, <3>1, <3>2, <3>3 DEF TypeOK
  <2>7. OneAtATime'
    <3>1. CASE ~IsH2
      <4>1. Len(channel') = 1 /\ channel'[1] = c /\ exchange' = {} /\ wanted' = FALSE
        BY <1>2, <2>1, <2>2, <2>4, <3>1
      <4>2. \A i \in 1..Len(channel') : answer'[channel'[i]] = None
        BY <2>1, <2>5, <4>1
      <4>3. \A i \in 1..Len(wire) : wire[i] \in exchange /\ answer[wire[i]] = None
        BY <1>1, <3>1 DEF OneAtATime
      <4> QED
        BY <1>1, <2>1, <3>1, <4>1, <4>2, <4>3 DEF OneAtATime
    <3>2. CASE IsH2
      BY <1>1, <3>2 DEF OneAtATime
    <3> QED
      BY <3>1, <3>2
  <2>8. NothingBeforeSend'
    <3>1. ASSUME NEW d \in Callers, pc'[d] \in {"new", "queued", "readying"}
          PROVE  /\ answer[d] = None /\ d \notin exchange
                 /\ \A i \in 1..Len(channel') : channel'[i] # d
      <4>1. d # c /\ pc[d] \in {"new", "queued", "readying"}
        BY <2>3, <3>1
      <4>2. \A i \in 1..Len(channel) : channel[i] # d
        BY <1>1, <4>1 DEF NothingBeforeSend
      <4>3. ASSUME NEW i \in 1..Len(channel')
            PROVE  channel'[i] # d
        <5>1. i \in 1..Len(channel) \/ i = Len(channel) + 1
          BY <1>2, <2>2
        <5> QED
          BY <2>2, <4>1, <4>2, <5>1
      <4> QED
        BY <1>1, <4>1, <4>3 DEF NothingBeforeSend
    <3>2. ASSUME NEW d \in Callers, pc'[d] = "reading"
          PROVE  answer[d] # None
      BY <1>1, <2>3, <3>2 DEF NothingBeforeSend
    <3> QED
      BY <2>1, <3>1, <3>2 DEF NothingBeforeSend
  <2>9. OwnResponse'
    BY <1>1, <2>1 DEF OwnResponse
  <2> QED
    BY <2>6, <2>7, <2>8, <2>9
\* An exchange that is over: its request was taken, and it is not on the wire.
<1>9. ASSUME NEW c \in Callers, exchange' = exchange \ {c}, answer[c] # None,
             UNCHANGED << negotiated, answer, queue, wanted, channel, wire, conn,
                          broken, asked, handed >>,
             NEW place, place \in {pc[c], "done"}, pc[c] = "reading" \/ place = pc[c],
             pc' = [pc EXCEPT ![c] = place]
      PROVE  Goal
  <2>1. \A d \in Callers : pc'[d] = IF d = c THEN place ELSE pc[d]
    BY <1>1, <1>9 DEF TypeOK
  <2>2. TypeOK'
    BY <1>1, <1>9 DEF TypeOK, Calling
  <2>3. OneAtATime'
    BY <1>1, <1>2, <1>9 DEF OneAtATime
  <2>4. NothingBeforeSend'
    BY <1>1, <1>9, <2>1 DEF NothingBeforeSend
  <2>5. OwnResponse'
    BY <1>1, <1>9 DEF OwnResponse
  <2> QED
    BY <2>2, <2>3, <2>4, <2>5
<1>10. ASSUME NEW c \in Callers, ReadBody(c)
       PROVE  Goal
  <2>1. answer[c] # None
    BY <1>1, <1>10 DEF ReadBody, NothingBeforeSend
  <2> QED
    BY <1>9, <1>10, <2>1 DEF ReadBody, Goto
<1>11. CASE Want
  <2>1. /\ ~IsH2 /\ channel = << >> /\ exchange = {} /\ wanted' = TRUE
        /\ UNCHANGED << negotiated, pc, queue, asked, handed, answer, channel,
                        exchange, wire, conn, broken >>
    BY <1>11 DEF Want, callerVars
  <2>2. TypeOK'
    BY <1>1, <2>1 DEF TypeOK
  <2>3. OneAtATime' /\ NothingBeforeSend' /\ OwnResponse'
    BY <1>1, <2>1 DEF OneAtATime, NothingBeforeSend, OwnResponse
  <2> QED
    BY <2>2, <2>3
\* The request at the head of the channel has no other place.
<1>12. ASSUME NEW c \in Callers, channel # << >>, Head(channel) = c,
              channel' = Tail(channel),
              \/ IsH2 /\ UNCHANGED << exchange, wire >>
              \/ exchange' = exchange \cup {c} /\ wire' = Append(wire, c),
              UNCHANGED << negotiated, pc, queue, asked, handed, answer, wanted, conn,
                           broken >>
       PROVE  Goal
  <2>1. /\ c = channel[1] /\ 1 \in 1..Len(channel)
        /\ channel' \in Seq(Callers) /\ Len(channel') = Len(channel) - 1
        /\ \A i \in 1..Len(channel') :
             i + 1 \in 1..Len(channel) /\ channel'[i] = channel[i + 1]
    BY <1>2, <1>12, TakeEffect
  <2>2. /\ Append(wire, c) \in Seq(Callers) /\ Len(Append(wire, c)) = Len(wire) + 1
        /\ \A i \in 1..Len(wire) : Append(wire, c)[i] = wire[i]
        /\ Append(wire, c)[Len(wire) + 1] = c
    BY <1>2, AppendProperties
  <2>3. pc[c] \notin {"new", "queued", "readying"}
    BY <1>1, <2>1 DEF NothingBeforeSend
  <2>4. TypeOK'
    <3>1. wire' \in Seq(Callers) /\ {exchange', broken'} \subseteq SUBSET Callers
      BY <1>1, <1>2, <1>12, <2>2 DEF TypeOK
    <3>2. ~IsH2' => Len(channel') <= 1
      BY <1>1, <1>2, <2>1 DEF TypeOK
    <3> QED
      BY <1>1, <1>2, <1>12, <2>1, <3>1, <3>2 DEF TypeOK
  <2>5. OneAtATime'
    <3>1. CASE IsH2
      BY <1>1, <3>1 DEF OneAtATime
    <3>2. CASE ~IsH2
      <4>1. /\ exchange = {} /\ Len(channel) = 1 /\ answer[c] = None
            /\ Len(wire) <= 1 /\ \A i \in 1..Len(wire) : wire[i] \in exchange
            /\ wanted = FALSE
        BY <1>1, <1>12, <2>1, <3>2 DEF OneAtATime, TypeOK
      <4>2. Len(wire) = 0
        BY <1>2, <4>1
      <4>3. /\ Len(channel') = 0 /\ exchange' = {c} /\ wanted' = FALSE
            /\ Len(wire') = 1 /\ wire'[1] = c /\ answer'[c] = None
        BY <1>12, <2>1, <2>2, <3>2, <4>1, <4>2
      <4>4. channel' = << >>
        BY <2>1, <4>3, EmptySeq
      <4> QED
        BY <4>3, <4>4 DEF OneAtATime
    <3> QED
      BY <3>1, <3>2
  <2>6. NothingBeforeSend'
    <3>1. ASSUME NEW d \in Callers, pc[d] \in {"new", "queued", "readying"}
          PROVE  /\ answer[d] = None /\ d \notin exchange'
                 /\ \A i \in 1..Len(channel') : channel'[i] # d
      BY <1>1, <1>12, <2>1, <2>3, <3>1 DEF NothingBeforeSend
    <3> QED
      BY <1>1, <1>12, <3>1 DEF NothingBeforeSend
  <2>7. OwnResponse'
    BY <1>1, <1>12 DEF OwnResponse
  <2> QED
    BY <2>4, <2>5, <2>6, <2>7
<1>13. CASE Take
  <2>1. Head(channel) \in Callers
    BY <1>2, <1>13, TakeEffect DEF Take
  <2> QED
    BY <1>12, <1>13, <2>1 DEF Take, callerVars
<1>14. ASSUME NEW how \in {"closed", "refused"}, Close(how), broken' \in SUBSET Callers
       PROVE  Goal
  BY <1>1, <1>14, CloseEffect
<1>15. CASE TakeCancelled
  <2>1. CASE IsH2
    <3>1. Head(channel) \in Callers
      BY <1>2, <1>15, TakeEffect DEF TakeCancelled
    <3> QED
      BY <1>12, <1>15, <2>1, <3>1 DEF TakeCancelled, callerVars
  <2>2. CASE ~IsH2
    BY <1>1, <1>14, <1>15, <2>2 DEF TakeCancelled, TypeOK
  <2> QED
    BY <2>1, <2>2
\* What RemoveFirst does to a wire that holds at most one request.
<1>16. ASSUME NEW c \in Callers, wire' = RemoveFirst(wire, c)
       PROVE  /\ wire' \in Seq(Callers)
              /\ ~IsH2 /\ Len(wire) > 0 /\ wire[1] = c => Len(wire') = 0
  <2>1. /\ wire' \in Seq(Callers)
        /\ \/ wire' = wire /\ \A i \in 1..Len(wire) : wire[i] # c
           \/ Len(wire') = Len(wire) - 1
    BY <1>2, <1>16, RemoveFirstEffect
  <2>2. ~IsH2 => Len(wire) <= 1
    BY <1>1 DEF OneAtATime
  <2> QED
    BY <1>2, <2>1, <2>2
<1>17. ASSUME NEW c \in Callers, NEW asker \in Callers, NEW hasBody \in BOOLEAN,
              Answer(c, asker, hasBody)
       PROVE  Goal
  <2>1. /\ asker \in exchange /\ answer[asker] = None
        /\ answer' = [answer EXCEPT ![asker] = c]
        /\ wire' = RemoveFirst(wire, c)
        /\ exchange' \subseteq exchange
        /\ UNCHANGED << negotiated, pc, queue, asked, handed, wanted, channel, conn,
                        broken >>
    BY <1>17 DEF Answer, callerVars
  <2>2. \A d \in Callers : answer'[d] = IF d = asker THEN c ELSE answer[d]
    BY <1>1, <2>1 DEF TypeOK
  <2>3. c # None
    BY HyperAssumption
  \* HTTP/1.1: what is answered is the one request on the wire, and the one
  \* exchange there is.
  <2>4. ~IsH2 => Len(wire) > 0 /\ wire[1] = c
    <3>1. ~IsH2 => wire # << >> /\ Head(wire) = c
      BY <1>17 DEF Answer
    <3> QED
      BY <1>2, <3>1, TakeEffect, EmptySeq
  <2>5. ~IsH2 => c = asker
    BY <1>1, <1>2, <2>1, <2>4 DEF OneAtATime
  <2>6. IsH2 => c = asker
    BY <1>17 DEF Answer
  <2>7. wire' \in Seq(Callers) /\ (~IsH2 => Len(wire') = 0)
    BY <1>16, <2>1, <2>4
  <2>8. TypeOK'
    BY <1>1, <2>1, <2>7 DEF TypeOK
  <2>9. OneAtATime'
    <3>1. CASE ~IsH2
      <4>1. channel = << >> /\ wanted = FALSE
        BY <1>1, <2>1, <3>1 DEF OneAtATime, TypeOK
      <4> QED
        BY <1>1, <1>2, <2>1, <2>7, <3>1, <4>1 DEF OneAtATime
    <3>2. CASE IsH2
      BY <1>1, <3>2 DEF OneAtATime
    <3> QED
      BY <3>1, <3>2
  <2>10. NothingBeforeSend'
    BY <1>1, <2>1, <2>2, <2>3 DEF NothingBeforeSend
  <2>11. OwnResponse'
    BY <1>1, <2>1, <2>2, <2>5, <2>6 DEF OwnResponse
  <2> QED
    BY <2>8, <2>9, <2>10, <2>11
<1>18. ASSUME NEW c \in Callers, Abandoned(c)
       PROVE  Goal
  <2>1. CASE IsH2
    <3>1. /\ exchange' = exchange \ {c} /\ wire' = RemoveFirst(wire, c)
          /\ UNCHANGED << negotiated, pc, queue, asked, handed, answer, wanted,
                          channel, conn, broken >>
      BY <1>18, <2>1 DEF Abandoned, Forget, callerVars
    <3>2. TypeOK'
      BY <1>1, <1>16, <3>1 DEF TypeOK
    <3>3. OneAtATime' /\ NothingBeforeSend' /\ OwnResponse'
      BY <1>1, <2>1, <3>1 DEF OneAtATime, NothingBeforeSend, OwnResponse
    <3> QED
      BY <3>2, <3>3
  <2>2. CASE ~IsH2
    BY <1>1, <1>14, <1>18, <2>2 DEF Abandoned, Forget, TypeOK
  <2> QED
    BY <2>1, <2>2
<1>19. ASSUME NEW c \in Callers, Drained(c)
       PROVE  Goal
  <2>1. CASE Close("closed")
    BY <1>1, <1>14, <1>19, <2>1 DEF Drained, TypeOK
  <2>2. CASE ~Close("closed")
    <3>1. pc = [pc EXCEPT ![c] = pc[c]]
      BY <1>1 DEF TypeOK
    <3> QED
      BY <1>9, <1>19, <2>2, <3>1 DEF Drained, callerVars
  <2> QED
    BY <2>1, <2>2
<1>20. CASE ServerCloses
  BY <1>1, <1>14, <1>20 DEF ServerCloses, TypeOK
\* A stream that is lost: what the server has yet to answer loses a place, and
\* no caller gets another's answer.
<1>21. ASSUME NEW c \in Callers, IsH2, c \in exchange, LoseStream(c)
       PROVE  Goal
  <2>1. /\ exchange' = exchange \ {c} /\ wire' \in Seq(Callers)
        /\ UNCHANGED << negotiated, pc, queue, asked, handed, wanted, channel, conn >>
    BY <1>16, <1>21 DEF LoseStream, callerVars
  <2>2. /\ answer' \in [Callers -> Callers \cup {None, Error}]
        /\ broken' \in SUBSET Callers
        /\ \A d \in Callers :
             answer'[d] = IF d = c /\ answer[d] = None THEN Error ELSE answer[d]
    BY <1>1, <1>21 DEF LoseStream, TypeOK
  <2>3. TypeOK'
    BY <1>1, <2>1, <2>2 DEF TypeOK
  <2>4. OneAtATime' /\ OwnResponse'
    BY <1>1, <1>21, <2>2 DEF OneAtATime, OwnResponse
  <2>5. NothingBeforeSend'
    BY <1>1, <1>21, <2>1, <2>2, HyperAssumption DEF NothingBeforeSend
  <2> QED
    BY <2>3, <2>4, <2>5
<1>22. ASSUME NEW c \in Callers, BodyFails(c) \/ StreamReset(c)
       PROVE  Goal
  <2>1. CASE IsH2
    BY <1>21, <1>22, <2>1 DEF BodyFails, StreamReset
  <2>2. CASE ~IsH2
    BY <1>1, <1>14, <1>22, <2>2 DEF BodyFails, StreamReset, TypeOK
  <2> QED
    BY <2>1, <2>2
<1>23. CASE UNCHANGED vars
  BY <1>1, <1>23 DEF vars, TypeOK, OneAtATime, NothingBeforeSend, OwnResponse
<1> QED
  BY <1>4, <1>5, <1>6, <1>7, <1>8, <1>10, <1>11, <1>13, <1>15, <1>17, <1>18, <1>19,
     <1>20, <1>22, <1>23 DEF Next, CallerStep, BodyStep, ConnStep, Mishap

-----------------------------------------------------------------------------
(***************************************************************************)
(* The theorems.                                                           *)
(***************************************************************************)

\* The invariant holds at the start.
LEMMA InitIInv == Init => IInv
<1> SUFFICES ASSUME Init
             PROVE  IInv
  OBVIOUS
<1>1. Len(<< >>) = 0 /\ << >> \in Seq(Callers)
  BY EmptySeq
<1>2. /\ \A c \in Callers : pc[c] = "new" /\ answer[c] = None
      /\ queue = << >> /\ channel = << >> /\ wire = << >> /\ exchange = {}
      /\ broken = {} /\ wanted = FALSE
  BY DEF Init
<1>3. TypeOK
  <2>1. {queue, channel, wire, asked, handed} \subseteq Seq(Callers)
    BY <1>1 DEF Init
  <2>2. Len(channel) <= 1
    BY <1>1, <1>2
  <2> QED
    BY <2>1, <2>2 DEF Init, TypeOK
<1>4. LockOrder
  BY <1>1, <1>2 DEF LockOrder, Calling
<1>5. OneAtATime /\ NothingBeforeSend /\ OwnResponse
  BY <1>1, <1>2 DEF OneAtATime, NothingBeforeSend, OwnResponse
<1> QED
  BY <1>3, <1>4, <1>5 DEF IInv

\* The invariant holds in every state.
LEMMA SpecIInv == Spec => []IInv
<1>1. IInv /\ [Next]_vars => IInv'
  BY LockStep, ConnectionStep DEF IInv
<1> QED
  BY InitIInv, <1>1, PTL DEF Spec

\* Whatever the callers, the transport and the peers' agreement, the state keeps
\* its shape; in particular send_request never hands an HTTP/1.1 connection a
\* second request while the first is in the channel (navar-hyper lib.rs:114).
THEOREM TypeCorrect == Spec => []TypeOK
<1>1. IInv => TypeOK
  BY DEF IInv
<1> QED
  BY SpecIInv, <1>1, PTL

\* Whatever was cancelled in the queue, in the channel or in flight, nobody gets
\* the response to another's request: over HTTP/1.1, where responses are told
\* apart by their order alone, the Mutex held until the head of the response
\* (navar-hyper lib.rs:114) leaves the connection one exchange at a time.
THEOREM ResponsesAreOnesOwn == Spec => []OwnResponse
<1>1. IInv => OwnResponse
  BY DEF IInv
<1> QED
  BY SpecIInv, <1>1, PTL

\* No way out of send_request leaks the Mutex, and only its holder is past it.
THEOREM NoLeakedLock == Spec => []LockedByCallers
<1>1. IInv => LockedByCallers
  <2> SUFFICES ASSUME IInv, ~IsH2
               PROVE  /\ \A c \in Callers : pc[c] \in Calling <=> c \in ToSet(queue)
                      /\ \A i \in 2..Len(queue) : pc[queue[i]] = "queued"
    BY DEF LockedByCallers
  <2>1. DOMAIN queue = 1..Len(queue)
    BY LenProperties DEF IInv, TypeOK
  <2> QED
    BY <2>1 DEF IInv, LockOrder, ToSet
<1> QED
  BY SpecIInv, <1>1, PTL

\* Over TLS, whose stream says what ALPN agreed on, "auto" makes a connection
\* agreed to be "h2" one for HTTP/2 (navar-hyper lib.rs:164): no
\* caller ever waits for a turn.  The assumption is needed: see hyper_iroh.
THEOREM H2IsPreferredOverTls ==
  ASSUME Transport = "tls"
  PROVE  Spec => []PrefersH2
<1>1. IInv => PrefersH2
  <2> SUFFICES ASSUME IInv, Protocol = "auto", negotiated = "h2"
               PROVE  queue = << >>
    BY DEF PrefersH2
  <2>1. IsH2
    BY DEF IsH2, UseH2, StreamAlpn
  <2> QED
    BY <2>1 DEF IInv, LockOrder
<1> QED
  BY SpecIInv, <1>1, PTL
=============================================================================
