--------------------------- MODULE H3ExchangeProofs ---------------------------
(***************************************************************************)
(* What an HTTP/3 exchange guarantees for every request body, every        *)
(* response and every way in which the transport cuts them.                *)
(***************************************************************************)
EXTENDS H3Exchange, RequestBody, SequenceTheorems, TLAPS

Bytes0 == Units \cup {Head0}

-----------------------------------------------------------------------------
(***************************************************************************)
(* The sending side: the inductive invariant is that of types, with those  *)
(* of the body, and that nothing is lost between send_data and the wire.   *)
(***************************************************************************)
SendInv ==
  /\ request \in Seq(Frames) /\ body \in Seq(Frames)
  /\ sendBuf \in Seq(Bytes0) /\ sent \in Seq(Bytes0) /\ wire \in Seq(Bytes0)
  /\ fin \in BOOLEAN
  /\ pc \in {"opening", "frame", "response", "reading"} \cup Draining \cup Over
  /\ WritesKeepOrder

\* The library's facts about concatenation, of an operator of our own: the
\* provers then build no sequences but those a proof names.
Cat(a, b) == a \o b

LEMMA CatAssociative ==
  \A S : \A a, b, c \in Seq(S) : Cat(Cat(a, b), c) = Cat(a, Cat(b, c))
  BY ConcatAssociative, Zenon DEF Cat

LEMMA CatProperties ==
  \A S : \A a, b \in Seq(S) :
    /\ Cat(a, b) \in Seq(S) /\ Len(Cat(a, b)) = Len(a) + Len(b)
    /\ \A i \in 1..Len(a) + Len(b) :
         Cat(a, b)[i] = IF i <= Len(a) THEN a[i] ELSE b[i - Len(a)]
  BY ConcatProperties, Zenon DEF Cat

\* What write takes off the buffer joins the wire, and the order stays.
LEMMA CutAnywhere ==
  ASSUME NEW S, NEW s \in Seq(S), NEW w \in Seq(S), NEW n \in 1..Len(s)
  PROVE  /\ SubSeq(s, 1, n) \in Seq(S) /\ SubSeq(s, n + 1, Len(s)) \in Seq(S)
         /\ w \o SubSeq(s, 1, n) \in Seq(S)
         /\ (w \o SubSeq(s, 1, n)) \o SubSeq(s, n + 1, Len(s)) = w \o s
<1>1. Len(s) \in Nat /\ n \in Nat /\ \A i \in 1..Len(s) : s[i] \in S
  BY LenProperties, ElementOfSeq
<1>2. SubSeq(s, 1, n) \in Seq(S) /\ SubSeq(s, n + 1, Len(s)) \in Seq(S)
  <2>1. \A i \in 1..n : s[i] \in S
    BY <1>1
  <2>2. \A i \in n + 1..Len(s) : s[i] \in S
    BY <1>1
  <2> QED
    BY <1>1, <2>1, <2>2, SubSeqProperties
<1>3. SubSeq(s, 1, n) \o SubSeq(s, n + 1, Len(s)) = s
  <2>1. 1 \in 1..Len(s) + 1 /\ n \in 1 - 1..Len(s) /\ Len(s) \in n..Len(s)
    BY <1>1
  <2>2. SubSeq(s, 1, n) \o SubSeq(s, n + 1, Len(s)) = SubSeq(s, 1, Len(s))
    BY <2>1, ConcatAdjacentSubSeq, Zenon
  <2>3. SubSeq(s, 1, Len(s)) = s
    BY SubSeqFull
  <2> QED
    BY <2>2, <2>3
<1> DEFINE a == SubSeq(s, 1, n)
           b == SubSeq(s, n + 1, Len(s))
<1>4. a \in Seq(S) /\ b \in Seq(S)
  BY <1>2
<1>5. Cat(a, b) = s
  BY <1>3 DEF Cat
<1> HIDE DEF a, b
<1>6. Cat(w, a) \in Seq(S) /\ Cat(Cat(w, a), b) = Cat(w, s)
  BY <1>4, <1>5, CatProperties, CatAssociative
<1> QED
  BY <1>4, <1>6 DEF Cat, a, b

LEMMA SendInit == Init => SendInv
<1> SUFFICES ASSUME Init PROVE SendInv
  OBVIOUS
<1>1. << >> \in Seq(Bytes0) /\ << >> \o << >> = << >>
  BY EmptySeq, ConcatEmptySeq
<1>2. request \in Seq(Frames)
  BY H3Assumption DEF Init
<1> QED
  BY <1>1, <1>2 DEF Init, SendInv, WritesKeepOrder

\* Giving bytes to send_data keeps the invariant.
LEMMA SendDataKeeps ==
  ASSUME SendInv, pc \notin Over, NEW bytes \in Seq(Bytes0),
         NEW place \in Draining, SendData(bytes, place),
         body' \in Seq(Frames)
  PROVE  SendInv'
<1>1. /\ sendBuf \in Seq(Bytes0) /\ wire \in Seq(Bytes0) /\ sent \in Seq(Bytes0)
      /\ sent = wire \o sendBuf
  BY DEF SendInv, WritesKeepOrder
<1>2. sendBuf' = sendBuf \o bytes /\ sent' = sent \o bytes /\ wire' = wire
  BY DEF SendData
<1>3. Cat(sendBuf, bytes) \in Seq(Bytes0) /\ Cat(sent, bytes) \in Seq(Bytes0)
  BY <1>1, CatProperties
<1>4. Cat(Cat(wire, sendBuf), bytes) = Cat(wire, Cat(sendBuf, bytes))
  BY <1>1, CatAssociative
<1>5. sendBuf' \in Seq(Bytes0) /\ sent' \in Seq(Bytes0) /\ sent' = wire' \o sendBuf'
  BY <1>1, <1>2, <1>3, <1>4 DEF Cat
<1> QED
  BY <1>5 DEF SendInv, SendData, WritesKeepOrder, Draining

\* Dropping the stream ends the exchange.
LEMMA DropStreamKeeps ==
  ASSUME SendInv, NEW outcome \in Over, DropStream(outcome)
  PROVE  SendInv'
<1>1. << >> \in Seq(Bytes0)
  BY EmptySeq
<1> QED
  BY <1>1 DEF SendInv, DropStream, WritesKeepOrder

LEMMA SendNext == SendInv /\ [Next]_vars => SendInv'
<1> SUFFICES ASSUME SendInv, [Next]_vars PROVE SendInv'
  OBVIOUS
<1> USE DEF Draining, Over
<1>1. CASE Opened
  <2>1. << Head0 >> \in Seq(Bytes0)
    BY DEF Bytes0
  <2>2. body' \in Seq(Frames) /\ pc \notin Over
    BY <1>1 DEF Opened, SendInv
  <2> QED
    BY <1>1, <2>1, <2>2, SendDataKeeps DEF Opened
<1>2. CASE Write
  <2>1. PICK n \in 1..Len(sendBuf) :
          wire' = wire \o SubSeq(sendBuf, 1, n) /\ sendBuf' = SubSeq(sendBuf, n + 1, Len(sendBuf))
    BY <1>2 DEF Write, Advance
  <2>2. sendBuf \in Seq(Bytes0) /\ wire \in Seq(Bytes0) /\ sent = wire \o sendBuf
    BY <1>2 DEF SendInv, WritesKeepOrder, Write
  <2>3. wire' \in Seq(Bytes0) /\ sendBuf' \in Seq(Bytes0) /\ wire' \o sendBuf' = wire \o sendBuf
    <3>1. /\ SubSeq(sendBuf, n + 1, Len(sendBuf)) \in Seq(Bytes0)
          /\ wire \o SubSeq(sendBuf, 1, n) \in Seq(Bytes0)
          /\ (wire \o SubSeq(sendBuf, 1, n)) \o SubSeq(sendBuf, n + 1, Len(sendBuf))
               = wire \o sendBuf
      BY <2>2, CutAnywhere
    <3>2. wire' = wire \o SubSeq(sendBuf, 1, n)
      BY <2>1
    <3>3. sendBuf' = SubSeq(sendBuf, n + 1, Len(sendBuf))
      BY <2>1
    <3> QED
      BY <3>1, <3>2, <3>3, Zenon
  <2>4. UNCHANGED << request, body, pc, sent, fin >>
    BY <1>2 DEF Write
  <2> QED
    BY <2>2, <2>3, <2>4 DEF SendInv, WritesKeepOrder
<1>3. CASE SendFrame
  <2>1. body \in Seq(Frames) /\ body # << >>
    BY <1>3 DEF SendFrame, SendInv
  <2>2. Head(body) \in Frames /\ Tail(body) \in Seq(Frames)
    BY <2>1, HeadTailProperties
  <2>3. Head(body).chunks \in Seq(Seq(Units))
    BY <1>3, <2>2 DEF SendFrame, Frames
  <2>4. FirstChunk(Head(body)) \in Seq(Units)
    <3>1. << >> \in Seq(Units)
      BY EmptySeq
    <3>2. Head(body).chunks # << >> => Head(Head(body).chunks) \in Seq(Units)
      BY <2>3, HeadTailProperties
    <3> QED
      BY <3>1, <3>2 DEF FirstChunk
  <2>5. FirstChunk(Head(body)) \in Seq(Bytes0)
    BY <2>4, SeqMonotonic DEF Bytes0
  <2>6. body' \in Seq(Frames) /\ pc \notin Over
    BY <1>3, <2>2 DEF SendFrame
  <2> QED
    BY <1>3, <2>5, <2>6, SendDataKeeps DEF SendFrame
<1>4. CASE SkipFrame
  <2>1. Tail(body) \in Seq(Frames)
    BY <1>4, HeadTailProperties DEF SkipFrame, SendInv
  <2> QED
    BY <1>4, <2>1 DEF SkipFrame, SkipTrailers, SendInv, WritesKeepOrder
<1>5. CASE BodyFails
  BY <1>5, DropStreamKeeps DEF BodyFails
<1>6. CASE SendFails
  BY <1>6, DropStreamKeeps DEF SendFails
<1>7. CASE ReadEnd
  BY <1>7, DropStreamKeeps DEF ReadEnd
<1>8. CASE ReadFails
  BY <1>8, DropStreamKeeps DEF ReadFails, Broken
<1>9. CASE Drop
  BY <1>9, DropStreamKeeps DEF Drop
\* The other steps of the client only move on.
<1>10. CASE Drained \/ BodyEnds \/ Finish \/ Responded
  BY <1>10 DEF Drained, BodyEnds, Finish, Responded, sendVars, SendInv, WritesKeepOrder
<1>11. CASE OpenFails
  BY <1>11 DEF OpenFails, sendVars, SendInv, WritesKeepOrder
<1>12. CASE ReadData \/ ServerStep \/ StreamBreaks
  BY <1>12 DEF ReadData, ServerStep, ServerAnswers, ServerSends, ServerEnds, StreamBreaks,
     sendVars, SendInv, WritesKeepOrder
<1>13. CASE UNCHANGED vars
  BY <1>13 DEF vars, SendInv, WritesKeepOrder
<1> QED
  BY <1>1, <1>2, <1>3, <1>4, <1>5, <1>6, <1>7, <1>8, <1>9, <1>10, <1>11, <1>12, <1>13
     DEF Next, ClientStep, Ended

LEMMA SendInvHolds == Spec => []SendInv
  BY SendInit, SendNext, PTL DEF Spec

\* However the transport cuts the writes, what it took and what is buffered are,
\* in order, what send_data was given.
THEOREM NoByteLostOrRepeated == Spec => []WritesKeepOrder
  BY SendInvHolds, PTL DEF SendInv

-----------------------------------------------------------------------------
(***************************************************************************)
(* The whole request.  What was given to send_data, followed by the frames *)
(* not yet polled, is always the whole request.  It needs every data frame *)
(* to be in one piece: of the others only the first piece is sent.         *)
(***************************************************************************)

\* The frames whose data is in one piece, or empty.
ContiguousFrames == {f \in Frames : f.kind = "data" => Len(f.chunks) <= 1}

\* What begins with `bytes` and goes on with the data of `frames`.
Folded == INSTANCE SequenceFolds WITH Op <- WithFrame
After(bytes, frames) == Folded!Fold(bytes, frames)

\* The facts about FoldLeft that are needed, for WithFrame.
LEMMA AfterIsFoldLeft ==
  \A bytes, frames : After(bytes, frames) = FoldLeft(WithFrame, bytes, frames)
  BY Zenon DEF After, Folded!Fold, Folded!FoldLeft, FoldLeft,
     Folded!MapThenFoldSet, MapThenFoldSet, Folded!Max, Max

LEMMA AfterNothing == \A bytes : After(bytes, << >>) = bytes
  BY Folded!FoldOfEmpty DEF After

LEMMA AfterHead ==
  \A bytes : \A frames \in Seq(ContiguousFrames) :
    frames # << >> =>
      After(bytes, frames) = After(WithFrame(bytes, Head(frames)), Tail(frames))
  BY Folded!FoldOfHead DEF After

LEMMA AfterAppend ==
  \A bytes : \A frames \in Seq(ContiguousFrames), frame \in ContiguousFrames :
    After(bytes, Append(frames, frame)) = WithFrame(After(bytes, frames), frame)
  BY Folded!FoldOfAppend DEF After

\* The pieces of a frame that has one or none.
LEMMA OnePiece ==
  ASSUME NEW chunks \in Seq(Seq(Units)), Len(chunks) <= 1
  PROVE  FlattenSeq(chunks) = IF chunks = << >> THEN << >> ELSE Head(chunks)
<1>1. CASE chunks = << >>
  <2>1. Len(chunks) = 0
    BY <1>1
  <2> QED
    BY <1>1, <2>1, Zenon DEF FlattenSeq
<1>2. CASE chunks # << >>
  <2>1. Len(chunks) = 1 /\ Len(chunks) # 0
    <3>1. Len(chunks) \in Nat
      BY LenProperties
    <3>2. Len(chunks) # 0
      BY <1>2, EmptySeq
    <3>3. \A n \in Nat : n <= 1 /\ n # 0 => n = 1
      OBVIOUS
    <3> QED
      BY <3>1, <3>2, <3>3, Zenon
  <2>2. Head(chunks) = chunks[1]
    BY <2>1
  <2> DEFINE Flat(f) ==
        f = [i \in 1..1 |-> IF i = 1 THEN chunks[i] ELSE f[i - 1] \o chunks[i]]
             g == CHOOSE f : Flat(f)
  <2>3. Flat([i \in 1..1 |-> chunks[1]])
    OBVIOUS
  <2>4. Flat(g)
    BY <2>3, Zenon
  <2>5. FlattenSeq(chunks) = g[1]
    BY <2>1, Zenon DEF FlattenSeq
  <2> HIDE DEF g
  <2>6. g[1] = chunks[1]
    BY <2>4
  <2> QED
    BY <1>2, <2>2, <2>5, <2>6, Zenon
<1> QED
  BY <1>1, <1>2

\* What a frame adds to the body.
Piece(frame) == IF frame.kind = "data" THEN FirstChunk(frame) ELSE << >>

LEMMA PieceOfFrame ==
  ASSUME NEW frame \in ContiguousFrames
  PROVE  /\ Piece(frame) \in Seq(Bytes0)
         /\ \A bytes \in Seq(Bytes0) : WithFrame(bytes, frame) = Cat(bytes, Piece(frame))
<1>1. << >> \in Seq(Bytes0) /\ \A bytes \in Seq(Bytes0) : bytes = Cat(bytes, << >>)
  BY EmptySeq, ConcatEmptySeq DEF Cat
<1>2. CASE frame.kind = "data"
  <2>1. frame.chunks \in Seq(Seq(Units)) /\ Len(frame.chunks) <= 1
    BY <1>2 DEF ContiguousFrames, Frames
  <2>2. FlattenSeq(frame.chunks) = FirstChunk(frame)
    BY <2>1, OnePiece DEF FirstChunk
  <2>3. FirstChunk(frame) \in Seq(Units)
    <3>1. << >> \in Seq(Units)
      BY EmptySeq
    <3>2. frame.chunks # << >> => Head(frame.chunks) \in Seq(Units)
      BY <2>1, HeadTailProperties
    <3> QED
      BY <3>1, <3>2 DEF FirstChunk
  <2>4. FirstChunk(frame) \in Seq(Bytes0)
    BY <2>3, SeqMonotonic DEF Bytes0
  <2>5. Piece(frame) = FirstChunk(frame)
    BY <1>2 DEF Piece
  <2>6. \A bytes : WithFrame(bytes, frame) = bytes \o FirstChunk(frame)
    BY <1>2, <2>2, Zenon DEF WithFrame
  <2> QED
    BY <2>4, <2>5, <2>6, Zenon DEF Cat
<1>3. CASE frame.kind # "data"
  BY <1>1, <1>3, Zenon DEF Piece, WithFrame
<1> QED
  BY <1>2, <1>3

\* The bytes of a body do not depend on what goes before them.
LEMMA AfterIsCat ==
  ASSUME NEW frames \in Seq(ContiguousFrames)
  PROVE  /\ After(<< >>, frames) \in Seq(Bytes0)
         /\ \A bytes \in Seq(Bytes0) : After(bytes, frames) = Cat(bytes, After(<< >>, frames))
<1> DEFINE Separate(fs) ==
             /\ After(<< >>, fs) \in Seq(Bytes0)
             /\ \A bytes \in Seq(Bytes0) : After(bytes, fs) = Cat(bytes, After(<< >>, fs))
           P == {fs \in Seq(ContiguousFrames) : Separate(fs)}
<1>0. << >> \in Seq(Bytes0) /\ << >> \in Seq(ContiguousFrames)
  BY EmptySeq
<1>1. << >> \in P
  <2>1. \A bytes \in Seq(Bytes0) : Cat(bytes, << >>) = bytes
    BY ConcatEmptySeq DEF Cat
  <2>2. Separate(<< >>)
    BY <1>0, <2>1, AfterNothing
  <2> QED
    BY <1>0, <2>2, Zenon
<1>2. ASSUME NEW fs \in Seq(ContiguousFrames), NEW f \in ContiguousFrames, fs \in P
      PROVE  Append(fs, f) \in P
  <2>1. /\ After(<< >>, fs) \in Seq(Bytes0)
        /\ \A bytes \in Seq(Bytes0) : After(bytes, fs) = Cat(bytes, After(<< >>, fs))
    BY <1>2
  <2>2. /\ Piece(f) \in Seq(Bytes0)
        /\ \A bytes \in Seq(Bytes0) : WithFrame(bytes, f) = Cat(bytes, Piece(f))
    BY PieceOfFrame
  <2>3. \A bytes : After(bytes, Append(fs, f)) = WithFrame(After(bytes, fs), f)
    BY AfterAppend
  <2>4. After(<< >>, Append(fs, f)) = Cat(After(<< >>, fs), Piece(f))
    BY <2>1, <2>2, <2>3, Zenon
  <2>5. After(<< >>, Append(fs, f)) \in Seq(Bytes0)
    BY <2>1, <2>2, <2>4, CatProperties
  <2>6. ASSUME NEW bytes \in Seq(Bytes0)
        PROVE  After(bytes, Append(fs, f)) = Cat(bytes, After(<< >>, Append(fs, f)))
    <3>1. Cat(bytes, After(<< >>, fs)) \in Seq(Bytes0)
      BY <2>1, CatProperties
    <3>2. After(bytes, Append(fs, f)) = Cat(Cat(bytes, After(<< >>, fs)), Piece(f))
      BY <2>1, <2>2, <2>3, <3>1, Zenon
    <3>3. Cat(Cat(bytes, After(<< >>, fs)), Piece(f))
            = Cat(bytes, Cat(After(<< >>, fs), Piece(f)))
      BY <2>1, <2>2, CatAssociative
    <3> QED
      BY <2>4, <3>2, <3>3, Zenon
  <2>7. Separate(Append(fs, f))
    BY <2>5, <2>6, Zenon
  <2>8. Append(fs, f) \in Seq(ContiguousFrames)
    BY AppendProperties
  <2> QED
    BY <2>7, <2>8, Zenon
<1> HIDE DEF P
<1>3. frames \in P
  BY <1>1, <1>2, Folded!SequencesByInduction
<1> QED
  BY <1>3, Zenon DEF P

\* Once the stream is open: what was sent and the frames to come are the request;
\* past the loop over the frames there are none, and past finish all is written.
Sending == {"head", "data", "frame", "finish", "response", "reading"}
RequestInv ==
  /\ request \in Seq(ContiguousFrames) /\ body \in Seq(ContiguousFrames)
  /\ pc = "opening" => body = request /\ sent = << >>
  /\ pc \in Sending => After(sent, body) = After(<< Head0 >>, request)
  /\ pc \in {"finish", "response", "reading"} => body = << >>
  /\ pc \in {"response", "reading"} => sendBuf = << >>

\* The request begins as one of the bodies considered.
LEMMA RequestInit ==
  ASSUME Bodies \subseteq Seq(ContiguousFrames)
  PROVE  Init => RequestInv
  BY DEF Init, RequestInv, Sending

\* Sending a frame moves its bytes from the frames to come to those sent; a frame of
\* trailers has none; nothing else touches either.
LEMMA RequestNext == SendInv /\ RequestInv /\ [Next]_vars => RequestInv'
<1> SUFFICES ASSUME SendInv, RequestInv, [Next]_vars PROVE RequestInv'
  OBVIOUS
<1> USE DEF Draining, Over, Sending
<1>1. CASE Opened
  <2>1. sent = << >> /\ body = request /\ request \in Seq(ContiguousFrames)
    BY <1>1 DEF Opened, RequestInv
  <2>2. sent' = << Head0 >>
    <3>1. << Head0 >> \in Seq(Bytes0)
      BY DEF Bytes0
    <3>2. << >> \o << Head0 >> = << Head0 >>
      BY <3>1, ConcatEmptySeq
    <3> QED
      BY <1>1, <2>1, <3>2 DEF Opened, SendData
  <2>3. request' = request /\ body' = body /\ pc' = "head"
    BY <1>1 DEF Opened, SendData
  <2> QED
    BY <2>1, <2>2, <2>3 DEF RequestInv
<1>2. CASE SendFrame
  <2>1. body \in Seq(ContiguousFrames) /\ body # << >> /\ pc = "frame"
    BY <1>2 DEF SendFrame, RequestInv
  <2>2. Head(body) \in ContiguousFrames /\ Tail(body) \in Seq(ContiguousFrames)
    BY <2>1, HeadTailProperties
  <2>3. After(sent, body) = After(WithFrame(sent, Head(body)), Tail(body))
    BY <2>1, AfterHead
  <2>4. sent \in Seq(Bytes0)
    BY DEF SendInv
  <2>5. WithFrame(sent, Head(body)) = Cat(sent, FirstChunk(Head(body)))
    <3>1. Head(body).kind = "data"
      BY <1>2 DEF SendFrame
    <3>2. Piece(Head(body)) = FirstChunk(Head(body))
      BY <3>1, Zenon DEF Piece
    <3> QED
      BY <2>2, <2>4, <3>2, PieceOfFrame, Zenon
  <2>6. sent' = Cat(sent, FirstChunk(Head(body))) /\ body' = Tail(body)
        /\ request' = request /\ pc' = "data"
    BY <1>2 DEF SendFrame, SendData, Cat
  <2>7. After(sent', body') = After(<< Head0 >>, request')
    BY <2>1, <2>3, <2>5, <2>6 DEF RequestInv
  <2> QED
    BY <2>2, <2>6, <2>7 DEF RequestInv
<1>3. CASE SkipFrame
  <2>1. body \in Seq(ContiguousFrames) /\ body # << >> /\ pc = "frame"
    BY <1>3 DEF SkipFrame, RequestInv
  <2>2. Tail(body) \in Seq(ContiguousFrames)
    BY <2>1, HeadTailProperties
  <2>3. After(sent, body) = After(WithFrame(sent, Head(body)), Tail(body))
    BY <2>1, AfterHead
  <2>4. WithFrame(sent, Head(body)) = sent
    BY <1>3 DEF SkipFrame, WithFrame
  <2>5. sent' = sent /\ body' = Tail(body) /\ request' = request /\ pc' = "frame"
    BY <1>3 DEF SkipFrame, SkipTrailers
  <2>6. After(sent', body') = After(<< Head0 >>, request')
    BY <2>1, <2>3, <2>4, <2>5 DEF RequestInv
  <2> QED
    BY <2>2, <2>5, <2>6 DEF RequestInv
<1>4. CASE Write
  BY <1>4 DEF Write, RequestInv
<1>5. CASE BodyFails \/ SendFails \/ ReadEnd \/ ReadFails \/ Drop
  BY <1>5 DEF BodyFails, SendFails, ReadEnd, ReadFails, Broken, Drop, DropStream, RequestInv
<1>6. CASE Drained \/ BodyEnds \/ Finish \/ Responded
  BY <1>6 DEF Drained, BodyEnds, Finish, Responded, sendVars, RequestInv
<1>7. CASE OpenFails
  BY <1>7 DEF OpenFails, sendVars, RequestInv
<1>8. CASE ReadData \/ ServerStep \/ StreamBreaks
  BY <1>8 DEF ReadData, ServerStep, ServerAnswers, ServerSends, ServerEnds, StreamBreaks,
     sendVars, RequestInv
<1>9. CASE UNCHANGED vars
  BY <1>9 DEF vars, RequestInv
<1> QED
  BY <1>1, <1>2, <1>3, <1>4, <1>5, <1>6, <1>7, <1>8, <1>9 DEF Next, ClientStep, Ended

\* When send_request begins to wait for the response, all the data of the request has
\* left ("Sends a request and asynchronously returns the corresponding response"), for
\* any bodies whose frames are in one piece each; frames of trailers, which are
\* discarded wherever they are, cost none of it.
THEOREM AllDataLeaves ==
  ASSUME Bodies \subseteq Seq(ContiguousFrames)
  PROVE  Spec => []AllDataSent
<1>1. SendInv /\ RequestInv => AllDataSent
  <2> SUFFICES ASSUME SendInv, RequestInv, pc \in {"response", "reading"}
               PROVE  wire = << Head0 >> \o Bytes(request)
    BY DEF AllDataSent
  <2>1. wire \in Seq(Bytes0) /\ sent = wire \o sendBuf
    BY DEF SendInv, WritesKeepOrder, Over
  <2>2. sendBuf = << >> /\ body = << >> /\ After(sent, body) = After(<< Head0 >>, request)
    BY DEF RequestInv, Sending
  <2>3. sent = wire
    BY <2>1, <2>2, ConcatEmptySeq
  <2>4. wire = After(<< Head0 >>, request)
    BY <2>2, <2>3, AfterNothing
  <2>5. << Head0 >> \in Seq(Bytes0) /\ request \in Seq(ContiguousFrames)
    BY DEF RequestInv, Bytes0
  <2>6. After(<< Head0 >>, request) = Cat(<< Head0 >>, After(<< >>, request))
    BY <2>5, AfterIsCat
  <2>7. After(<< >>, request) = Bytes(request)
    BY AfterIsFoldLeft, Zenon DEF Bytes
  <2> QED
    BY <2>4, <2>6, <2>7, Zenon DEF Cat
<1> QED
  BY <1>1, SendInvHolds, RequestInit, RequestNext, PTL DEF Spec

\* Every body that the methods of the request builder attach is of that kind: text,
\* bytes and json give one frame in one piece or none, ndjson one for each value, and
\* an error for one that cannot be serialized.
THEOREM BuiltBodiesAreContiguous ==
  ASSUME NewLine \in Units, Unserializable \notin Seq(Units)
  PROVE  /\ EmptyBody \in Seq(ContiguousFrames)
         /\ \A texts \in SUBSET Seq(Units) : FromBytes(texts) \subseteq Seq(ContiguousFrames)
         /\ \A values \in SUBSET (Seq(Units) \cup {Unserializable}) :
              FromJson(values) \subseteq Seq(ContiguousFrames)
         /\ \A values \in Seq(Seq(Units) \cup {Unserializable}) :
              FromNdjson(values) \in Seq(ContiguousFrames)
<1>1. EmptyBody \in Seq(ContiguousFrames)
  BY EmptySeq DEF EmptyBody
<1>2. ASSUME NEW bytes \in Seq(Units)
      PROVE  Frame(<< bytes >>) \in ContiguousFrames
  <2>1. << bytes >> \in Seq(Seq(Units)) /\ Len(<< bytes >>) = 1
    OBVIOUS
  <2>2. \A chunks \in Seq(Seq(Units)) : Frame(chunks) \in Frames
    BY DEF Frame, Frames
  <2>3. Frame(<< bytes >>).chunks = << bytes >>
    BY Zenon DEF Frame
  <2>4. Len(Frame(<< bytes >>).chunks) <= 1
    <3>1. 1 <= 1
      OBVIOUS
    <3> QED
      BY <2>1, <2>3, <3>1, Zenon
  <2> QED
    BY <2>1, <2>2, <2>4, Zenon DEF ContiguousFrames
<1>3. \A bytes \in Seq(Units) : Full(bytes) \in Seq(ContiguousFrames)
  <2> SUFFICES ASSUME NEW bytes \in Seq(Units) PROVE Full(bytes) \in Seq(ContiguousFrames)
    OBVIOUS
  <2>1. << >> \in Seq(ContiguousFrames)
    BY EmptySeq
  <2>2. \A f \in ContiguousFrames : << f >> \in Seq(ContiguousFrames)
    OBVIOUS
  <2> QED
    BY <1>2, <2>1, <2>2, Zenon DEF Full
<1>4. ASSUME NEW value \in Seq(Units) \cup {Unserializable}
      PROVE  Line(value) \in ContiguousFrames
  <2>1. CASE value = Unserializable
    BY <2>1 DEF Line, ErrorFrame, ContiguousFrames, Frames
  <2>2. CASE value # Unserializable
    <3>1. Append(value, NewLine) \in Seq(Units)
      BY <2>2, AppendProperties
    <3> QED
      BY <1>2, <2>2, <3>1, Zenon DEF Line
  <2> QED
    BY <2>1, <2>2
<1>5. ASSUME NEW values \in Seq(Seq(Units) \cup {Unserializable})
      PROVE  FromNdjson(values) \in Seq(ContiguousFrames)
  <2>1. DOMAIN values = 1..Len(values) /\ Len(values) \in Nat
    BY LenProperties
  <2>2. \A i \in 1..Len(values) : values[i] \in Seq(Units) \cup {Unserializable}
    BY ElementOfSeq
  <2>3. FromNdjson(values) = [i \in 1..Len(values) |-> Line(values[i])]
    BY <2>1 DEF FromNdjson
  <2>4. \A i \in 1..Len(values) : Line(values[i]) \in ContiguousFrames
    BY <1>4, <2>2
  <2>5. [i \in 1..Len(values) |-> Line(values[i])] \in Seq(ContiguousFrames)
    BY <2>1, <2>4, IsASeq
  <2> QED
    BY <2>3, <2>5
<1>6. ASSUME NEW texts \in SUBSET Seq(Units)
      PROVE  FromBytes(texts) \subseteq Seq(ContiguousFrames)
  BY <1>3 DEF FromBytes
<1>7. ASSUME NEW values \in SUBSET (Seq(Units) \cup {Unserializable})
      PROVE  FromJson(values) \subseteq Seq(ContiguousFrames)
  BY <1>3 DEF FromJson
<1> QED
  BY <1>1, <1>5, <1>6, <1>7

-----------------------------------------------------------------------------
(***************************************************************************)
(* The receiving side.  The inductive invariant places what the reader has *)
(* and what the transport has for it at the front of the response, one     *)
(* behind the other; once the server has ended there is nothing more.      *)
(***************************************************************************)
ReceiveInv ==
  /\ response \in Seq(Units) /\ inbox \in Seq(Units) /\ got \in Seq(Units)
  /\ server \in {"reading", "answering", "ended", "broken"}
  /\ Len(got) + Len(inbox) <= Len(response)
  /\ \A i \in 1..Len(got) : got[i] = response[i]
  /\ \A i \in 1..Len(inbox) : inbox[i] = response[Len(got) + i]
  /\ server = "ended" => Len(got) + Len(inbox) = Len(response)
  /\ pc = "done" => got = response

LEMMA ReceiveInit == Init => ReceiveInv
<1> SUFFICES ASSUME Init PROVE ReceiveInv
  OBVIOUS
<1>1. << >> \in Seq(Units) /\ Len(<< >>) = 0
  BY EmptySeq
<1>2. response \in Seq(Units) /\ Len(response) \in Nat
  BY H3Assumption, LenProperties DEF Init
<1> QED
  BY <1>1, <1>2 DEF Init, ReceiveInv

\* What is read off a sequence, and what is left of it.
LEMMA Prefix ==
  ASSUME NEW S, NEW s \in Seq(S), NEW n \in 1..Len(s)
  PROVE  /\ SubSeq(s, 1, n) \in Seq(S) /\ Len(SubSeq(s, 1, n)) = n
         /\ \A i \in 1..n : SubSeq(s, 1, n)[i] = s[i]
<1>1. Len(s) \in Nat /\ n \in Int /\ 1 \in Int /\ 1 <= n
  BY LenProperties
<1>2. \A i \in 1..n : i \in 1..Len(s) /\ 1 + i - 1 = i
  BY <1>1
<1>3. \A i \in 1..n : s[i] \in S
  BY <1>2, ElementOfSeq
<1>4. /\ SubSeq(s, 1, n) \in Seq(S)
      /\ Len(SubSeq(s, 1, n)) = IF 1 <= n THEN n - 1 + 1 ELSE 0
      /\ \A i \in 1..n - 1 + 1 : SubSeq(s, 1, n)[i] = s[1 + i - 1]
  BY <1>1, <1>3, SubSeqProperties
<1>5. n - 1 + 1 = n
  BY <1>1
<1> QED
  BY <1>1, <1>2, <1>4, <1>5

LEMMA Suffix ==
  ASSUME NEW S, NEW s \in Seq(S), NEW n \in 0..Len(s)
  PROVE  /\ SubSeq(s, n + 1, Len(s)) \in Seq(S)
         /\ Len(SubSeq(s, n + 1, Len(s))) = Len(s) - n
         /\ \A i \in 1..Len(s) - n : SubSeq(s, n + 1, Len(s))[i] = s[n + i]
<1>1. Len(s) \in Nat /\ n \in Nat /\ n + 1 \in Int
  BY LenProperties
<1>2. \A i \in n + 1..Len(s) : i \in 1..Len(s)
  BY <1>1
<1>3. \A i \in n + 1..Len(s) : s[i] \in S
  BY <1>2, ElementOfSeq
<1>4. /\ SubSeq(s, n + 1, Len(s)) \in Seq(S)
      /\ Len(SubSeq(s, n + 1, Len(s)))
           = IF n + 1 <= Len(s) THEN Len(s) - (n + 1) + 1 ELSE 0
      /\ \A i \in 1..Len(s) - (n + 1) + 1 :
           SubSeq(s, n + 1, Len(s))[i] = s[n + 1 + i - 1]
  BY <1>1, <1>3, SubSeqProperties
<1>5. /\ Len(s) - (n + 1) + 1 = Len(s) - n
      /\ ~(n + 1 <= Len(s)) => Len(s) - n = 0
      /\ \A i \in 1..Len(s) - n : n + 1 + i - 1 = n + i
  BY <1>1
<1> QED
  BY <1>4, <1>5

\* A prefix of one sequence moves to the end of another.
LEMMA AppendPrefix ==
  ASSUME NEW S, NEW a \in Seq(S), NEW b \in Seq(S), NEW n \in 1..Len(b)
  PROVE  /\ a \o SubSeq(b, 1, n) \in Seq(S) /\ Len(a \o SubSeq(b, 1, n)) = Len(a) + n
         /\ \A i \in 1..Len(a) + n :
              (a \o SubSeq(b, 1, n))[i] = IF i <= Len(a) THEN a[i] ELSE b[i - Len(a)]
<1> DEFINE front == SubSeq(b, 1, n)
<1>1. front \in Seq(S) /\ Len(front) = n /\ \A i \in 1..n : front[i] = b[i]
  BY Prefix
<1>2. Len(a) \in Nat /\ n \in Nat
  BY LenProperties
<1> HIDE DEF front
<1>3. /\ Cat(a, front) \in Seq(S) /\ Len(Cat(a, front)) = Len(a) + n
      /\ \A i \in 1..Len(a) + n :
           Cat(a, front)[i] = IF i <= Len(a) THEN a[i] ELSE front[i - Len(a)]
  BY <1>1, CatProperties
<1>4. \A i \in 1..Len(a) + n : i > Len(a) => i - Len(a) \in 1..n
  BY <1>2
<1>5. \A i \in 1..Len(a) + n :
        Cat(a, front)[i] = IF i <= Len(a) THEN a[i] ELSE b[i - Len(a)]
  BY <1>1, <1>2, <1>3, <1>4
<1> QED
  BY <1>3, <1>5 DEF Cat, front

LEMMA ReceiveNext == ReceiveInv /\ [Next]_vars => ReceiveInv'
<1> SUFFICES ASSUME ReceiveInv, [Next]_vars PROVE ReceiveInv'
  OBVIOUS
<1>0. Len(got) \in Nat /\ Len(inbox) \in Nat /\ Len(response) \in Nat
  BY LenProperties DEF ReceiveInv
<1>1. CASE ReadData
  <2>1. PICK n \in 1..Len(inbox) :
          got' = got \o SubSeq(inbox, 1, n) /\ inbox' = SubSeq(inbox, n + 1, Len(inbox))
    BY <1>1 DEF ReadData
  <2>2. UNCHANGED << pc, server, response >> /\ pc # "done"
    BY <1>1 DEF ReadData
  <2> inbox \in Seq(Units)
    BY DEF ReceiveInv
  <2>3. /\ inbox' \in Seq(Units) /\ Len(inbox') = Len(inbox) - n
        /\ \A i \in 1..Len(inbox) - n : inbox'[i] = inbox[n + i]
    BY <1>0, <2>1, Suffix
  <2>4. /\ got' \in Seq(Units) /\ Len(got') = Len(got) + n
        /\ \A i \in 1..Len(got) + n :
             got'[i] = IF i <= Len(got) THEN got[i] ELSE inbox[i - Len(got)]
    BY <2>1, AppendPrefix DEF ReceiveInv
  <2>5. \A i \in 1..Len(got') : got'[i] = response[i]
    <3> SUFFICES ASSUME NEW i \in 1..Len(got) + n PROVE got'[i] = response[i]
      BY <2>4
    <3>1. CASE i <= Len(got)
      BY <1>0, <2>4, <3>1 DEF ReceiveInv
    <3>2. CASE i > Len(got)
      <4>1. i - Len(got) \in 1..Len(inbox) /\ Len(got) + (i - Len(got)) = i
        BY <1>0, <3>2
      <4>2. inbox[i - Len(got)] = response[i]
        BY <4>1 DEF ReceiveInv
      <4>3. got'[i] = inbox[i - Len(got)]
        BY <1>0, <2>4, <3>2
      <4> QED
        BY <4>2, <4>3
    <3> QED
      BY <1>0, <3>1, <3>2
  <2>6. \A i \in 1..Len(inbox') : inbox'[i] = response[Len(got') + i]
    <3> SUFFICES ASSUME NEW i \in 1..Len(inbox) - n PROVE inbox'[i] = response[Len(got) + n + i]
      BY <1>0, <2>3, <2>4
    <3>1. n + i \in 1..Len(inbox) /\ Len(got) + (n + i) = Len(got) + n + i
      BY <1>0
    <3>2. inbox[n + i] = response[Len(got) + n + i]
      BY <3>1 DEF ReceiveInv
    <3> QED
      BY <2>3, <3>2
  <2>7. Len(got') + Len(inbox') = Len(got) + Len(inbox)
    BY <1>0, <2>3, <2>4
  <2>8. /\ UNCHANGED << pc, server, response >> /\ pc # "done"
        /\ response \in Seq(Units) /\ Len(got) + Len(inbox) <= Len(response)
        /\ server \in {"reading", "answering", "ended", "broken"}
        /\ server = "ended" => Len(got) + Len(inbox) = Len(response)
    BY <2>2 DEF ReceiveInv
  <2> QED
    BY <2>3, <2>4, <2>5, <2>6, <2>7, <2>8 DEF ReceiveInv
<1>2. CASE ServerSends
  <2>1. PICK n \in 1..Len(Unsent) : inbox' = inbox \o SubSeq(Unsent, 1, n)
    BY <1>2 DEF ServerSends
  <2>2. UNCHANGED << pc, server, response, got >> /\ server = "answering"
    BY <1>2 DEF ServerSends, sendVars
  <2>3. /\ Unsent \in Seq(Units) /\ Len(Unsent) = Len(response) - Len(got) - Len(inbox)
        /\ \A i \in 1..Len(Unsent) : Unsent[i] = response[Len(got) + Len(inbox) + i]
    <3>1. response \in Seq(Units) /\ Len(got) + Len(inbox) \in 0..Len(response)
      BY <1>0 DEF ReceiveInv
    <3> QED
      BY <1>0, <3>1, Suffix DEF Unsent
  <2>4. /\ inbox' \in Seq(Units) /\ Len(inbox') = Len(inbox) + n
        /\ \A i \in 1..Len(inbox) + n :
             inbox'[i] = IF i <= Len(inbox) THEN inbox[i] ELSE Unsent[i - Len(inbox)]
    <3>1. inbox \in Seq(Units) /\ Unsent \in Seq(Units)
      BY <2>3 DEF ReceiveInv
    <3>2. /\ inbox \o SubSeq(Unsent, 1, n) \in Seq(Units)
          /\ Len(inbox \o SubSeq(Unsent, 1, n)) = Len(inbox) + n
          /\ \A i \in 1..Len(inbox) + n : (inbox \o SubSeq(Unsent, 1, n))[i]
               = IF i <= Len(inbox) THEN inbox[i] ELSE Unsent[i - Len(inbox)]
      BY <3>1, AppendPrefix
    <3> QED
      BY <2>1, <3>2
  <2>5. \A i \in 1..Len(inbox') : inbox'[i] = response[Len(got) + i]
    <3> SUFFICES ASSUME NEW i \in 1..Len(inbox) + n PROVE inbox'[i] = response[Len(got) + i]
      BY <2>4
    <3>0. n \in Nat /\ n <= Len(Unsent) /\ Len(Unsent) \in Nat
      BY <2>3, LenProperties
    <3>1. CASE i <= Len(inbox)
      <4>1. inbox'[i] = inbox[i]
        BY <2>4, <3>1
      <4>2. i \in 1..Len(inbox)
        BY <1>0, <3>0, <3>1
      <4> QED
        BY <4>1, <4>2 DEF ReceiveInv
    <3>2. CASE i > Len(inbox)
      <4>1. i - Len(inbox) \in 1..Len(Unsent) /\ Len(got) + Len(inbox) + (i - Len(inbox)) = Len(got) + i
        BY <1>0, <3>0, <3>2
      <4>2. Unsent[i - Len(inbox)] = response[Len(got) + i]
        BY <2>3, <4>1
      <4>3. inbox'[i] = Unsent[i - Len(inbox)]
        BY <1>0, <2>4, <3>0, <3>2
      <4> QED
        BY <4>2, <4>3
    <3> QED
      BY <1>0, <3>0, <3>1, <3>2
  <2>6. Len(got) + Len(inbox') <= Len(response)
    BY <1>0, <2>3, <2>4, LenProperties
  <2> QED
    BY <2>2, <2>4, <2>5, <2>6 DEF ReceiveInv
<1>3. CASE ServerEnds
  <2>1. Len(got) + Len(inbox) = Len(response)
    <3>1. Len(got) + Len(inbox) + 1 > Len(response)
      <4> SUFFICES ASSUME Len(got) + Len(inbox) + 1 <= Len(response) PROVE FALSE
        BY <1>0
      <4>1. \A i \in Len(got) + Len(inbox) + 1..Len(response) : response[i] \in Units
        BY <1>0, ElementOfSeq DEF ReceiveInv
      <4>2. Len(Unsent) = Len(response) - (Len(got) + Len(inbox) + 1) + 1
        BY <1>0, <4>1, SubSeqProperties DEF Unsent
      <4>3. Len(Unsent) = 0
        BY <1>3, EmptySeq DEF ServerEnds
      <4> QED
        BY <1>0, <4>2, <4>3
    <3> QED
      BY <1>0, <3>1 DEF ReceiveInv
  <2> QED
    BY <1>3, <2>1 DEF ServerEnds, ReceiveInv
<1>4. CASE StreamBreaks
  <2>1. << >> \in Seq(Units) /\ Len(<< >>) = 0
    BY EmptySeq
  <2> QED
    BY <1>0, <1>4, <2>1 DEF StreamBreaks, ReceiveInv
<1>5. CASE ServerAnswers
  BY <1>5 DEF ServerAnswers, ReceiveInv
<1>6. CASE ReadEnd
  <2>1. Len(got) = Len(response)
    <3>1. Len(inbox) = 0
      BY <1>6, EmptySeq DEF ReadEnd
    <3> QED
      BY <1>0, <1>6, <3>1 DEF ReadEnd, ReceiveInv
  <2>2. got = response
    BY <2>1, SeqEqual DEF ReceiveInv
  <2> QED
    BY <1>6, <2>2 DEF ReadEnd, DropStream, serverVars, ReceiveInv
\* Every other step of the client leaves the receiving side alone, and only the end
\* of the body makes the exchange "done".
<1>7. CASE UNCHANGED serverVars /\ pc' # "done"
  BY <1>7 DEF serverVars, ReceiveInv
<1>8. CASE UNCHANGED vars
  BY <1>8 DEF vars, ReceiveInv
<1>9. ASSUME Opened \/ OpenFails \/ Write \/ Drained \/ SendFrame \/ SkipFrame \/ BodyFails
             \/ BodyEnds \/ Finish \/ SendFails \/ Drop \/ Responded \/ ReadFails
      PROVE  UNCHANGED serverVars /\ pc' # "done"
  <2> USE DEF serverVars, sendVars, SendData, DropStream
  <2>1. CASE Opened \/ OpenFails \/ SendFrame \/ BodyFails \/ SendFails \/ Drop \/ ReadFails
    BY <2>1 DEF Opened, OpenFails, SendFrame, BodyFails, SendFails, Drop, ReadFails, Broken
  <2>2. CASE Write
    BY <2>2 DEF Write, Draining
  <2>3. CASE SkipFrame
    BY <2>3 DEF SkipFrame, SkipTrailers
  <2>4. CASE Drained \/ BodyEnds \/ Finish \/ Responded
    BY <2>4 DEF Drained, BodyEnds, Finish, Responded
  <2> QED
    BY <1>9, <2>1, <2>2, <2>3, <2>4
<1> QED
  BY <1>1, <1>2, <1>3, <1>4, <1>5, <1>6, <1>7, <1>8, <1>9
     DEF Next, ClientStep, ServerStep, Ended

LEMMA ReceiveInvHolds == Spec => []ReceiveInv
  BY ReceiveInit, ReceiveNext, PTL DEF Spec

\* The reader gets the bytes of the response in order, and a body that ends without
\* an error is the whole body, for any response in any portions.
THEOREM ResponseIsFaithful == Spec => []ResponseFaithful
<1>1. ReceiveInv => ResponseFaithful
  <2> SUFFICES ASSUME ReceiveInv PROVE ResponseFaithful
    OBVIOUS
  <2>1. Len(got) \in Nat /\ Len(response) \in Nat /\ Len(got) <= Len(response)
    BY LenProperties DEF ReceiveInv
  <2>2. SubSeq(got, 1, Len(got)) = got
    BY SubSeqFull DEF ReceiveInv
  <2>3. SubSeq(response, 1, Len(got)) = got
    <3>1. /\ SubSeq(response, 1, Len(got)) \in Seq(Units)
          /\ Len(SubSeq(response, 1, Len(got))) = Len(got)
          /\ \A i \in 1..Len(got) : SubSeq(response, 1, Len(got))[i] = response[i]
      <4>1. \A i \in 1..Len(got) : response[i] \in Units
        BY <2>1, ElementOfSeq DEF ReceiveInv
      <4> QED
        BY <2>1, <4>1, SubSeqProperties
    <3> QED
      BY <3>1, SeqEqual DEF ReceiveInv
  <2> QED
    BY <2>1, <2>2, <2>3 DEF ReceiveInv, ResponseFaithful, IsPrefix
<1> QED
  BY <1>1, ReceiveInvHolds, PTL

\* Every variable of the exchange keeps its type, for any bodies and responses.
THEOREM ExchangeTypeCorrect == Spec => []TypeOK
<1>1. SendInv /\ ReceiveInv => TypeOK
  BY DEF SendInv, ReceiveInv, TypeOK, Bytes0
<1> QED
  BY <1>1, SendInvHolds, ReceiveInvHolds, PTL
=============================================================================
