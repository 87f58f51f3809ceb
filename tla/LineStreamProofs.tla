--------------------------- MODULE LineStreamProofs ---------------------------
(***************************************************************************)
(* What the line buffering of the response streams guarantees for every    *)
(* body, every way of cutting it into frames and every parser that         *)
(* accumulates, as the parsers of SSE and NDJSON do.                       *)
(***************************************************************************)
EXTENDS SseStream, NdjsonParser, SequenceTheorems, FiniteSetTheorems, TLAPS

\* The folds of LineStream: of the lines by the parser, of the items it gave.
Parsed == INSTANCE SequenceFolds WITH Op <- OnLine
Counted == INSTANCE SequenceFolds WITH Op <- WithItem

\* The fold of SseParser: of the lines by the specification of server-sent events.
Meant == INSTANCE SequenceFolds WITH Op <- OnLineAsSpecified

\* The fold of SseStream: of the events, those that tell something.
Telling == INSTANCE SequenceFolds WITH Op <- Tell

-----------------------------------------------------------------------------
\* A finite nonempty set of integers has a largest element.
LEMMA MaxIsLargest ==
  ASSUME NEW S \in SUBSET Int, IsFiniteSet(S), S # {}
  PROVE  Max(S) \in S /\ \A x \in S : Max(S) >= x
<1> DEFINE Above(x) == {y \in S : y >= x}
           T == {Above(x) : x \in S}
<1>1. IsWellFoundedOn(StrictSubsetOrdering(S), SUBSET S)
  BY FS_StrictSubsetOrderingWellFounded, FS_FiniteSubsetsOfFinite
<1>2. T \subseteq SUBSET S /\ T # {}
  OBVIOUS
<1>3. PICK A \in T : \A B \in T : << B, A >> \notin StrictSubsetOrdering(S)
  <2> HIDE DEF T
  <2> QED
    BY <1>1, <1>2, WFMin
<1>4. PICK x \in S : A = Above(x)
  BY <1>3
\* Were there a larger y, the set above y would be smaller than the one above x.
<1>5. ASSUME NEW y \in S, y > x
      PROVE  FALSE
  <2>1. Above(y) \in T /\ Above(y) \subseteq S /\ A \subseteq S
    BY <1>4
  <2>2. Above(y) \subseteq A /\ x \in A /\ x \notin Above(y)
    <3>1. Above(y) \subseteq Above(x)
      <4>1. x \in Int /\ y \in Int /\ y >= x
        BY <1>5
      <4>2. \A z \in S : z \in Int /\ (z >= y => z >= x)
        BY <4>1
      <4> QED
        BY <4>2
    <3>2. x \in Above(x) /\ x \notin Above(y)
      BY <1>5
    <3> QED
      BY <1>4, <3>1, <3>2
  <2>3. << Above(y), A >> \in StrictSubsetOrdering(S)
    <3>1. << Above(y), A >> \in (SUBSET S) \X (SUBSET S)
      BY <2>1
    <3>2. Above(y) # A
      BY <2>2
    <3> HIDE DEF Above
    <3> QED
      BY <2>2, <3>1, <3>2 DEF StrictSubsetOrdering
  <2> QED
    BY <1>3, <2>1, <2>3
<1>6. \A y \in S : x >= y
  BY <1>5
<1> QED
  BY <1>6 DEF Max

\* What lies between two points of a sequence.
LEMMA Between ==
  ASSUME NEW S, NEW s \in Seq(S), NEW to \in 0..Len(s), NEW from \in 0..to
  PROVE  /\ SubSeq(s, from + 1, to) \in Seq(S)
         /\ Len(SubSeq(s, from + 1, to)) = to - from
         /\ \A i \in 1..to - from : SubSeq(s, from + 1, to)[i] = s[from + i]
<1>1. Len(s) \in Nat /\ from \in Nat /\ to \in Nat /\ from <= to /\ from + 1 \in Int
  BY LenProperties
<1>2. \A i \in from + 1..to : i \in 1..Len(s)
  BY <1>1
<1>3. \A i \in from + 1..to : s[i] \in S
  BY <1>2, ElementOfSeq
<1>4. /\ SubSeq(s, from + 1, to) \in Seq(S)
      /\ Len(SubSeq(s, from + 1, to))
           = IF from + 1 <= to THEN to - (from + 1) + 1 ELSE 0
      /\ \A i \in 1..to - (from + 1) + 1 :
           SubSeq(s, from + 1, to)[i] = s[from + 1 + i - 1]
  BY <1>1, <1>3, SubSeqProperties
<1>5. /\ to - (from + 1) + 1 = to - from
      /\ ~(from + 1 <= to) => to - from = 0
      /\ \A i \in 1..to - from : from + 1 + i - 1 = from + i
  BY <1>1
<1> QED
  BY <1>4, <1>5

\* Whichever way the VecDeque is wrapped, the two slices give the same bytes
\* as the buffer itself.
THEOREM CopiedIsSubSeq ==
  ASSUME NEW s \in Seq(Symbols), NEW cut \in 0..Len(s),
         NEW end \in 0..Len(s), NEW start \in 0..end
  PROVE  Copied(s, cut, start, end) = SubSeq(s, start + 1, end)
<1> DEFINE s1 == SubSeq(s, 1, cut)
           s2 == SubSeq(s, cut + 1, Len(s))
<1>1. /\ s1 \in Seq(Symbols) /\ Len(s1) = cut
      /\ \A i \in 1..cut : s1[i] = s[i]
  <2>1. 0 \in 0..cut /\ cut \in 0..Len(s) /\ cut \in Nat
    BY LenProperties
  <2>2. /\ SubSeq(s, 0 + 1, cut) \in Seq(Symbols)
        /\ Len(SubSeq(s, 0 + 1, cut)) = cut - 0
        /\ \A i \in 1..cut - 0 : SubSeq(s, 0 + 1, cut)[i] = s[0 + i]
    BY <2>1, Between
  <2>3. 0 + 1 = 1 /\ cut - 0 = cut /\ \A i \in 1..cut : 0 + i = i
    BY <2>1
  <2> QED
    BY <2>2, <2>3
<1>2. /\ s2 \in Seq(Symbols) /\ Len(s2) = Len(s) - cut
      /\ \A i \in 1..Len(s) - cut : s2[i] = s[cut + i]
  <2>1. cut \in 0..Len(s) /\ Len(s) \in 0..Len(s)
    BY LenProperties
  <2> QED
    BY <2>1, Between
<1> DEFINE whole == SubSeq(s, start + 1, end)
<1>3. /\ whole \in Seq(Symbols) /\ Len(whole) = end - start
      /\ \A i \in 1..end - start : whole[i] = s[start + i]
  BY Between
<1>4. Len(s) \in Nat /\ cut \in Nat /\ end \in Nat /\ start \in Nat /\ start <= end
  BY LenProperties
<1>5. end <= Len(s) /\ cut <= Len(s)
  BY <1>4
<1>6. Copied(s, cut, start, end) =
        IF end <= cut THEN SubSeq(s1, start + 1, end)
        ELSE IF start >= cut THEN SubSeq(s2, start - cut + 1, end - cut)
        ELSE SubSeq(s1, start + 1, cut) \o SubSeq(s2, 1, end - cut)
  BY DEF Copied
<1> HIDE DEF s1, s2, whole
\* All of it in the first slice, all of it in the second, or some in each.
<1>7. CASE end <= cut
  <2> DEFINE part == SubSeq(s1, start + 1, end)
  <2>1. end \in 0..Len(s1) /\ start \in 0..end
    BY <1>1, <1>4, <1>7
  <2>2. /\ part \in Seq(Symbols) /\ Len(part) = end - start
        /\ \A i \in 1..end - start : part[i] = s1[start + i]
    BY <1>1, <2>1, Between
  <2> HIDE DEF part
  <2>3. \A i \in 1..end - start : start + i \in 1..cut
    BY <1>4, <1>7
  <2>4. \A i \in 1..end - start : part[i] = whole[i]
    BY <1>1, <1>3, <2>2, <2>3
  <2>5. part = whole
    BY <1>3, <2>2, <2>4, SeqEqual
  <2> QED
    BY <1>6, <1>7, <2>5 DEF part, whole
<1>8. CASE ~(end <= cut) /\ start >= cut
  <2> DEFINE from == start - cut
             to == end - cut
             part == SubSeq(s2, from + 1, to)
  <2>1. to \in 0..Len(s2) /\ from \in 0..to /\ to - from = end - start
    BY <1>2, <1>4, <1>5, <1>8
  <2>2. \A i \in 1..end - start : from + i \in 1..Len(s) - cut /\ cut + (from + i) = start + i
    BY <1>4, <1>5, <1>8
  <2> HIDE DEF from, to
  <2>3. /\ part \in Seq(Symbols) /\ Len(part) = end - start
        /\ \A i \in 1..end - start : part[i] = s2[from + i]
    BY <1>2, <2>1, Between
  <2> HIDE DEF part
  <2>4. ASSUME NEW i \in 1..end - start PROVE part[i] = whole[i]
    <3>1. part[i] = s2[from + i] /\ whole[i] = s[start + i]
      BY <1>3, <2>3
    <3>2. s2[from + i] = s[cut + (from + i)] /\ cut + (from + i) = start + i
      BY <1>2, <2>2
    <3> QED
      BY <3>1, <3>2
  <2>5. part = whole
    BY <1>3, <2>3, <2>4, SeqEqual
  <2> QED
    BY <1>6, <1>8, <2>5 DEF part, from, to, whole
<1>9. CASE ~(end <= cut) /\ ~(start >= cut)
  <2> DEFINE head == SubSeq(s1, start + 1, cut)
             rest == SubSeq(s2, 0 + 1, end - cut)
             both == head \o rest
  <2>1. /\ cut \in 0..Len(s1) /\ start \in 0..cut
        /\ end - cut \in 0..Len(s2) /\ 0 \in 0..end - cut
        /\ end - cut - 0 = end - cut
    BY <1>1, <1>2, <1>4, <1>5, <1>9
  <2>2. /\ head \in Seq(Symbols) /\ Len(head) = cut - start
        /\ \A i \in 1..cut - start : head[i] = s1[start + i]
    BY <1>1, <2>1, Between
  <2>3. /\ rest \in Seq(Symbols) /\ Len(rest) = end - cut
        /\ \A i \in 1..end - cut : rest[i] = s2[0 + i]
    BY <1>2, <2>1, Between
  <2> HIDE DEF head, rest
  <2>4. /\ both \in Seq(Symbols) /\ Len(both) = Len(head) + Len(rest)
        /\ \A i \in 1..Len(head) + Len(rest) :
             both[i] = IF i <= Len(head) THEN head[i] ELSE rest[i - Len(head)]
    BY <2>2, <2>3, ConcatProperties, Zenon
  <2> HIDE DEF both
  <2>5. Len(both) = end - start
    BY <1>4, <2>2, <2>3, <2>4
  <2>6. ASSUME NEW i \in 1..end - start PROVE both[i] = whole[i]
    <3>1. CASE i <= cut - start
      <4>1. i \in 1..cut - start /\ start + i \in 1..cut
        BY <1>4, <3>1
      <4>2. both[i] = head[i]
        BY <1>4, <2>2, <2>3, <2>4, <3>1, <4>1
      <4> QED
        BY <1>1, <1>3, <2>2, <4>1, <4>2
    <3>2. CASE ~(i <= cut - start)
      <4> DEFINE j == i - (cut - start)
      <4>1. j \in 1..end - cut /\ j \in 1..Len(s) - cut /\ 0 + j = j /\ cut + j = start + i
        BY <1>4, <1>5, <3>2
      <4>2. both[i] = rest[j]
        BY <1>4, <2>2, <2>3, <2>4, <2>5, <3>2
      <4> HIDE DEF j
      <4>3. rest[j] = s2[j]
        BY <2>3, <4>1
      <4>4. s2[j] = s[start + i]
        BY <1>2, <4>1
      <4>5. whole[i] = s[start + i]
        BY <1>3
      <4> QED
        BY <4>2, <4>3, <4>4, <4>5
    <3> QED
      BY <3>1, <3>2
  <2>7. both = whole
    BY <1>3, <2>4, <2>5, <2>6, SeqEqual
  <2>8. 0 + 1 = 1
    OBVIOUS
  <2> QED
    BY <1>6, <1>9, <2>7, <2>8 DEF both, head, rest, whole
<1> QED
  BY <1>7, <1>8, <1>9
-----------------------------------------------------------------------------
(***************************************************************************)
(* The scan.                                                               *)
(***************************************************************************)

\* `processed` is 0 or just after a '\n', and the '\n's before p are no later.
LEMMA ProcessedProperties ==
  ASSUME NEW s \in Seq(Symbols), NEW old \in Nat, NEW p \in Nat
  PROVE  /\ Processed(Newlines(s, old), p) \in 0..Len(s)
         /\ Processed(Newlines(s, old), p) > 0 =>
              /\ Processed(Newlines(s, old), p) > old
              /\ s[Processed(Newlines(s, old), p)] = NL
         /\ \A q \in Newlines(s, old) :
              q < p => q <= Processed(Newlines(s, old), p)
<1> DEFINE nls == Newlines(s, old)
           Before == {0} \cup {q \in nls : q < p}
<1>1. Len(s) \in Nat
  BY LenProperties
<1>2. nls \subseteq 1..Len(s) /\ \A q \in nls : q > old /\ s[q] = NL
  BY DEF Newlines
<1>3. Before \subseteq 0..Len(s) /\ 0 \in Before
  BY <1>1, <1>2
<1>4. IsFiniteSet(Before)
  <2>1. IsFiniteSet(0..Len(s))
    BY <1>1, FS_Interval
  <2> QED
    BY <1>3, <2>1, FS_Subset
<1>5. \A q \in Before : q \in {0} \/ q \in nls
  OBVIOUS
<1>6. \A q \in nls : q < p => q \in Before
  OBVIOUS
<1>7. Processed(nls, p) = Max(Before)
  BY DEF Processed
<1>8. Before \in SUBSET Int /\ Before # {}
  <2> HIDE DEF Before
  <2> QED
    BY <1>1, <1>3
<1> HIDE DEF nls, Before
<1>9. Max(Before) \in Before /\ \A q \in Before : Max(Before) >= q
  BY <1>4, <1>8, MaxIsLargest
<1>10. \A q \in nls : q < p => q <= Max(Before)
  <2>1. \A q \in Before : q \in Int
    BY <1>8
  <2> QED
    BY <1>6, <1>9, <2>1
<1>11. Max(Before) \in 0..Len(s)
  BY <1>3, <1>9
<1>12. Max(Before) > 0 => Max(Before) > old /\ s[Max(Before)] = NL
  <2> SUFFICES ASSUME Max(Before) > 0
               PROVE  Max(Before) \in nls
    BY <1>2
  <2>1. Max(Before) # 0
    BY <1>11
  <2> QED
    BY <1>5, <1>9, <2>1
<1>13. /\ Processed(nls, p) \in 0..Len(s)
       /\ Processed(nls, p) > 0 =>
            Processed(nls, p) > old /\ s[Processed(nls, p)] = NL
       /\ \A q \in nls : q < p => q <= Processed(nls, p)
  BY <1>7, <1>10, <1>11, <1>12
<1> QED
  BY <1>13 DEF nls

\* What taking a frame does to the buffer and to the bytes taken: P bytes of
\* the lengthened buffer go, up to and with the last '\n' in it.
LEMMA TakeDataEffect ==
  ASSUME TypeOK, TakeData
  PROVE  \E bytes \in Seq(Symbols) : \E P \in 0..Len(buffer \o bytes) :
           /\ P > 0 => P > Len(buffer) /\ (buffer \o bytes)[P] = NL
           /\ \A q \in 1..Len(buffer \o bytes) :
                q > Len(buffer) /\ (buffer \o bytes)[q] = NL => q <= P
           /\ buffer' = SubSeq(buffer \o bytes, P + 1, Len(buffer \o bytes))
           /\ taken' = taken \o bytes
<1> DEFINE bytes == Head(frames).bytes
           s == buffer \o bytes
           P == Processed(Newlines(s, Len(buffer)), Len(s) + 1)
<1>1. buffer' = SubSeq(s, P + 1, Len(s)) /\ taken' = taken \o bytes
  BY DEF TakeData, Remainder
<1>2. bytes \in Seq(Symbols)
  <2>1. Head(frames).kind = "data" /\ frames # << >>
    BY DEF TakeData, TakeFrame
  <2>2. Head(frames) \in [kind : {"data"}, bytes : Seq(Symbols) \ {<< >>}]
                           \cup [kind : {"trailers", "error"}]
    BY <2>1, HeadTailProperties DEF TypeOK
  <2> QED
    BY <2>1, <2>2
<1>3. s \in Seq(Symbols) /\ buffer \in Seq(Symbols)
  BY <1>2, ConcatProperties DEF TypeOK
<1> HIDE DEF bytes, s
<1>4. Len(s) \in Nat /\ Len(s) + 1 \in Nat /\ Len(buffer) \in Nat
  BY <1>3, LenProperties
<1>5. /\ P \in 0..Len(s)
      /\ P > 0 => P > Len(buffer) /\ s[P] = NL
      /\ \A q \in Newlines(s, Len(buffer)) : q < Len(s) + 1 => q <= P
  BY <1>3, <1>4, ProcessedProperties
<1>6. \A q \in 1..Len(s) : q > Len(buffer) /\ s[q] = NL => q <= P
  <2> SUFFICES ASSUME NEW q \in 1..Len(s), q > Len(buffer), s[q] = NL
               PROVE  q <= P
    OBVIOUS
  <2>1. q \in Newlines(s, Len(buffer)) /\ q < Len(s) + 1
    BY <1>4 DEF Newlines
  <2> HIDE DEF P
  <2> QED
    BY <1>5, <2>1
<1> HIDE DEF P
<1>7. /\ P \in 0..Len(buffer \o bytes)
      /\ P > 0 => P > Len(buffer) /\ (buffer \o bytes)[P] = NL
      /\ \A q \in 1..Len(buffer \o bytes) :
           q > Len(buffer) /\ (buffer \o bytes)[q] = NL => q <= P
      /\ buffer' = SubSeq(buffer \o bytes, P + 1, Len(buffer \o bytes))
      /\ taken' = taken \o bytes
  BY <1>1, <1>5, <1>6 DEF s
<1> QED
  BY <1>2, <1>7
-----------------------------------------------------------------------------
(***************************************************************************)
(* The shape of the state.                                                 *)
(***************************************************************************)

Frame == [kind : {"data"}, bytes : Seq(Symbols) \ {<< >>}]
           \cup [kind : {"trailers", "error"}]

\* Every way to take a frame leaves the others as they are.
LEMMA TakeFrameType ==
  ASSUME TypeOK, NEW kind, TakeFrame(kind)
  PROVE  /\ frames' \in Seq(Frame) /\ Len(frames') <= MaxFrames
         /\ UNCHANGED << wire, open, registered >>
<1>1. frames \in Seq(Frame) /\ Len(frames) <= MaxFrames /\ frames # << >>
  BY DEF TypeOK, TakeFrame, Frame
<1>2. frames' = Tail(frames) /\ UNCHANGED << wire, open, registered >>
  BY DEF TakeFrame
<1>3. Tail(frames) \in Seq(Frame) /\ Len(Tail(frames)) = Len(frames) - 1
  BY <1>1, HeadTailProperties
<1> QED
  BY <1>1, <1>2, <1>3, LenProperties, LineStreamAssumption

\* The body adds one well-formed frame at a time.
LEMMA FeedType ==
  ASSUME TypeOK, NEW frame \in Frame, Feed(frame)
  PROVE  /\ frames' \in Seq(Frame) /\ Len(frames') <= MaxFrames
         /\ registered' \in BOOLEAN /\ awake' \in BOOLEAN
         /\ UNCHANGED << buffer, parser, taken, yielded, over >>
<1>1. frames \in Seq(Frame) /\ Len(frames) \in Nat
  BY LenProperties DEF TypeOK, Frame
<1>2. Len(frames) < MaxFrames /\ frames' = Append(frames, frame)
  BY DEF Feed
<1>3. frames' \in Seq(Frame) /\ Len(frames') = Len(frames) + 1
  BY <1>1, <1>2, AppendProperties
<1>4. registered' \in BOOLEAN /\ awake' \in BOOLEAN
  BY DEF Feed, Wake
<1> QED
  BY <1>1, <1>2, <1>3, <1>4, LineStreamAssumption DEF Feed

LEMMA TypeInit ==
  Init => TypeOK
<1> SUFFICES ASSUME Init PROVE TypeOK
  OBVIOUS
<1>1. wire \in Seq(Symbols)
  BY LineStreamAssumption DEF Init
<1>2. << >> \in Seq(Symbols) /\ << >> \in Seq(Frame)
  BY EmptySeq
<1>3. frames \in Seq(Frame) /\ buffer \in Seq(Symbols) /\ taken \in Seq(Symbols)
  BY <1>2 DEF Init
<1>4. Len(frames) <= MaxFrames
  <2>1. Len(<< >>) = 0 /\ frames = << >>
    BY DEF Init
  <2> QED
    BY <2>1, LineStreamAssumption
<1>5. {open, registered, awake, over} \subseteq BOOLEAN
  BY DEF Init
<1> QED
  BY <1>1, <1>3, <1>4, <1>5 DEF TypeOK, Frame

LEMMA TypeStep ==
  TypeOK /\ [Next]_vars => TypeOK'
<1> SUFFICES ASSUME TypeOK, [Next]_vars PROVE TypeOK'
  OBVIOUS
<1>1. CASE YieldReady
  BY <1>1 DEF YieldReady, bodyVars, TypeOK
<1>2. CASE TakeData
  <2>1. TakeFrame("data") /\ over' = over
    BY <1>2 DEF TakeData
  <2>2. awake' \in BOOLEAN
    BY <1>2 DEF TakeData, Reschedule, TypeOK
  <2>3. buffer' \in Seq(Symbols) /\ taken' \in Seq(Symbols)
    <3>1. PICK bytes \in Seq(Symbols) : \E P \in 0..Len(buffer \o bytes) :
            /\ buffer' = SubSeq(buffer \o bytes, P + 1, Len(buffer \o bytes))
            /\ taken' = taken \o bytes
      BY <1>2, TakeDataEffect
    <3>2. PICK P \in 0..Len(buffer \o bytes) :
            /\ buffer' = SubSeq(buffer \o bytes, P + 1, Len(buffer \o bytes))
            /\ taken' = taken \o bytes
      BY <3>1
    <3>3. buffer \o bytes \in Seq(Symbols) /\ taken \o bytes \in Seq(Symbols)
      BY ConcatProperties DEF TypeOK
    <3> DEFINE s == buffer \o bytes
    <3>4. s \in Seq(Symbols) /\ Len(s) \in Nat /\ P \in 0..Len(s)
      BY <3>3, LenProperties
    <3> HIDE DEF s
    <3>5. SubSeq(s, P + 1, Len(s)) \in Seq(Symbols)
      BY <3>4, SubSeqProperties
    <3> QED
      BY <3>2, <3>3, <3>5 DEF s
  <2> QED
    BY <2>1, <2>2, <2>3, TakeFrameType DEF TypeOK, Frame
<1>3. CASE TakeTrailers
  <2>1. TakeFrame("trailers") /\ awake' \in BOOLEAN
    BY <1>3 DEF TakeTrailers, Reschedule
  <2> QED
    BY <1>3, <2>1, TakeFrameType DEF TakeTrailers, TypeOK, Frame
<1>4. CASE TakeError
  <2>1. TakeFrame("error")
    BY <1>4 DEF TakeError
  <2> QED
    BY <1>4, <2>1, TakeFrameType DEF TakeError, TypeOK, Frame
<1>5. CASE TakeEnd
  BY <1>5 DEF TakeEnd, bodyVars, TypeOK
<1>6. CASE Park
  BY <1>6 DEF Park, TypeOK
<1>7. CASE Arrive
  <2>1. PICK n \in 1..Len(wire) :
          /\ Feed(Data(SubSeq(wire, 1, n)))
          /\ wire' = SubSeq(wire, n + 1, Len(wire))
    BY <1>7 DEF Arrive
  <2>2. wire \in Seq(Symbols) /\ Len(wire) \in Nat
    BY LenProperties DEF TypeOK
  <2>3. SubSeq(wire, 1, n) \in Seq(Symbols) /\ Len(SubSeq(wire, 1, n)) = n
    BY <2>2, SubSeqProperties
  <2>4. wire' \in Seq(Symbols)
    BY <2>1, <2>2, SubSeqProperties
  <2>5. SubSeq(wire, 1, n) # << >>
    <3>1. Len(<< >>) = 0 /\ n # 0
      OBVIOUS
    <3> QED
      BY <2>3, <3>1
  <2>6. Data(SubSeq(wire, 1, n)) \in Frame
    BY <2>3, <2>5 DEF Data, Frame
  <2> QED
    BY <1>7, <2>1, <2>4, <2>6, FeedType DEF Arrive, TypeOK, Frame
<1>8. CASE EndWithTrailers
  <2>1. Trailers \in Frame /\ Feed(Trailers)
    BY <1>8 DEF EndWithTrailers, Trailers, Frame
  <2> QED
    BY <1>8, <2>1, FeedType DEF EndWithTrailers, TypeOK, Frame
<1>9. CASE End
  BY <1>9 DEF End, Wake, TypeOK
<1>10. CASE Break
  <2>1. Broken \in Frame /\ Feed(Broken) /\ << >> \in Seq(Symbols)
    BY <1>10, EmptySeq DEF Break, Broken, Frame
  <2> QED
    BY <1>10, <2>1, FeedType DEF Break, TypeOK, Frame
<1>11. CASE UNCHANGED vars
  BY <1>11 DEF vars, TypeOK
<1> QED
  BY <1>1, <1>2, <1>3, <1>4, <1>5, <1>6, <1>7, <1>8, <1>9, <1>10, <1>11
     DEF Next, PollNext, BodyStep, Done

\* The type invariant, for every parser and every body.
THEOREM StreamTypeCorrect == Spec => []TypeOK
BY TypeInit, TypeStep, PTL DEF Spec

-----------------------------------------------------------------------------
(***************************************************************************)
(* The buffer.                                                             *)
(***************************************************************************)

\* Only TakeData changes the buffer or the bytes taken.
LEMMA BufferKept ==
  [Next]_vars => TakeData \/ UNCHANGED << buffer, taken >>
BY DEF Next, PollNext, BodyStep, Done, vars, YieldReady, TakeTrailers,
       TakeError, TakeEnd, Park, Arrive, EndWithTrailers, End, Break, Feed

\* Position by position, what is in the buffer after a frame.
LEMMA BufferAfterFrame ==
  ASSUME TypeOK, TakeData
  PROVE  \E bytes \in Seq(Symbols) : \E P \in Nat :
           /\ P > 0 => P > Len(buffer) /\ (buffer \o bytes)[P] = NL
           /\ \A q \in 1..Len(buffer) + Len(bytes) :
                q > Len(buffer) /\ (buffer \o bytes)[q] = NL => q <= P
           /\ P <= Len(buffer) + Len(bytes)
           /\ Len(buffer') = Len(buffer) + Len(bytes) - P
           /\ \A i \in 1..Len(buffer') :
                buffer'[i] = (buffer \o bytes)[P + i]
           /\ taken' = taken \o bytes
<1>1. PICK bytes \in Seq(Symbols) : \E P \in 0..Len(buffer \o bytes) :
        /\ P > 0 => P > Len(buffer) /\ (buffer \o bytes)[P] = NL
        /\ \A q \in 1..Len(buffer \o bytes) :
             q > Len(buffer) /\ (buffer \o bytes)[q] = NL => q <= P
        /\ buffer' = SubSeq(buffer \o bytes, P + 1, Len(buffer \o bytes))
        /\ taken' = taken \o bytes
  BY TakeDataEffect
<1>2. PICK P \in 0..Len(buffer \o bytes) :
        /\ P > 0 => P > Len(buffer) /\ (buffer \o bytes)[P] = NL
        /\ \A q \in 1..Len(buffer \o bytes) :
             q > Len(buffer) /\ (buffer \o bytes)[q] = NL => q <= P
        /\ buffer' = SubSeq(buffer \o bytes, P + 1, Len(buffer \o bytes))
        /\ taken' = taken \o bytes
  BY <1>1
<1>3. /\ buffer \o bytes \in Seq(Symbols)
      /\ Len(buffer \o bytes) = Len(buffer) + Len(bytes)
  BY ConcatProperties DEF TypeOK
<1> DEFINE s == buffer \o bytes
<1>4. /\ s \in Seq(Symbols) /\ Len(s) \in Nat /\ P \in 0..Len(s)
      /\ Len(s) = Len(buffer) + Len(bytes)
  BY <1>2, <1>3, LenProperties
<1> HIDE DEF s
<1>5. /\ Len(SubSeq(s, P + 1, Len(s))) = Len(s) - P
      /\ \A i \in 1..Len(s) - P : SubSeq(s, P + 1, Len(s))[i] = s[P + i]
  <2>1. Len(s) \in 0..Len(s)
    BY <1>4
  <2> QED
    BY <1>4, <2>1, Between
<1>6. buffer' = SubSeq(s, P + 1, Len(s))
  BY <1>2 DEF s
<1>7. Len(buffer') = Len(s) - P /\ \A i \in 1..Len(buffer') : buffer'[i] = s[P + i]
  BY <1>5, <1>6
<1>8. P \in Nat /\ P <= Len(buffer) + Len(bytes)
  BY <1>4
<1>9. P > 0 => P > Len(buffer) /\ (buffer \o bytes)[P] = NL
  BY <1>2
<1>10. \A q \in 1..Len(buffer) + Len(bytes) :
         q > Len(buffer) /\ (buffer \o bytes)[q] = NL => q <= P
  BY <1>2, <1>3
<1>11. Len(buffer') = Len(buffer) + Len(bytes) - P
  BY <1>4, <1>7
<1>12. \A i \in 1..Len(buffer') : buffer'[i] = (buffer \o bytes)[P + i]
  BY <1>7 DEF s
<1>13. taken' = taken \o bytes
  BY <1>2
<1> QED
  BY <1>8, <1>9, <1>10, <1>11, <1>12, <1>13

\* No '\n' in the buffer, said position by position.
LEMMA NoLineLeftPointwise ==
  ASSUME TypeOK
  PROVE  NoLineLeftInBuffer <=> \A i \in 1..Len(buffer) : buffer[i] # NL
<1>1. DOMAIN buffer = 1..Len(buffer)
  BY LenProperties DEF TypeOK
<1> QED
  BY <1>1 DEF NoLineLeftInBuffer, ToSet

LEMMA NoLineLeftStep ==
  TypeOK /\ TypeOK' /\ NoLineLeftInBuffer /\ [Next]_vars => NoLineLeftInBuffer'
<1> SUFFICES ASSUME TypeOK, TypeOK', NoLineLeftInBuffer, [Next]_vars
             PROVE  NoLineLeftInBuffer'
  OBVIOUS
<1>1. CASE TakeData
  <2>1. PICK bytes \in Seq(Symbols) : \E P \in Nat :
          /\ \A q \in 1..Len(buffer) + Len(bytes) :
               q > Len(buffer) /\ (buffer \o bytes)[q] = NL => q <= P
          /\ P <= Len(buffer) + Len(bytes)
          /\ Len(buffer') = Len(buffer) + Len(bytes) - P
          /\ \A i \in 1..Len(buffer') : buffer'[i] = (buffer \o bytes)[P + i]
    BY <1>1, BufferAfterFrame
  <2>2. PICK P \in Nat :
          /\ \A q \in 1..Len(buffer) + Len(bytes) :
               q > Len(buffer) /\ (buffer \o bytes)[q] = NL => q <= P
          /\ P <= Len(buffer) + Len(bytes)
          /\ Len(buffer') = Len(buffer) + Len(bytes) - P
          /\ \A i \in 1..Len(buffer') : buffer'[i] = (buffer \o bytes)[P + i]
    BY <2>1
  <2>3. Len(buffer) \in Nat /\ Len(bytes) \in Nat
    BY LenProperties DEF TypeOK
  <2>4. \A i \in 1..Len(buffer) :
          (buffer \o bytes)[i] = buffer[i] /\ buffer[i] # NL
    BY NoLineLeftPointwise, ConcatProperties DEF TypeOK
  <2>5. ASSUME NEW i \in 1..Len(buffer')
        PROVE  buffer'[i] # NL
    <3>1. /\ P + i \in 1..Len(buffer) + Len(bytes)
          /\ buffer'[i] = (buffer \o bytes)[P + i]
      BY <2>2, <2>3
    <3>2. CASE P + i > Len(buffer)
      BY <2>2, <3>1, <3>2
    <3>3. CASE P + i <= Len(buffer)
      BY <2>3, <2>4, <3>1, <3>3
    <3> QED
      BY <2>3, <3>2, <3>3
  <2>6. DOMAIN buffer' = 1..Len(buffer')
    BY LenProperties DEF TypeOK
  <2> QED
    BY <2>5, <2>6 DEF NoLineLeftInBuffer, ToSet
<1>2. CASE UNCHANGED << buffer, taken >>
  BY <1>2 DEF NoLineLeftInBuffer
<1> QED
  BY <1>1, <1>2, BufferKept

LEMMA BufferIsTailStep ==
  TypeOK /\ BufferIsTail /\ [Next]_vars => BufferIsTail'
<1> SUFFICES ASSUME TypeOK, BufferIsTail, [Next]_vars
             PROVE  BufferIsTail'
  OBVIOUS
<1>1. CASE TakeData
  <2>1. PICK bytes \in Seq(Symbols) : \E P \in Nat :
          /\ P > 0 => P > Len(buffer) /\ (buffer \o bytes)[P] = NL
          /\ P <= Len(buffer) + Len(bytes)
          /\ Len(buffer') = Len(buffer) + Len(bytes) - P
          /\ \A i \in 1..Len(buffer') : buffer'[i] = (buffer \o bytes)[P + i]
          /\ taken' = taken \o bytes
    BY <1>1, BufferAfterFrame
  <2>2. PICK P \in Nat :
          /\ P > 0 => P > Len(buffer) /\ (buffer \o bytes)[P] = NL
          /\ P <= Len(buffer) + Len(bytes)
          /\ Len(buffer') = Len(buffer) + Len(bytes) - P
          /\ \A i \in 1..Len(buffer') : buffer'[i] = (buffer \o bytes)[P + i]
          /\ taken' = taken \o bytes
    BY <2>1
  <2>3. Len(buffer) \in Nat /\ Len(bytes) \in Nat /\ Len(taken) \in Nat
    BY LenProperties DEF TypeOK
  \* The bytes of the buffer, then those of the frame, as taken' holds them.
  <2>4. /\ Len(taken') = Len(taken) + Len(bytes)
        /\ \A i \in 1..Len(taken) : taken'[i] = taken[i]
        /\ \A i \in Len(taken) + 1 .. Len(taken) + Len(bytes) :
             taken'[i] = bytes[i - Len(taken)]
    BY <2>2, ConcatProperties DEF TypeOK
  <2>5. /\ \A i \in 1..Len(buffer) : (buffer \o bytes)[i] = buffer[i]
        /\ \A i \in Len(buffer) + 1 .. Len(buffer) + Len(bytes) :
             (buffer \o bytes)[i] = bytes[i - Len(buffer)]
    BY ConcatProperties DEF TypeOK
  <2>6. /\ Cut \in Nat /\ Len(taken) = Cut + Len(buffer)
        /\ Cut' = Cut + P /\ Cut' \in Nat
    BY <2>2, <2>3, <2>4 DEF BufferIsTail, Cut
  <2>7. \A i \in 1..Len(buffer) + Len(bytes) :
          (buffer \o bytes)[i] = taken'[Cut + i]
    <3> SUFFICES ASSUME NEW i \in 1..Len(buffer) + Len(bytes)
                 PROVE  (buffer \o bytes)[i] = taken'[Cut + i]
      OBVIOUS
    <3>1. CASE i <= Len(buffer)
      <4>1. (buffer \o bytes)[i] = taken[Cut + i]
        BY <2>3, <2>5, <3>1 DEF BufferIsTail
      <4>2. Cut + i \in 1..Len(taken)
        BY <2>3, <2>6, <3>1
      <4> QED
        BY <2>4, <4>1, <4>2
    <3>2. CASE i > Len(buffer)
      <4> DEFINE j == Cut + i
      <4>1. (buffer \o bytes)[i] = bytes[i - Len(buffer)]
        BY <2>3, <2>5, <3>2
      <4>2. /\ j \in Len(taken) + 1 .. Len(taken) + Len(bytes)
            /\ j - Len(taken) = i - Len(buffer)
        BY <2>3, <2>6, <3>2
      <4>3. taken'[j] = bytes[j - Len(taken)]
        <5> HIDE DEF j
        <5> QED
          BY <2>4, <4>2
      <4> QED
        BY <4>1, <4>2, <4>3
    <3> QED
      BY <2>3, <3>1, <3>2
  <2>8. \A i \in 1..Len(buffer') : buffer'[i] = taken'[Cut' + i]
    <3> SUFFICES ASSUME NEW i \in 1..Len(buffer')
                 PROVE  buffer'[i] = taken'[Cut' + i]
      OBVIOUS
    <3>1. P + i \in 1..Len(buffer) + Len(bytes) /\ Cut' + i = Cut + (P + i)
      BY <2>2, <2>3, <2>6
    <3> QED
      BY <2>2, <2>7, <3>1
  <2>9. Cut' > 0 => taken'[Cut'] = NL
    <3>1. CASE P = 0
      <4>1. Cut' = Cut /\ (Cut > 0 => Cut \in 1..Len(taken))
        BY <2>3, <2>6, <3>1
      <4> QED
        BY <2>4, <4>1 DEF BufferIsTail
    <3>2. CASE P > 0
      <4>1. P \in 1..Len(buffer) + Len(bytes)
        BY <2>2, <2>3, <3>2
      <4>2. (buffer \o bytes)[P] = taken'[Cut + P]
        BY <2>7, <4>1
      <4>3. (buffer \o bytes)[P] = NL
        BY <2>2, <3>2
      <4>4. Cut' = Cut + P
        BY <2>6
      <4> QED
        BY <4>2, <4>3, <4>4
    <3> QED
      BY <3>1, <3>2
  <2> QED
    BY <2>6, <2>8, <2>9 DEF BufferIsTail
<1>2. CASE UNCHANGED << buffer, taken >>
  BY <1>2 DEF BufferIsTail, Cut
<1> QED
  BY <1>1, <1>2, BufferKept

-----------------------------------------------------------------------------
(***************************************************************************)
(* Wakeups.                                                                *)
(***************************************************************************)

LEMMA SleepsStep ==
  TypeOK /\ SleepsOnlyOnBody /\ [Next]_vars => SleepsOnlyOnBody'
<1> SUFFICES ASSUME TypeOK, SleepsOnlyOnBody, [Next]_vars, ~awake'
             PROVE  (parser.ready = << >> /\ frames = << >> /\ registered)'
  BY DEF SleepsOnlyOnBody
<1>1. CASE YieldReady
  BY <1>1 DEF YieldReady, Scheduled
<1>2. CASE TakeData
  BY <1>2 DEF TakeData, TakeFrame, AskBody, Scheduled, Reschedule
<1>3. CASE TakeTrailers
  BY <1>3 DEF TakeTrailers, Reschedule
<1>4. CASE TakeError
  BY <1>4 DEF TakeError, TakeFrame, AskBody, Scheduled
<1>5. CASE TakeEnd
  BY <1>5 DEF TakeEnd, AskBody, Scheduled
<1>6. CASE Park
  BY <1>6 DEF Park, AskBody
\* A task that does not wake now was asleep, and so its waker was with the body.
<1>7. ASSUME Wake
      PROVE  FALSE
  BY <1>7 DEF Wake, SleepsOnlyOnBody, TypeOK
<1>8. CASE BodyStep
  BY <1>7, <1>8 DEF BodyStep, Arrive, EndWithTrailers, End, Break, Feed
<1>9. CASE UNCHANGED vars
  BY <1>9 DEF vars, SleepsOnlyOnBody
<1> QED
  BY <1>1, <1>2, <1>3, <1>4, <1>5, <1>6, <1>8, <1>9 DEF Next, PollNext, Done

-----------------------------------------------------------------------------
(***************************************************************************)
(* The theorems.                                                           *)
(***************************************************************************)

IInv == TypeOK /\ NoLineLeftInBuffer /\ BufferIsTail /\ SleepsOnlyOnBody

LEMMA StreamInit ==
  Init => IInv
<1> SUFFICES ASSUME Init PROVE IInv
  OBVIOUS
<1>1. TypeOK
  BY TypeInit
<1>2. buffer = << >> /\ taken = << >> /\ awake = TRUE /\ Len(<< >>) = 0
  BY DEF Init
<1>3. NoLineLeftInBuffer
  BY <1>2 DEF NoLineLeftInBuffer, ToSet
<1>4. BufferIsTail
  BY <1>2 DEF BufferIsTail, Cut
<1> QED
  BY <1>1, <1>2, <1>3, <1>4 DEF IInv, SleepsOnlyOnBody

LEMMA SpecStreamInv ==
  Spec => []IInv
<1>1. IInv /\ [Next]_vars => IInv'
  BY TypeStep, NoLineLeftStep, BufferIsTailStep, SleepsStep DEF IInv
<1> QED
  BY <1>1, StreamInit, PTL DEF Spec

\* Every '\n' is found when it arrives: append_frame scans only the new bytes,
\* and none of the old ones is a '\n'.
THEOREM ScanMissesNoLine == Spec => []NoLineLeftInBuffer
<1>1. IInv => NoLineLeftInBuffer
  BY DEF IInv
<1> QED
  BY <1>1, SpecStreamInv, PTL

\* No byte is lost or kept twice: the buffer is the unterminated end of what
\* the body gave, in frames of any size.
THEOREM BufferHoldsTail == Spec => []BufferIsTail
<1>1. IInv => BufferIsTail
  BY DEF IInv
<1> QED
  BY <1>1, SpecStreamInv, PTL

\* poll_next returns Pending only with its task woken again or its waker in
\* the hands of the body.
THEOREM NoLostWakeup == Spec => []SleepsOnlyOnBody
<1>1. IInv => SleepsOnlyOnBody
  BY DEF IInv
<1> QED
  BY <1>1, SpecStreamInv, PTL

-----------------------------------------------------------------------------
(***************************************************************************)
(* The i-th of a set of positions, as LinesOf and CutLines choose it.      *)
(***************************************************************************)

UpTo(E, p) == {q \in E : q <= p}
Rank(E, p) == Cardinality(UpTo(E, p))
NthOf(E, i) == CHOOSE p \in E : Rank(E, p) = i

\* Sets of positions are finite, and so are their parts.
LEMMA PositionsFinite ==
  ASSUME NEW n \in Nat, NEW E \in SUBSET (1..n)
  PROVE  /\ IsFiniteSet(E) /\ Cardinality(E) \in Nat
         /\ \A T \in SUBSET E :
              IsFiniteSet(T) /\ Cardinality(T) \in Nat /\ Cardinality(T) <= Cardinality(E)
<1>1. IsFiniteSet(1..n)
  BY FS_Interval
<1>2. IsFiniteSet(E)
  BY <1>1, FS_Subset
<1>3. \A T \in SUBSET E : IsFiniteSet(T) /\ Cardinality(T) <= Cardinality(E)
  BY <1>2, FS_Subset
<1> QED
  BY <1>2, <1>3, FS_CardinalityType

\* A later position has a greater rank.
LEMMA RankGrows ==
  ASSUME NEW n \in Nat, NEW E \in SUBSET (1..n), NEW p \in E
  PROVE  /\ Rank(E, p) \in 1..Cardinality(E)
         /\ \A q \in E : p < q => Rank(E, p) < Rank(E, q)
<1>1. UpTo(E, p) \in SUBSET E /\ p \in UpTo(E, p) /\ p \in Nat
  BY DEF UpTo
<1>2. /\ IsFiniteSet(UpTo(E, p)) /\ Cardinality(UpTo(E, p)) \in Nat
      /\ Cardinality(UpTo(E, p)) <= Cardinality(E) /\ Cardinality(E) \in Nat
  BY <1>1, PositionsFinite
<1>3. Cardinality(UpTo(E, p)) # 0
  BY <1>1, <1>2, FS_EmptySet
<1>4. ASSUME NEW q \in E, p < q
      PROVE  Rank(E, p) < Rank(E, q)
  <2>1. q \in Nat /\ UpTo(E, q) \in SUBSET E
    BY DEF UpTo
  <2>2. UpTo(E, p) \cup {q} \in SUBSET UpTo(E, q) /\ q \notin UpTo(E, p)
    <3>1. \A x \in E : x \in Nat
      OBVIOUS
    <3>2. \A x \in E : x <= p => x <= q
      BY <1>1, <1>4, <2>1, <3>1
    <3>3. q <= q /\ ~(q <= p)
      BY <1>1, <1>4, <2>1
    <3> QED
      BY <3>2, <3>3 DEF UpTo
  <2>3. Cardinality(UpTo(E, p) \cup {q}) = Cardinality(UpTo(E, p)) + 1
    BY <1>2, <2>2, FS_AddElement
  <2>4. IsFiniteSet(UpTo(E, q)) /\ Cardinality(UpTo(E, q)) \in Nat
    BY <2>1, PositionsFinite
  <2>5. Cardinality(UpTo(E, p) \cup {q}) <= Cardinality(UpTo(E, q))
    BY <2>2, <2>4, FS_Subset
  <2> QED
    BY <1>2, <2>3, <2>4, <2>5 DEF Rank
<1> QED
  BY <1>2, <1>3, <1>4 DEF Rank

\* Every rank up to the size of the set is that of some position.
LEMMA RankReached ==
  \A n \in Nat : \A E \in SUBSET (1..n) :
    \A i \in 1..Cardinality(E) : \E p \in E : Rank(E, p) = i
<1> DEFINE Reached(E) == \A i \in 1..Cardinality(E) : \E p \in E : Rank(E, p) = i
           P == {n \in Nat : \A E \in SUBSET (1..n) : Reached(E)}
<1>1. 0 \in P
  <2> SUFFICES ASSUME NEW E \in SUBSET (1..0) PROVE Reached(E)
    OBVIOUS
  <2>1. E = {}
    OBVIOUS
  <2>2. Cardinality(E) = 0
    BY <2>1, FS_EmptySet
  <2> QED
    BY <2>2
<1>2. ASSUME NEW n \in Nat, n \in P PROVE n + 1 \in P
  <2> SUFFICES ASSUME NEW E \in SUBSET (1..(n + 1)) PROVE Reached(E)
    OBVIOUS
  <2>1. CASE n + 1 \notin E
    <3>1. E \in SUBSET (1..n)
      BY <2>1
    <3> QED
      BY <1>2, <3>1
  <2>2. CASE n + 1 \in E
    <3> DEFINE F == E \ {n + 1}
    <3>1. F \in SUBSET (1..n) /\ n + 1 \notin F /\ F \cup {n + 1} = E
      BY <2>2
    <3>2. Reached(F)
      BY <1>2, <3>1
    <3> HIDE DEF F
    <3>3. IsFiniteSet(F) /\ Cardinality(F) \in Nat
      BY <3>1, PositionsFinite
    <3>4. Cardinality(E) = Cardinality(F) + 1
      BY <3>1, <3>3, FS_AddElement
    <3>5. UpTo(E, n + 1) = E
      <4>1. \A q \in E : q <= n + 1
        OBVIOUS
      <4> QED
        BY <4>1 DEF UpTo
    <3>6. ASSUME NEW p \in F PROVE UpTo(E, p) = UpTo(F, p)
      <4>1. p \in 1..n /\ ~(n + 1 <= p)
        BY <3>1
      <4> QED
        BY <3>1, <4>1 DEF UpTo
    <3>7. ASSUME NEW i \in 1..Cardinality(E)
          PROVE  \E p \in E : Rank(E, p) = i
      <4>1. CASE i = Cardinality(E)
        <5>1. Rank(E, n + 1) = i
          BY <3>5, <4>1 DEF Rank
        <5> QED
          BY <2>2, <5>1
      <4>2. CASE i # Cardinality(E)
        <5>1. i \in 1..Cardinality(F)
          BY <3>3, <3>4, <4>2
        <5>2. PICK p \in F : Rank(F, p) = i
          BY <3>2, <5>1
        <5>3. Rank(E, p) = i /\ p \in E
          BY <3>1, <3>6, <5>2 DEF Rank
        <5> QED
          BY <5>3
      <4> QED
        BY <4>1, <4>2
    <3> QED
      BY <3>7
  <2> QED
    BY <2>1, <2>2
<1> HIDE DEF P
<1>3. \A n \in Nat : n \in P
  BY <1>1, <1>2, Parsed!NumbersByInduction
<1> QED
  BY <1>3 DEF P

\* There is one i-th position and no other.
LEMMA NthIs ==
  ASSUME NEW n \in Nat, NEW E \in SUBSET (1..n), NEW i \in 1..Cardinality(E)
  PROVE  /\ NthOf(E, i) \in E /\ NthOf(E, i) \in 1..n /\ Rank(E, NthOf(E, i)) = i
         /\ \A p \in E : Rank(E, p) = i => p = NthOf(E, i)
<1>1. \E p \in E : Rank(E, p) = i
  BY RankReached
<1>2. NthOf(E, i) \in E /\ Rank(E, NthOf(E, i)) = i
  BY <1>1, Zenon DEF NthOf
<1>3. \A p \in E, q \in E : p < q => Rank(E, p) < Rank(E, q)
  BY RankGrows
<1>4. \A p \in E : Rank(E, p) \in Nat /\ p \in Nat
  <2>1. Cardinality(E) \in Nat
    BY PositionsFinite
  <2>2. \A p \in E : Rank(E, p) \in 1..Cardinality(E)
    BY RankGrows
  <2> QED
    BY <2>1, <2>2
<1> DEFINE m == NthOf(E, i)
<1>5. m \in E /\ Rank(E, m) = i
  BY <1>2
<1> HIDE DEF m
<1>6. ASSUME NEW p \in E, Rank(E, p) = i PROVE p = m
  BY <1>3, <1>4, <1>5, <1>6
<1>7. m \in 1..n
  BY <1>5
<1> QED
  BY <1>5, <1>6, <1>7 DEF m

\* The positions before the i-th are those up to the one before it.
LEMMA NthOrder ==
  ASSUME NEW n \in Nat, NEW E \in SUBSET (1..n), NEW i \in 1..Cardinality(E)
  PROVE  /\ i = 1 => \A q \in E : ~(q < NthOf(E, 1))
         /\ i > 1 => /\ NthOf(E, i - 1) \in E /\ NthOf(E, i - 1) < NthOf(E, i)
                     /\ \A q \in E : q < NthOf(E, i) => q <= NthOf(E, i - 1)
<1>1. Cardinality(E) \in Nat
  BY PositionsFinite
<1>2. \A p \in E, q \in E : p < q => Rank(E, p) < Rank(E, q)
  BY RankGrows
<1>3. \A p \in E : Rank(E, p) \in 1..Cardinality(E) /\ p \in Nat
  <2>1. \A p \in E : Rank(E, p) \in 1..Cardinality(E)
    BY RankGrows
  <2>2. \A p \in E : p \in Nat
    OBVIOUS
  <2> QED
    BY <2>1, <2>2
<1> DEFINE m == NthOf(E, i)
<1>4. m \in E /\ Rank(E, m) = i
  BY NthIs
<1> HIDE DEF m
<1>5. i = 1 => \A q \in E : ~(q < m)
  BY <1>2, <1>3, <1>4
<1>6. CASE i > 1
  <2> DEFINE k == NthOf(E, i - 1)
  <2>1. i - 1 \in 1..Cardinality(E)
    BY <1>1, <1>6
  <2>2. k \in E /\ Rank(E, k) = i - 1
    BY <2>1, NthIs
  <2> HIDE DEF k
  <2>3. k < m
    <3>1. ~(m < k) /\ m # k
      BY <1>1, <1>2, <1>4, <1>6, <2>2
    <3>2. m \in Nat /\ k \in Nat
      BY <1>3, <1>4, <2>2
    <3> QED
      BY <3>1, <3>2
  <2>4. ASSUME NEW q \in E, q < m PROVE q <= k
    <3>1. Rank(E, q) < i
      BY <1>2, <1>4, <2>4
    <3>2. ~(k < q)
      <4> SUFFICES ASSUME k < q PROVE FALSE
        OBVIOUS
      <4>1. i - 1 < Rank(E, q) /\ Rank(E, q) \in Nat
        BY <1>1, <1>2, <1>3, <2>2
      <4> QED
        BY <1>1, <3>1, <4>1
    <3>3. q \in Nat /\ k \in Nat
      BY <1>3, <2>2
    <3> QED
      BY <3>2, <3>3
  <2> QED
    BY <1>6, <2>2, <2>3, <2>4 DEF k, m
<1> QED
  BY <1>1, <1>5, <1>6 DEF m

\* The elements of two sets with none in common.
LEMMA CountOfBoth ==
  ASSUME NEW A, NEW B, IsFiniteSet(A), IsFiniteSet(B), A \cap B = {}
  PROVE  Cardinality(A \cup B) = Cardinality(A) + Cardinality(B)
<1>1. Cardinality(A \cup B) = Cardinality(A) + Cardinality(B) - Cardinality(A \cap B)
  BY FS_Union
<1>2. Cardinality(A \cap B) = 0
  BY FS_EmptySet
<1>3. Cardinality(A) \in Nat /\ Cardinality(B) \in Nat
  BY FS_CardinalityType
<1> QED
  BY <1>1, <1>2, <1>3

\* Positions behind those of E are counted after them.
LEMMA NthOfJoined ==
  ASSUME NEW a \in Nat, NEW E \in SUBSET (1..a),
         NEW n \in Nat, NEW F \in SUBSET ((a + 1)..n), a <= n
  PROVE  /\ Cardinality(E \cup F) = Cardinality(E) + Cardinality(F)
         /\ \A i \in 1..Cardinality(E) : NthOf(E \cup F, i) = NthOf(E, i)
         /\ \A i \in 1..Cardinality(F) :
              NthOf(E \cup F, Cardinality(E) + i) = NthOf(F, i)
<1> DEFINE G == E \cup F
<1>1. /\ E \in SUBSET (1..n) /\ F \in SUBSET (1..n) /\ G \in SUBSET (1..n)
      /\ E \cap F = {}
  OBVIOUS
<1>2. /\ IsFiniteSet(E) /\ IsFiniteSet(F) /\ Cardinality(E) \in Nat
      /\ Cardinality(F) \in Nat
  BY <1>1, PositionsFinite
<1>3. Cardinality(G) = Cardinality(E) + Cardinality(F)
  BY <1>1, <1>2, CountOfBoth
<1>4. ASSUME NEW p \in E PROVE Rank(G, p) = Rank(E, p)
  <2>1. \A q \in F : ~(q <= p)
    OBVIOUS
  <2>2. UpTo(G, p) = UpTo(E, p)
    BY <2>1 DEF UpTo
  <2> QED
    BY <2>2 DEF Rank
<1>5. ASSUME NEW p \in F PROVE Rank(G, p) = Cardinality(E) + Rank(F, p)
  <2>1. \A q \in E : q <= p
    OBVIOUS
  <2>2. UpTo(G, p) = E \cup UpTo(F, p) /\ UpTo(F, p) \in SUBSET F
    BY <2>1 DEF UpTo
  <2>3. IsFiniteSet(UpTo(F, p)) /\ Cardinality(UpTo(F, p)) \in Nat
    BY <1>1, <2>2, PositionsFinite
  <2>4. E \cap UpTo(F, p) = {}
    BY <1>1, <2>2
  <2>5. Cardinality(E \cup UpTo(F, p)) = Cardinality(E) + Cardinality(UpTo(F, p))
    BY <1>2, <2>3, <2>4, CountOfBoth
  <2> QED
    BY <2>2, <2>5 DEF Rank
<1>6. E \subseteq G /\ F \subseteq G
  OBVIOUS
<1> HIDE DEF G
<1>7. ASSUME NEW i \in 1..Cardinality(E) PROVE NthOf(G, i) = NthOf(E, i)
  <2>1. NthOf(E, i) \in E /\ Rank(E, NthOf(E, i)) = i
    BY NthIs
  <2>2. NthOf(E, i) \in G /\ Rank(G, NthOf(E, i)) = i
    BY <1>4, <1>6, <2>1
  <2>3. i \in 1..Cardinality(G)
    BY <1>2, <1>3
  <2>4. \A p \in G : Rank(G, p) = i => p = NthOf(G, i)
    BY <1>1, <2>3, NthIs
  <2> QED
    BY <2>2, <2>4, Zenon
<1>8. ASSUME NEW i \in 1..Cardinality(F)
      PROVE  NthOf(G, Cardinality(E) + i) = NthOf(F, i)
  <2>1. NthOf(F, i) \in F /\ Rank(F, NthOf(F, i)) = i
    BY <1>1, NthIs
  <2>2. NthOf(F, i) \in G /\ Rank(G, NthOf(F, i)) = Cardinality(E) + i
    BY <1>5, <1>6, <2>1
  <2>3. Cardinality(E) + i \in 1..Cardinality(G)
    BY <1>2, <1>3
  <2> DEFINE k == Cardinality(E) + i
  <2>4. k \in 1..Cardinality(G) /\ Rank(G, NthOf(F, i)) = k
    BY <2>2, <2>3
  <2> HIDE DEF k
  <2>5. \A p \in G : Rank(G, p) = k => p = NthOf(G, k)
    BY <1>1, <2>4, NthIs
  <2> QED
    BY <2>2, <2>4, <2>5, Zenon DEF k
<1> QED
  BY <1>3, <1>7, <1>8 DEF G

\* Moving a set of positions moves its i-th position.
Moved(E, k) == {k + q : q \in E}

LEMMA CountOfMoved ==
  ASSUME NEW n \in Nat, NEW E \in SUBSET (1..n), NEW k \in Nat
  PROVE  IsFiniteSet(Moved(E, k)) /\ Cardinality(Moved(E, k)) = Cardinality(E)
<1> DEFINE f == [q \in E |-> k + q]
<1>1. \A q \in E : q \in Nat
  OBVIOUS
<1>2. f \in [E -> Moved(E, k)] /\ \A y \in Moved(E, k) : \E q \in E : f[q] = y
  BY DEF Moved
<1>3. \A p, q \in E : f[p] = f[q] => p = q
  BY <1>1
<1>4. f \in Bijection(E, Moved(E, k))
  <2> HIDE DEF f
  <2> QED
    BY <1>2, <1>3 DEF Bijection, Injection, Surjection, IsInjective
<1>5. ExistsBijection(E, Moved(E, k))
  BY <1>4 DEF ExistsBijection
<1>6. IsFiniteSet(E)
  BY PositionsFinite
<1> QED
  BY <1>5, <1>6, FS_Bijection

LEMMA NthOfMoved ==
  ASSUME NEW n \in Nat, NEW E \in SUBSET (1..n), NEW k \in Nat,
         NEW i \in 1..Cardinality(E)
  PROVE  NthOf(Moved(E, k), i) = k + NthOf(E, i)
<1>1. Moved(E, k) \in SUBSET (1..(k + n))
  BY DEF Moved
<1>2. Cardinality(Moved(E, k)) = Cardinality(E)
  BY CountOfMoved
<1> DEFINE m == NthOf(E, i)
<1>3. m \in E /\ m \in 1..n /\ Rank(E, m) = i
  BY NthIs
<1> HIDE DEF m
<1>4. k + m \in Moved(E, k)
  BY <1>3 DEF Moved
<1>5. UpTo(Moved(E, k), k + m) = Moved(UpTo(E, m), k)
  <2>1. \A q \in E : q \in Nat /\ (k + q <= k + m <=> q <= m)
    BY <1>3
  <2> QED
    BY <2>1 DEF UpTo, Moved
<1>6. Rank(Moved(E, k), k + m) = i
  <2>1. UpTo(E, m) \in SUBSET (1..n)
    BY DEF UpTo
  <2>2. Cardinality(Moved(UpTo(E, m), k)) = Cardinality(UpTo(E, m))
    BY <2>1, CountOfMoved
  <2> QED
    BY <1>3, <1>5, <2>2, Zenon DEF Rank
<1> DEFINE F == Moved(E, k)
           N == k + n
           p == k + m
<1>7. /\ N \in Nat /\ F \in SUBSET (1..N) /\ i \in 1..Cardinality(F)
      /\ p \in F /\ Rank(F, p) = i
  BY <1>1, <1>2, <1>4, <1>6
<1> HIDE DEF F, N, p
<1>8. p = NthOf(F, i)
  BY <1>7, NthIs
<1> QED
  BY <1>8 DEF p, F, m

-----------------------------------------------------------------------------
(***************************************************************************)
(* The lines of a frame go on from the lines before it.                    *)
(***************************************************************************)

Ends(s) == {p \in 1..Len(s) : s[p] = NL}

\* Where the i-th line starts, less 1: just after the end before it.
Start(E, i) == IF i = 1 THEN 0 ELSE NthOf(E, i - 1)

\* The bytes of a are those of b from k on, as far as b goes.
SameFrom(a, b, k) ==
  /\ a \in Seq(Symbols) /\ b \in Seq(Symbols)
  /\ \A i \in 1..Len(a) : k + i <= Len(b) => a[i] = b[k + i]

SameParts(a, b, k) ==
  \A to \in 0..Len(a) : \A from \in 0..to : k + to <= Len(b) =>
    SubSeq(a, from + 1, to) = SubSeq(b, k + from + 1, k + to)

LEMMA SameBytes ==
  \A a, b : \A k \in Nat : SameFrom(a, b, k) => SameParts(a, b, k)
<1> SUFFICES ASSUME NEW a \in Seq(Symbols), NEW b \in Seq(Symbols), NEW k \in Nat,
                    NEW to \in 0..Len(a), NEW from \in 0..to, k + to <= Len(b),
                    \A i \in 1..Len(a) : k + i <= Len(b) => a[i] = b[k + i]
             PROVE  SubSeq(a, from + 1, to) = SubSeq(b, k + from + 1, k + to)
  BY Zenon DEF SameFrom, SameParts
<1>1. Len(a) \in Nat /\ Len(b) \in Nat /\ from \in Nat /\ to \in Nat
  BY LenProperties
<1> DEFINE x == SubSeq(a, from + 1, to)
           f2 == k + from
           t2 == k + to
           y == SubSeq(b, f2 + 1, t2)
<1>2. t2 \in 0..Len(b) /\ f2 \in 0..t2 /\ t2 - f2 = to - from
  BY <1>1
<1>3. /\ x \in Seq(Symbols) /\ Len(x) = to - from
      /\ \A i \in 1..to - from : x[i] = a[from + i]
  BY Between
<1>4. \A i \in 1..to - from :
        from + i \in 1..Len(a) /\ k + (from + i) <= Len(b) /\ f2 + i = k + (from + i)
  BY <1>1
<1> HIDE DEF f2, t2, x
<1>5. /\ y \in Seq(Symbols) /\ Len(y) = t2 - f2
      /\ \A i \in 1..t2 - f2 : y[i] = b[f2 + i]
  BY <1>2, Between
<1> HIDE DEF y
<1>6. \A i \in 1..to - from : x[i] = y[i]
  BY <1>2, <1>3, <1>4, <1>5
<1>7. x = y
  BY <1>2, <1>3, <1>5, <1>6, SeqEqual
<1> QED
  BY <1>7 DEF x, y, f2, t2

\* LinesOf, in these words.
LEMMA LinesOfEnds ==
  ASSUME NEW s \in Seq(Symbols)
  PROVE  LinesOf(s) = [i \in 1..Cardinality(Ends(s)) |->
                         SubSeq(s, Start(Ends(s), i) + 1, NthOf(Ends(s), i) - 1)]
<1> DEFINE E == Ends(s)
           Begin(i) == IF i = 1 THEN 1 ELSE NthOf(E, i - 1) + 1
<1>1. LinesOf(s) = [i \in 1..Cardinality(E) |-> SubSeq(s, Begin(i), NthOf(E, i) - 1)]
  BY Zenon DEF LinesOf, Ends, NthOf, Rank, UpTo
<1>2. \A i : Begin(i) = Start(E, i) + 1
  BY DEF Start
<1> HIDE DEF Begin, E
<1>3. LinesOf(s) = [i \in 1..Cardinality(E) |-> SubSeq(s, Start(E, i) + 1, NthOf(E, i) - 1)]
  BY <1>1, <1>2, Zenon
<1> QED
  BY <1>3 DEF E

LEMMA StartInside ==
  ASSUME NEW n \in Nat, NEW E \in SUBSET (1..n), NEW i \in 1..Cardinality(E)
  PROVE  /\ NthOf(E, i) \in 1..n /\ Start(E, i) \in 0..(NthOf(E, i) - 1)
         /\ Start(E, i) # 0 => Start(E, i) \in E
         /\ \A q \in E : q < NthOf(E, i) => q <= Start(E, i)
<1>1. NthOf(E, i) \in 1..n
  BY NthIs
<1>2. CASE i = 1
  <2>1. Start(E, i) = 0
    BY <1>2, Zenon DEF Start
  <2>2. \A q \in E : ~(q < NthOf(E, i))
    BY <1>2, NthOrder
  <2> QED
    BY <1>1, <2>1, <2>2
<1>3. CASE i > 1
  <2>1. /\ NthOf(E, i - 1) \in E /\ NthOf(E, i - 1) < NthOf(E, i)
        /\ \A q \in E : q < NthOf(E, i) => q <= NthOf(E, i - 1)
    BY <1>3, NthOrder
  <2>2. Start(E, i) = NthOf(E, i - 1)
    <3>1. i # 1
      BY <1>3
    <3> QED
      BY <3>1, Zenon DEF Start
  <2>3. Start(E, i) \in E /\ Start(E, i) < NthOf(E, i)
    BY <2>1, <2>2, Zenon
  <2>4. \A q \in E : q < NthOf(E, i) => q <= Start(E, i)
    BY <2>1, <2>2, Zenon
  <2>5. Start(E, i) \in 1..n
    BY <2>3
  <2> QED
    BY <1>1, <2>3, <2>4, <2>5
<1>4. Cardinality(E) \in Nat
  BY PositionsFinite
<1> QED
  BY <1>2, <1>3, <1>4

\* `processed`, when the scan comes to the i-th '\n', is where its line starts.
LEMMA ProcessedIsStart ==
  ASSUME NEW s \in Seq(Symbols), NEW old \in Nat,
         NEW i \in 1..Cardinality(Newlines(s, old))
  PROVE  Processed(Newlines(s, old), NthOf(Newlines(s, old), i))
           = Start(Newlines(s, old), i)
<1> DEFINE nls == Newlines(s, old)
           p == NthOf(nls, i)
           from == Start(nls, i)
           P == Processed(nls, p)
<1>1. Len(s) \in Nat /\ nls \in SUBSET (1..Len(s))
  BY LenProperties DEF Newlines
<1>2. /\ p \in 1..Len(s) /\ from \in 0..(p - 1) /\ (from # 0 => from \in nls)
      /\ \A q \in nls : q < p => q <= from
  BY <1>1, StartInside
<1>3. p \in Nat
  BY <1>2
<1> HIDE DEF nls, p, from
<1> DEFINE Before == {0} \cup {q \in nls : q < p}
<1>4. P = Max(Before)
  BY DEF Processed
<1>5. from \in Before /\ \A q \in Before : from >= q
  <2>1. from \in Nat /\ from < p
    BY <1>2
  <2>2. \A q \in nls : q < p => from >= q
    BY <1>1, <1>2, <2>1
  <2>3. from >= 0
    BY <2>1
  <2> QED
    BY <1>2, <2>1, <2>2, <2>3
<1>6. \A q \in Before : q \in Nat
  BY <1>1
<1> HIDE DEF Before
<1>7. \A x \in Before : (\A q \in Before : x >= q) => x = from
  BY <1>5, <1>6
<1>8. Max(Before) = from
  BY <1>5, <1>7, Zenon DEF Max
<1> QED
  BY <1>4, <1>8, Zenon DEF nls, p, from

\* CutLines, in these words: how the VecDeque is wrapped makes no difference.
LEMMA CutLinesEnds ==
  ASSUME NEW s \in Seq(Symbols), NEW old \in Nat, NEW cut \in 0..Len(s)
  PROVE  CutLines(s, old, cut) =
           [i \in 1..Cardinality(Newlines(s, old)) |->
              SubSeq(s, Start(Newlines(s, old), i) + 1, NthOf(Newlines(s, old), i) - 1)]
<1> DEFINE nls == Newlines(s, old)
           Piece(i) == Copied(s, cut, Processed(nls, NthOf(nls, i)), NthOf(nls, i) - 1)
           Line(i) == SubSeq(s, Start(nls, i) + 1, NthOf(nls, i) - 1)
<1>1. CutLines(s, old, cut) = [i \in 1..Cardinality(nls) |-> Piece(i)]
  BY Zenon DEF CutLines, NthOf, Rank, UpTo
<1>2. Len(s) \in Nat /\ nls \in SUBSET (1..Len(s))
  BY LenProperties DEF Newlines
<1>3. ASSUME NEW i \in 1..Cardinality(nls) PROVE Piece(i) = Line(i)
  <2> DEFINE start == Start(nls, i)
             end == NthOf(nls, i) - 1
  <2>1. NthOf(nls, i) \in 1..Len(s) /\ start \in 0..(NthOf(nls, i) - 1)
    BY <1>2, StartInside
  <2>2. end \in 0..Len(s) /\ start \in 0..end
    BY <1>2, <2>1
  <2>3. Processed(nls, NthOf(nls, i)) = start
    BY ProcessedIsStart
  <2> HIDE DEF start, end
  <2>4. Copied(s, cut, start, end) = SubSeq(s, start + 1, end)
    BY <2>2, CopiedIsSubSeq
  <2> QED
    BY <2>3, <2>4, Zenon DEF start, end
<1> HIDE DEF Piece, Line
<1>4. [i \in 1..Cardinality(nls) |-> Piece(i)] = [i \in 1..Cardinality(nls) |-> Line(i)]
  BY <1>3, Zenon
<1> QED
  BY <1>1, <1>4, Zenon DEF Line

\* Each of these lines is a sequence of bytes.
LEMMA LinesAreBytes ==
  ASSUME NEW s \in Seq(Symbols), NEW E \in SUBSET (1..Len(s))
  PROVE  [i \in 1..Cardinality(E) |-> SubSeq(s, Start(E, i) + 1, NthOf(E, i) - 1)]
           \in Seq(Seq(Symbols))
<1>1. Len(s) \in Nat
  BY LenProperties
<1>2. Cardinality(E) \in Nat
  BY <1>1, PositionsFinite
<1>3. ASSUME NEW i \in 1..Cardinality(E)
      PROVE  SubSeq(s, Start(E, i) + 1, NthOf(E, i) - 1) \in Seq(Symbols)
  <2> DEFINE from == Start(E, i)
             to == NthOf(E, i) - 1
  <2>1. NthOf(E, i) \in 1..Len(s) /\ from \in 0..(NthOf(E, i) - 1)
    BY <1>1, StartInside
  <2>2. to \in 0..Len(s) /\ from \in 0..to
    BY <1>1, <2>1
  <2> HIDE DEF from, to
  <2>3. SubSeq(s, from + 1, to) \in Seq(Symbols)
    BY <2>2, Between
  <2> QED
    BY <2>3 DEF from, to
<1> DEFINE n == Cardinality(E)
           lines == [i \in 1..n |-> SubSeq(s, Start(E, i) + 1, NthOf(E, i) - 1)]
<1>4. n \in Nat /\ lines \in [1..n -> Seq(Symbols)]
  BY <1>2, <1>3
<1> HIDE DEF n, lines
<1>5. lines \in Seq(Seq(Symbols))
  BY <1>4, IsASeq
<1> QED
  BY <1>5 DEF n, lines

\* The first line starts the sequence, the others just after the end before.
LEMMA StartFirst == \A E : Start(E, 1) = 0
  BY Zenon DEF Start
LEMMA StartLater == \A E, i : i # 1 => Start(E, i) = NthOf(E, i - 1)
  BY Zenon DEF Start

\* The positions of t and those of the frame, which starts in the buffer at c: they
\* are counted one after the other, and the first line of the frame starts at c.
Apart(a, E, n, M, c) ==
  /\ a \in Nat /\ E \in SUBSET (1..a) /\ n \in Nat /\ M \in SUBSET (1..n)
  /\ c \in Nat /\ a <= c + n
  /\ \A q \in M : c + q > a
  /\ \A q \in E : q <= c
  /\ c > 0 => c \in E

InTurn(G, E, M, c, e, f) ==
  /\ e \in Nat /\ f \in Nat /\ Cardinality(G) = e + f
  /\ \A i \in 1..e : NthOf(G, i) = NthOf(E, i) /\ Start(G, i) = Start(E, i)
  /\ \A i \in 1..f : /\ NthOf(G, e + i) = c + NthOf(M, i)
                     /\ Start(G, e + i) = c + Start(M, i)

LEMMA EndsJoin ==
  \A a, E, n, M, c : Apart(a, E, n, M, c) =>
    InTurn(E \cup Moved(M, c), E, M, c, Cardinality(E), Cardinality(M))
<1> SUFFICES ASSUME NEW a, NEW E, NEW n, NEW M, NEW c, Apart(a, E, n, M, c),
                    NEW G, NEW e, NEW f,
                    G = E \cup Moved(M, c), e = Cardinality(E), f = Cardinality(M)
             PROVE  InTurn(G, E, M, c, e, f)
  OBVIOUS
<1> USE DEF Apart
<1> DEFINE F == Moved(M, c)
           k == c + n
<1>1. k \in Nat /\ a <= k /\ F \in SUBSET ((a + 1)..k)
  <2>1. \A q \in M : c + q \in (a + 1)..(c + n)
    OBVIOUS
  <2> QED
    BY <2>1 DEF Moved
<1>2. e \in Nat /\ f \in Nat /\ Cardinality(F) = f
  BY PositionsFinite, CountOfMoved
<1> HIDE DEF F, k
<1>3. /\ Cardinality(E \cup F) = Cardinality(E) + Cardinality(F)
      /\ \A i \in 1..Cardinality(E) : NthOf(E \cup F, i) = NthOf(E, i)
      /\ \A i \in 1..Cardinality(F) : NthOf(E \cup F, Cardinality(E) + i) = NthOf(F, i)
  <2>1. a \in Nat /\ E \in SUBSET (1..a)
    OBVIOUS
  <2> HIDE DEF Apart
  <2> QED
    BY <1>1, <2>1, NthOfJoined
<1>4. G = E \cup F
  BY DEF F
<1>5. /\ Cardinality(G) = e + f
      /\ \A i \in 1..e : NthOf(G, i) = NthOf(E, i)
      /\ \A i \in 1..f : NthOf(G, e + i) = NthOf(F, i)
  <2> HIDE DEF Apart
  <2> QED
    BY <1>2, <1>3, <1>4
<1>6. \A i \in 1..f : NthOf(F, i) = c + NthOf(M, i)
  <2>1. \A i \in 1..Cardinality(M) : NthOf(Moved(M, c), i) = c + NthOf(M, i)
    BY NthOfMoved
  <2> QED
    BY <2>1, Zenon DEF F
<1>7. \A i \in 1..f : NthOf(G, e + i) = c + NthOf(M, i)
  BY <1>5, <1>6, Zenon
\* The last position of E, if it has one, is c.
<1>8. e = 0 => c = 0
  <2>1. IsFiniteSet(E)
    BY PositionsFinite
  <2>2. e = 0 => E = {}
    BY <2>1, FS_EmptySet
  <2> QED
    BY <2>2
<1>9. e # 0 => e \in 1..e /\ NthOf(E, e) = c
  <2> SUFFICES ASSUME e # 0 PROVE e \in 1..e /\ NthOf(E, e) = c
    OBVIOUS
  <2>1. c \in E
    <3>1. E # {}
      BY FS_EmptySet
    <3>2. PICK q \in E : TRUE
      BY <3>1
    <3>3. q \in 1..a /\ q <= c
      BY <3>2
    <3>4. c > 0
      BY <3>3
    <3> QED
      BY <3>4
  <2>2. UpTo(E, c) = E
    BY DEF UpTo
  <2>3. Rank(E, c) = e
    BY <2>2 DEF Rank
  <2>4. e \in 1..e
    BY <1>2
  <2>5. \A p \in E : Rank(E, p) = e => p = NthOf(E, e)
    BY <2>4, NthIs
  <2> QED
    BY <2>1, <2>3, <2>4, <2>5
<1>10. ASSUME NEW i \in 1..e PROVE Start(G, i) = Start(E, i)
  <2>1. CASE i = 1
    BY <2>1, StartFirst
  <2>2. CASE i # 1
    <3>1. i - 1 \in 1..e
      BY <1>2, <2>2
    <3>2. NthOf(G, i - 1) = NthOf(E, i - 1)
      BY <1>5, <3>1
    <3> QED
      BY <2>2, <3>2, StartLater
  <2> QED
    BY <2>1, <2>2
<1>11. ASSUME NEW i \in 1..f PROVE Start(G, e + i) = c + Start(M, i)
  <2>1. CASE i = 1 /\ e = 0
    <3>1. e + i = 1 /\ c = 0 /\ Start(M, i) = 0 /\ c + 0 = 0
      BY <1>8, <2>1, StartFirst
    <3> QED
      BY <3>1, StartFirst
  <2>2. CASE i = 1 /\ e # 0
    <3> DEFINE j == e + i
    <3>1. j # 1 /\ j - 1 = e /\ j \in Nat
      BY <1>2, <2>2
    <3> HIDE DEF j
    <3>2. Start(G, j) = NthOf(G, e)
      BY <3>1, StartLater
    <3>3. NthOf(G, e) = c
      BY <1>5, <1>9, <2>2
    <3>4. Start(M, i) = 0 /\ c + 0 = c
      BY <2>2, StartFirst
    <3> QED
      BY <3>2, <3>3, <3>4, Zenon DEF j
  <2>3. CASE i # 1
    <3> DEFINE j == e + i
               h == i - 1
    <3>1. j # 1 /\ h \in 1..f /\ j - 1 = e + h /\ j \in Nat
      BY <1>2, <2>3
    <3>2. Start(M, i) = NthOf(M, h)
      BY <2>3, StartLater
    <3> HIDE DEF j, h
    <3>3. Start(G, j) = NthOf(G, j - 1)
      BY <3>1, StartLater
    <3>4. NthOf(G, e + h) = c + NthOf(M, h)
      BY <1>7, <3>1, Zenon
    <3> QED
      BY <3>1, <3>2, <3>3, <3>4, Zenon DEF j
  <2> QED
    BY <2>1, <2>2, <2>3
<1> QED
  BY <1>2, <1>5, <1>7, <1>10, <1>11 DEF InTurn

LEMMA JoinedAt ==
  \A a, b \in Seq(Symbols) :
    /\ a \o b \in Seq(Symbols)
    /\ Len(a) \in Nat /\ Len(b) \in Nat /\ Len(a \o b) = Len(a) + Len(b)
    /\ \A i \in 1..Len(a) : (a \o b)[i] = a[i]
    /\ \A i \in 1..Len(b) : (a \o b)[Len(a) + i] = b[i]
  OBVIOUS

LEMMA JoinedFrom ==
  ASSUME NEW S, NEW a \in Seq(S), NEW b \in Seq(S), NEW c \in Seq(S),
         Len(c) = Len(a) + Len(b),
         \A i \in 1..Len(a) : c[i] = a[i], \A i \in 1..Len(b) : c[Len(a) + i] = b[i]
  PROVE  c = a \o b
<1> DEFINE d == a \o b
<1>1. /\ d \in Seq(S) /\ Len(d) = Len(a) + Len(b)
      /\ \A i \in 1..Len(a) : d[i] = a[i]
      /\ \A i \in 1..Len(b) : d[Len(a) + i] = b[i]
  OBVIOUS
<1>2. Len(a) \in Nat /\ Len(b) \in Nat
  BY LenProperties
<1> HIDE DEF d
<1>3. ASSUME NEW i \in 1..Len(c) PROVE c[i] = d[i]
  <2>1. CASE i <= Len(a)
    <3>1. i \in 1..Len(a)
      BY <1>2, <2>1
    <3> QED
      BY <1>1, <3>1
  <2>2. CASE i > Len(a)
    <3> DEFINE j == i - Len(a)
    <3>1. j \in 1..Len(b) /\ Len(a) + j = i
      BY <1>2, <2>2
    <3> HIDE DEF j
    <3>2. c[Len(a) + j] = d[Len(a) + j]
      BY <1>1, <3>1
    <3> QED
      BY <3>1, <3>2
  <2> QED
    BY <1>2, <2>1, <2>2
<1>4. c = d
  BY <1>1, <1>3, SeqEqual
<1> QED
  BY <1>4 DEF d

\* b is the end of t, from c on, and stays it when both get longer.
LEMMA SameAfter ==
  ASSUME NEW t \in Seq(Symbols), NEW b \in Seq(Symbols), NEW more \in Seq(Symbols),
         NEW c \in Nat, Len(t) = c + Len(b), \A i \in 1..Len(b) : b[i] = t[c + i]
  PROVE  SameFrom(b \o more, t \o more, c)
<1> DEFINE s == b \o more
           w == t \o more
<1>1. /\ s \in Seq(Symbols) /\ Len(s) = Len(b) + Len(more)
      /\ \A i \in 1..Len(b) : s[i] = b[i]
      /\ \A i \in 1..Len(more) : s[Len(b) + i] = more[i]
  BY JoinedAt, Zenon
<1>2. /\ w \in Seq(Symbols) /\ Len(w) = Len(t) + Len(more)
      /\ \A i \in 1..Len(t) : w[i] = t[i]
      /\ \A i \in 1..Len(more) : w[Len(t) + i] = more[i]
  BY JoinedAt, Zenon
<1>3. Len(t) \in Nat /\ Len(b) \in Nat /\ Len(more) \in Nat
  BY LenProperties
<1> HIDE DEF s, w
<1>4. ASSUME NEW i \in 1..Len(s), c + i <= Len(w) PROVE s[i] = w[c + i]
  <2>1. CASE i <= Len(b)
    <3>1. i \in 1..Len(b) /\ c + i \in 1..Len(t)
      BY <1>3, <2>1
    <3>2. s[i] = b[i] /\ b[i] = t[c + i] /\ w[c + i] = t[c + i]
      BY <1>1, <1>2, <3>1
    <3> QED
      BY <3>2
  <2>2. CASE i > Len(b)
    <3> DEFINE j == i - Len(b)
    <3>1. j \in 1..Len(more) /\ Len(b) + j = i /\ Len(t) + j = c + i
      BY <1>1, <1>3, <2>2
    <3> HIDE DEF j
    <3>2. s[Len(b) + j] = more[j] /\ w[Len(t) + j] = more[j]
      BY <1>1, <1>2, <3>1, Zenon
    <3> QED
      BY <3>1, <3>2, Zenon
  <2> QED
    BY <1>1, <1>3, <2>1, <2>2
<1>5. SameFrom(s, w, c)
  BY <1>1, <1>2, <1>4, Zenon DEF SameFrom
<1> QED
  BY <1>5 DEF s, w

\* What the scan of a frame finds are the lines that the frame adds to those of the
\* bytes before it: the buffer holds those after the last '\n', and holds no '\n'.
Unterminated(t, b, c) ==
  /\ t \in Seq(Symbols) /\ b \in Seq(Symbols) /\ c \in Nat
  /\ Len(t) = c + Len(b)
  /\ c > 0 => t[c] = NL
  /\ \A i \in 1..Len(b) : b[i] = t[c + i] /\ b[i] # NL

Continued(t, more, lines) ==
  /\ LinesOf(t) \in Seq(Seq(Symbols)) /\ lines \in Seq(Seq(Symbols))
  /\ LinesOf(t \o more) = LinesOf(t) \o lines

LEMMA LinesJoin ==
  \A t, b, c : Unterminated(t, b, c) =>
    \A more \in Seq(Symbols) : \A cut \in 0..Len(b \o more) :
      Continued(t, more, CutLines(b \o more, Len(b), cut))
<1> SUFFICES ASSUME NEW t \in Seq(Symbols), NEW b \in Seq(Symbols), NEW more \in Seq(Symbols),
                    NEW c \in Nat, Len(t) = c + Len(b), c > 0 => t[c] = NL,
                    \A i \in 1..Len(b) : b[i] = t[c + i] /\ b[i] # NL,
                    NEW cut \in 0..Len(b \o more)
             PROVE  Continued(t, more, CutLines(b \o more, Len(b), cut))
  BY Zenon DEF Unterminated
<1> DEFINE w == t \o more
           s == b \o more
           old == Len(b)
<1>1. /\ Len(t) \in Nat /\ Len(b) \in Nat /\ Len(more) \in Nat
      /\ w \in Seq(Symbols) /\ Len(w) = Len(t) + Len(more)
      /\ s \in Seq(Symbols) /\ Len(s) = Len(b) + Len(more)
  BY JoinedAt, Zenon
<1>2. \A i \in 1..Len(t) : w[i] = t[i]
  BY JoinedAt, Zenon
<1>17. SameFrom(s, w, c) /\ SameFrom(t, w, 0)
  <2>1. SameFrom(s, w, c)
    BY SameAfter, Zenon
  <2>2. \A i \in 1..Len(t) : 0 + i = i
    BY <1>1
  <2>3. SameFrom(t, w, 0)
    BY <1>1, <1>2, <2>2, Zenon DEF SameFrom
  <2> QED
    BY <2>1, <2>3
<1>3. \A i \in 1..Len(s) : s[i] = w[c + i]
  <2>1. \A i \in 1..Len(s) : c + i <= Len(w)
    BY <1>1
  <2> QED
    BY <1>17, <2>1, Zenon DEF SameFrom
<1>19. SameParts(s, w, c) /\ SameParts(t, w, 0)
  BY <1>17, SameBytes
<1> HIDE DEF w, s
<1> DEFINE E == Ends(t)
           M == Newlines(s, old)
           F == Moved(M, c)
           e == Cardinality(E)
           f == Cardinality(M)
<1>4. /\ E \in SUBSET (1..Len(t)) /\ M \in SUBSET (1..Len(s))
      /\ F \in SUBSET ((Len(t) + 1)..Len(w)) /\ Len(t) <= Len(w)
      /\ Len(w) \in Nat /\ Len(s) \in Nat /\ Len(w) = c + Len(s)
  <2>1. \A q \in M : q \in 1..Len(s) /\ q > Len(b)
    BY DEF Newlines
  <2>2. \A q \in M : c + q \in (Len(t) + 1)..Len(w)
    BY <1>1, <2>1
  <2>3. F \in SUBSET ((Len(t) + 1)..Len(w))
    BY <2>2 DEF Moved
  <2>4. E \in SUBSET (1..Len(t)) /\ M \in SUBSET (1..Len(s))
    BY DEF Ends, Newlines
  <2> QED
    BY <1>1, <2>3, <2>4
<1>5. Ends(w) = E \cup F
  <2>1. \A p \in 1..Len(t) : p \in 1..Len(w) /\ (w[p] = NL <=> t[p] = NL)
    BY <1>1, <1>2
  <2>2. ASSUME NEW p \in (Len(t) + 1)..Len(w)
        PROVE  w[p] = NL <=> p \in F
    <3> DEFINE q == p - c
    <3>1. q \in 1..Len(s) /\ q > old /\ c + q = p
      <4>1. /\ p \in Nat /\ c + Len(b) < p /\ p <= c + Len(b) + Len(more)
            /\ Len(b) \in Nat /\ Len(more) \in Nat
        BY <1>1
      <4>2. p - c \in 1..Len(b) + Len(more) /\ p - c > Len(b) /\ c + (p - c) = p
        BY <4>1
      <4> QED
        BY <1>1, <4>2
    <3>2. s[q] = w[p]
      BY <1>3, <3>1
    <3>3. q \in M <=> w[p] = NL
      BY <3>1, <3>2 DEF Newlines
    <3>4. p \in F <=> q \in M
      <4>1. \A x \in M : x \in Nat
        BY <1>4
      <4>2. \A x \in Nat : c + x = p => x = q
        <5>1. p \in Nat
          BY <1>1
        <5> QED
          BY <5>1
      <4> HIDE DEF q
      <4> QED
        BY <3>1, <4>1, <4>2 DEF Moved
    <3> QED
      BY <3>3, <3>4
  <2>3. \A p \in 1..Len(w) : p \in 1..Len(t) \/ p \in (Len(t) + 1)..Len(w)
    BY <1>1
  <2>4. \A p \in (Len(t) + 1)..Len(w) : p \in 1..Len(w) /\ p \notin 1..Len(t)
    BY <1>1
  <2> QED
    BY <1>4, <2>1, <2>2, <2>3, <2>4 DEF Ends
<1>6. /\ \A q \in M : c + q > Len(t)
      /\ \A q \in E : q <= c
      /\ c > 0 => c \in E
  <2>1. \A q \in M : c + q > Len(t)
    <3>1. \A q \in M : q \in 1..Len(s) /\ q > Len(b)
      BY DEF Newlines
    <3> QED
      BY <1>1, <3>1
  \* The last '\n' before the frame is where the buffer starts.
  <2>2. \A q \in E : q <= c
    <3> SUFFICES ASSUME NEW q \in E, q > c PROVE FALSE
      BY <1>1, <1>4
    <3>1. q \in 1..Len(t) /\ t[q] = NL
      BY DEF Ends
    <3>2. q - c \in 1..Len(b) /\ c + (q - c) = q
      BY <1>1, <3>1
    <3> QED
      BY <3>1, <3>2
  <2>3. c > 0 => c \in E
    <3> SUFFICES ASSUME c > 0 PROVE c \in E
      OBVIOUS
    <3>1. c \in 1..Len(t)
      BY <1>1
    <3> QED
      BY <3>1 DEF Ends
  <2> QED
    BY <2>1, <2>2, <2>3
<1>7. /\ e \in Nat /\ f \in Nat /\ Cardinality(Ends(w)) = e + f
      /\ \A i \in 1..e : /\ NthOf(Ends(w), i) = NthOf(E, i)
                         /\ Start(Ends(w), i) = Start(E, i)
      /\ \A i \in 1..f : /\ NthOf(Ends(w), e + i) = c + NthOf(M, i)
                         /\ Start(Ends(w), e + i) = c + Start(M, i)
  <2>1. Apart(Len(t), E, Len(s), M, c)
    <3> HIDE DEF E, M
    <3>1. Len(t) <= c + Len(s)
      BY <1>4
    <3> QED
      BY <1>1, <1>4, <1>6, <3>1 DEF Apart
  <2>2. InTurn(E \cup F, E, M, c, e, f)
    BY <2>1, EndsJoin, Zenon
  <2>3. InTurn(Ends(w), E, M, c, e, f)
    BY <1>5, <2>2, Zenon
  <2> HIDE DEF E, M, e, f
  <2> QED
    BY <2>3 DEF InTurn
<1> DEFINE line(i) == SubSeq(w, Start(Ends(w), i) + 1, NthOf(Ends(w), i) - 1)
           first(i) == SubSeq(t, Start(E, i) + 1, NthOf(E, i) - 1)
           second(i) == SubSeq(s, Start(M, i) + 1, NthOf(M, i) - 1)
<1>11. ASSUME NEW i \in 1..e PROVE first(i) = line(i)
  <2> DEFINE from == Start(E, i)
             to == NthOf(E, i) - 1
  <2>1. NthOf(E, i) \in 1..Len(t) /\ from \in 0..(NthOf(E, i) - 1)
    BY <1>1, <1>4, StartInside
  <2>2. to \in 0..Len(t) /\ from \in 0..to /\ 0 + to <= Len(w) /\ 0 + from = from /\ 0 + to = to
    <3>1. Len(t) \in Nat /\ Len(w) \in Nat /\ Len(t) <= Len(w)
      BY <1>1
    <3> QED
      BY <2>1, <3>1
  <2>3. Start(Ends(w), i) = from /\ NthOf(Ends(w), i) - 1 = to
    BY <1>7
  <2> HIDE DEF from, to
  <2>4. \A x \in 0..Len(t) : \A y \in 0..x : 0 + x <= Len(w) =>
          SubSeq(t, y + 1, x) = SubSeq(w, 0 + y + 1, 0 + x)
    BY <1>19, Zenon DEF SameParts
  <2>5. SubSeq(t, from + 1, to) = SubSeq(w, 0 + from + 1, 0 + to)
    BY <2>2, <2>4, Zenon
  <2> QED
    BY <2>2, <2>3, <2>5 DEF from, to
<1>12. ASSUME NEW i \in 1..f PROVE second(i) = line(e + i)
  <2> DEFINE from == Start(M, i)
             to == NthOf(M, i) - 1
  <2>1. NthOf(M, i) \in 1..Len(s) /\ from \in 0..(NthOf(M, i) - 1)
    BY <1>4, StartInside
  <2>2. to \in 0..Len(s) /\ from \in 0..to /\ c + to <= Len(w)
    BY <1>1, <1>4, <2>1
  <2>3. Start(Ends(w), e + i) = c + from /\ NthOf(Ends(w), e + i) - 1 = c + to
    <3>1. (c + NthOf(M, i)) - 1 = c + (NthOf(M, i) - 1)
      BY <2>1
    <3>2. Start(Ends(w), e + i) = c + from
      BY <1>7, Zenon
    <3>3. NthOf(Ends(w), e + i) = c + NthOf(M, i)
      BY <1>7, Zenon
    <3>4. NthOf(Ends(w), e + i) - 1 = (c + NthOf(M, i)) - 1
      BY <3>3, Zenon
    <3>5. NthOf(Ends(w), e + i) - 1 = c + (NthOf(M, i) - 1)
      BY <3>1, <3>4, Zenon
    <3> QED
      BY <3>2, <3>5, Zenon
  <2> HIDE DEF from, to
  <2>4. \A x \in 0..Len(s) : \A y \in 0..x : c + x <= Len(w) =>
          SubSeq(s, y + 1, x) = SubSeq(w, c + y + 1, c + x)
    BY <1>19, Zenon DEF SameParts
  <2>5. SubSeq(s, from + 1, to) = SubSeq(w, c + from + 1, c + to)
    BY <2>2, <2>4, Zenon
  <2> QED
    BY <2>3, <2>5, Zenon DEF from, to
<1>13. /\ LinesOf(w) = [i \in 1..e + f |-> line(i)]
       /\ LinesOf(t) = [i \in 1..e |-> first(i)]
       /\ CutLines(s, old, cut) = [i \in 1..f |-> second(i)]
  <2>1. LinesOf(w) = [i \in 1..e + f |-> line(i)]
    <3>1. LinesOf(w) = [i \in 1..Cardinality(Ends(w)) |-> line(i)]
      BY <1>1, LinesOfEnds, Zenon
    <3> QED
      BY <1>7, <3>1, Zenon
  <2>2. LinesOf(t) = [i \in 1..e |-> first(i)]
    BY LinesOfEnds
  <2>3. cut \in 0..Len(s) /\ old \in Nat
    BY <1>1 DEF s
  <2>4. CutLines(s, old, cut) = [i \in 1..f |-> second(i)]
    BY <1>1, <2>3, CutLinesEnds, Zenon
  <2> QED
    BY <2>1, <2>2, <2>4
<1>14. /\ [i \in 1..e |-> first(i)] \in Seq(Seq(Symbols))
       /\ [i \in 1..f |-> second(i)] \in Seq(Seq(Symbols))
       /\ [i \in 1..e + f |-> line(i)] \in Seq(Seq(Symbols))
  <2>1. Ends(w) \in SUBSET (1..Len(w))
    BY DEF Ends
  <2>2. [i \in 1..Cardinality(Ends(w)) |-> line(i)] \in Seq(Seq(Symbols))
    BY <1>1, <2>1, LinesAreBytes, Zenon
  <2>3. [i \in 1..e + f |-> line(i)] \in Seq(Seq(Symbols))
    BY <1>7, <2>2, Zenon
  <2>4. /\ [i \in 1..e |-> first(i)] \in Seq(Seq(Symbols))
        /\ [i \in 1..f |-> second(i)] \in Seq(Seq(Symbols))
    BY <1>1, <1>4, LinesAreBytes
  <2> QED
    BY <2>3, <2>4
<1> DEFINE A == [i \in 1..e |-> first(i)]
           B == [i \in 1..f |-> second(i)]
           C == [i \in 1..e + f |-> line(i)]
<1>15. C = A \o B
  <2> HIDE DEF line, first, second, F, e, f
  <2>1. /\ Len(A) = e /\ \A i \in 1..e : A[i] = first(i)
        /\ Len(B) = f /\ \A i \in 1..f : B[i] = second(i)
        /\ Len(C) = e + f /\ \A i \in 1..e + f : C[i] = line(i)
        /\ {A, B, C} \subseteq Seq(Seq(Symbols))
    BY <1>7, <1>14
  <2> HIDE DEF A, B, C
  <2>3. \A i \in 1..e : i \in 1..e + f /\ C[i] = A[i]
    <3>1. \A i \in 1..e : i \in 1..e + f
      BY <1>7
    <3> QED
      BY <1>11, <2>1, <3>1, Zenon
  <2>4. \A i \in 1..f : e + i \in 1..e + f /\ C[e + i] = B[i]
    <3>1. \A i \in 1..f : e + i \in 1..e + f
      BY <1>7
    <3> QED
      BY <1>12, <2>1, <3>1, Zenon
  <2>5. /\ A \in Seq(Seq(Symbols)) /\ B \in Seq(Seq(Symbols)) /\ C \in Seq(Seq(Symbols))
        /\ Len(C) = Len(A) + Len(B)
    BY <2>1
  <2>6. /\ \A i \in 1..Len(A) : C[i] = A[i]
        /\ \A i \in 1..Len(B) : C[Len(A) + i] = B[i]
    BY <2>1, <2>3, <2>4, Zenon
  <2> QED
    BY <2>5, <2>6, JoinedFrom
<1>16. LinesOf(w) = C /\ LinesOf(t) = A /\ CutLines(s, old, cut) = B
  BY <1>13
<1>18. A \in Seq(Seq(Symbols)) /\ B \in Seq(Seq(Symbols))
  BY <1>14
<1> HIDE DEF A, B, C
<1> QED
  BY <1>15, <1>16, <1>18 DEF w, s, Continued

-----------------------------------------------------------------------------
(***************************************************************************)
(* The frames a body is cut into do not matter to a parser that            *)
(* accumulates.                                                            *)
(***************************************************************************)

\* The parser p as it would be had these items been given before its own.
Given(items, p) == [p EXCEPT !.ready = items \o @]

\* A parser that does a line's work whatever items it has ready, and only adds items
\* to them: its states, a set Parsers of records, and its items, a set Item.
Accumulates(Step(_, _), start, Parsers, Item) ==
  /\ start \in Parsers /\ Failure \notin Item
  /\ \A p \in Parsers :
       /\ p = [x \in DOMAIN p |-> p[x]] /\ "ready" \in DOMAIN p
       /\ p.ready \in Seq(Item)
       /\ \A r \in Seq(Item) : [p EXCEPT !.ready = r] \in Parsers
       /\ \A line \in Seq(Symbols) :
            /\ Step(p, line) \in Parsers
            /\ \A r \in Seq(Item) : Step(Given(r, p), line) = Given(r, Step(p, line))

LEMMA ParsedIs == \A base, s : Parsed!Fold(base, s) = FoldLeft(OnLine, base, s)
  BY Zenon DEF Parsed!Fold, Parsed!FoldLeft, FoldLeft, Parsed!MapThenFoldSet,
               MapThenFoldSet, Parsed!Max, Max

LEMMA CountedIs == \A base, s : Counted!Fold(base, s) = FoldLeft(WithItem, base, s)
  BY Zenon DEF Counted!Fold, Counted!FoldLeft, FoldLeft, Counted!MapThenFoldSet,
               MapThenFoldSet, Counted!Max, Max

\* What the invariant says in these words.
LEMMA WholeIs == \A s : Whole(s) = Parsed!Fold(Idle, LinesOf(s))
  BY ParsedIs, Zenon DEF Whole
LEMMA ItemsIs == Items = Counted!Fold(<< >>, yielded)
  BY CountedIs, Zenon DEF Items
LEMMA AppendedIs ==
  \A bytes, cut : Appended(bytes, cut)
                    = Parsed!Fold(parser, CutLines(buffer \o bytes, Len(buffer), cut))
  BY ParsedIs, Zenon DEF Appended

\* Items given before the lines are read are still there, in front, after them.
LEMMA FoldGiven ==
  ASSUME NEW Parsers, NEW Item, Accumulates(OnLine, Idle, Parsers, Item),
         NEW p \in Parsers, NEW r \in Seq(Item), NEW lines \in Seq(Seq(Symbols))
  PROVE  /\ Parsed!Fold(p, lines) \in Parsers
         /\ Parsed!Fold(Given(r, p), lines) = Given(r, Parsed!Fold(p, lines))
<1> DEFINE L == Seq(Symbols)
           P == {ls \in Seq(L) :
                   /\ Parsed!Fold(p, ls) \in Parsers
                   /\ Parsed!Fold(Given(r, p), ls) = Given(r, Parsed!Fold(p, ls))}
<1>1. << >> \in P
  <2>1. << >> \in Seq(L)
    OBVIOUS
  <2> HIDE DEF L
  <2> QED
    BY <2>1, Parsed!FoldOfEmpty, Zenon
<1>2. ASSUME NEW ls \in Seq(L), NEW line \in L, ls \in P
      PROVE  Append(ls, line) \in P
  <2> DEFINE q == Parsed!Fold(p, ls)
  <2>1. \A base : Parsed!Fold(base, Append(ls, line)) = OnLine(Parsed!Fold(base, ls), line)
    <3> HIDE DEF L
    <3> QED
      BY Parsed!FoldOfAppend
  <2>2. q \in Parsers /\ Parsed!Fold(Given(r, p), ls) = Given(r, q)
    BY <1>2, Zenon
  <2> HIDE DEF q
  <2>3. OnLine(q, line) \in Parsers /\ OnLine(Given(r, q), line) = Given(r, OnLine(q, line))
    BY <2>2, Zenon DEF Accumulates
  <2>4. Append(ls, line) \in Seq(L)
    OBVIOUS
  <2> HIDE DEF L
  <2> QED
    BY <2>1, <2>2, <2>3, <2>4, Zenon DEF q
<1>3. lines \in P
  <2> HIDE DEF P, L
  <2>1. \A ls \in Seq(L) : ls \in P
    BY <1>1, <1>2, Parsed!SequencesByInduction
  <2> QED
    BY <2>1, Zenon DEF L
<1> QED
  BY <1>3, Zenon

\* The parser p with the first of its items given.
Rest(p) == [p EXCEPT !.ready = Tail(@)]

\* An item moves from the ones a parser has ready to the ones given before.
LEMMA GivenFirst ==
  ASSUME NEW Parsers, NEW Item, Accumulates(OnLine, Idle, Parsers, Item),
         NEW p \in Parsers
  PROVE  /\ Given(<< >>, p) = p
         /\ \A r \in Seq(Item) : p.ready # << >> =>
              Given(Append(r, Head(p.ready)), Rest(p)) = Given(r, p)
<1>1. /\ p = [x \in DOMAIN p |-> p[x]] /\ "ready" \in DOMAIN p /\ p.ready \in Seq(Item)
  BY Zenon DEF Accumulates
<1>2. Given(<< >>, p) = p
  <2>1. << >> \o p.ready = p.ready
    BY <1>1
  <2> QED
    BY <1>1, <2>1, Zenon DEF Given
<1>3. ASSUME NEW r \in Seq(Item), p.ready # << >>
      PROVE  Given(Append(r, Head(p.ready)), Rest(p)) = Given(r, p)
  <2> DEFINE head == Head(p.ready)
             rest == Tail(p.ready)
  <2>1. Append(r, head) \o rest = r \o p.ready
    BY <1>1, <1>3
  <2>2. Rest(p) = [p EXCEPT !.ready = rest]
    BY Zenon DEF Rest
  <2> HIDE DEF head, rest
  <2>3. [p EXCEPT !.ready = rest].ready = rest
    BY <1>1, Zenon
  <2>4. Given(Append(r, head), [p EXCEPT !.ready = rest]) = Given(r, p)
    BY <1>1, <2>1, <2>3, Zenon DEF Given
  <2> QED
    BY <2>2, <2>4, Zenon DEF head
<1> QED
  BY <1>2, <1>3

\* What the parser and the items given make together, for a parser that accumulates.
FrameInv(Parsers, Item) ==
  /\ parser \in Parsers
  /\ yielded \in Seq(Item \cup {Failure}) /\ Items \in Seq(Item)
  /\ FramingIrrelevant

\* An item given is one more item, an error given is none.
LEMMA ItemsStep ==
  ASSUME NEW Item, Failure \notin Item,
         yielded \in Seq(Item \cup {Failure}), Items \in Seq(Item),
         NEW item \in Item \cup {Failure}, yielded' = Append(yielded, item)
  PROVE  /\ yielded' \in Seq(Item \cup {Failure}) /\ Items' \in Seq(Item)
         /\ Items' = IF item = Failure THEN Items ELSE Append(Items, item)
<1>1. yielded' \in Seq(Item \cup {Failure})
  BY AppendProperties
<1>2. Items' = WithItem(Items, item)
  <2> DEFINE All == Item \cup {Failure}
  <2>1. yielded \in Seq(All) /\ item \in All
    OBVIOUS
  <2> HIDE DEF All
  <2>2. Counted!Fold(<< >>, Append(yielded, item)) = WithItem(Counted!Fold(<< >>, yielded), item)
    BY <2>1, Counted!FoldOfAppend
  <2>3. Items' = Counted!Fold(<< >>, yielded')
    BY CountedIs, Zenon DEF Items
  <2> QED
    BY <2>2, <2>3, ItemsIs, Zenon
<1>3. Items' = IF item = Failure THEN Items ELSE Append(Items, item)
  BY <1>2, Zenon DEF WithItem
<1>4. Items' \in Seq(Item)
  <2>1. CASE item = Failure
    BY <1>3, <2>1
  <2>2. CASE item # Failure
    BY <1>3, <2>2, AppendProperties
  <2> QED
    BY <2>1, <2>2
<1> QED
  BY <1>1, <1>3, <1>4

\* Giving the first of a parser's items changes nothing about the whole.
LEMMA YieldKeeps ==
  ASSUME NEW Parsers, NEW Item, Accumulates(OnLine, Idle, Parsers, Item),
         yielded \in Seq(Item \cup {Failure}), Items \in Seq(Item),
         NEW p \in Parsers, p.ready # << >>,
         yielded' = Append(yielded, Head(p.ready)),
         parser' = [p EXCEPT !.ready = Tail(@)]
  PROVE  /\ parser' \in Parsers
         /\ yielded' \in Seq(Item \cup {Failure}) /\ Items' \in Seq(Item)
         /\ Given(Items', parser') = Given(Items, p)
<1>1. /\ p.ready \in Seq(Item) /\ Failure \notin Item
      /\ \A r \in Seq(Item) : [p EXCEPT !.ready = r] \in Parsers
  BY Zenon DEF Accumulates
<1> DEFINE head == Head(p.ready)
<1>2. head \in Item /\ Tail(p.ready) \in Seq(Item)
  BY <1>1
<1>3. parser' = Rest(p) /\ yielded' = Append(yielded, head)
  BY Zenon DEF Rest
<1> HIDE DEF head
<1>4. /\ yielded' \in Seq(Item \cup {Failure}) /\ Items' \in Seq(Item)
      /\ Items' = IF head = Failure THEN Items ELSE Append(Items, head)
  <2>1. head \in Item \cup {Failure}
    BY <1>2
  <2> QED
    BY <1>1, <1>3, <2>1, ItemsStep
<1>5. Items' = Append(Items, head)
  <2>1. head # Failure
    BY <1>1, <1>2
  <2> QED
    BY <1>4, <2>1, Zenon
<1>6. Given(Append(Items, head), Rest(p)) = Given(Items, p)
  <2>1. \A r \in Seq(Item) : p.ready # << >> =>
          Given(Append(r, Head(p.ready)), Rest(p)) = Given(r, p)
    BY GivenFirst
  <2> QED
    BY <2>1, Zenon DEF head
<1>7. Rest(p) \in Parsers
  BY <1>1, <1>2, Zenon DEF Rest
<1> QED
  BY <1>3, <1>4, <1>5, <1>6, <1>7, Zenon

\* FramingIrrelevant, in these words.
LEMMA FramingIs == FramingIrrelevant <=> Given(Items, parser) = Whole(taken)
  BY Zenon DEF FramingIrrelevant, Given

\* What a frame adds to the lines of a body are those it completes.
LEMMA LinesGrow ==
  ASSUME TypeOK, NoLineLeftInBuffer, BufferIsTail,
         NEW bytes \in Seq(Symbols), NEW cut \in 0..Len(buffer \o bytes)
  PROVE  /\ CutLines(buffer \o bytes, Len(buffer), cut) \in Seq(Seq(Symbols))
         /\ LinesOf(taken) \in Seq(Seq(Symbols))
         /\ LinesOf(taken \o bytes)
              = LinesOf(taken) \o CutLines(buffer \o bytes, Len(buffer), cut)
<1>1. /\ taken \in Seq(Symbols) /\ buffer \in Seq(Symbols)
      /\ Cut \in Nat /\ Len(taken) = Cut + Len(buffer)
      /\ Cut > 0 => taken[Cut] = NL
      /\ \A i \in 1..Len(buffer) : buffer[i] = taken[Cut + i] /\ buffer[i] # NL
  <2>1. taken \in Seq(Symbols) /\ buffer \in Seq(Symbols)
    BY DEF TypeOK
  <2>2. Len(taken) = Cut + Len(buffer)
    BY <2>1, LenProperties DEF Cut, BufferIsTail
  <2>3. \A i \in 1..Len(buffer) : buffer[i] # NL
    BY NoLineLeftPointwise
  <2> HIDE DEF Cut
  <2> QED
    BY <2>1, <2>2, <2>3 DEF BufferIsTail
<1> DEFINE c == Cut
           more == CutLines(buffer \o bytes, Len(buffer), cut)
<1> HIDE DEF c
<1>2. /\ LinesOf(taken) \in Seq(Seq(Symbols)) /\ more \in Seq(Seq(Symbols))
      /\ LinesOf(taken \o bytes) = LinesOf(taken) \o more
  <2>1. Unterminated(taken, buffer, c)
    BY <1>1, Zenon DEF c, Unterminated
  <2>2. Continued(taken, bytes, more)
    BY <2>1, LinesJoin, Zenon
  <2> QED
    BY <2>2, Zenon DEF Continued
<1> QED
  BY <1>2, Zenon DEF more

\* A whole is read line by line.
LEMMA WholeGrows ==
  ASSUME TypeOK, NoLineLeftInBuffer, BufferIsTail,
         NEW bytes \in Seq(Symbols), NEW cut \in 0..Len(buffer \o bytes)
  PROVE  /\ CutLines(buffer \o bytes, Len(buffer), cut) \in Seq(Seq(Symbols))
         /\ Whole(taken \o bytes)
              = Parsed!Fold(Whole(taken), CutLines(buffer \o bytes, Len(buffer), cut))
<1> DEFINE more == CutLines(buffer \o bytes, Len(buffer), cut)
<1>2. /\ LinesOf(taken) \in Seq(Seq(Symbols)) /\ more \in Seq(Seq(Symbols))
      /\ LinesOf(taken \o bytes) = LinesOf(taken) \o more
  BY LinesGrow, Zenon
<1> HIDE DEF more
<1>3. Parsed!Fold(Idle, LinesOf(taken) \o more)
        = Parsed!Fold(Parsed!Fold(Idle, LinesOf(taken)), more)
  <2> DEFINE L == Seq(Symbols)
             t == LinesOf(taken)
  <2>1. t \in Seq(L) /\ more \in Seq(L)
    BY <1>2
  <2> HIDE DEF L, t
  <2>2. Parsed!Fold(Idle, t \o more) = Parsed!Fold(Parsed!Fold(Idle, t), more)
    BY <2>1, Parsed!FoldOfConcat
  <2> QED
    BY <2>2 DEF t
<1>4. Whole(taken \o bytes) = Parsed!Fold(Whole(taken), more)
  BY <1>2, <1>3, WholeIs, Zenon
<1> QED
  BY <1>2, <1>4 DEF more

LEMMA NoLinesYet == LinesOf(<< >>) = << >>
<1> DEFINE E == Ends(<< >>)
<1>1. E = {}
  BY DEF Ends
<1>2. Cardinality(E) = 0
  BY <1>1, FS_EmptySet
<1> HIDE DEF E
<1>3. << >> \in Seq(Symbols)
  OBVIOUS
<1>4. LinesOf(<< >>) = [i \in 1..Cardinality(E) |->
                          SubSeq(<< >>, Start(E, i) + 1, NthOf(E, i) - 1)]
  BY <1>3, LinesOfEnds, Zenon DEF E
<1>5. LinesOf(<< >>) = [i \in 1..0 |->
                          SubSeq(<< >>, Start(E, i) + 1, NthOf(E, i) - 1)]
  BY <1>2, <1>4, Zenon
<1> QED
  BY <1>5

LEMMA NothingYet == Init => Items = << >> /\ LinesOf(taken) = << >>
<1> SUFFICES ASSUME Init PROVE Items = << >> /\ LinesOf(taken) = << >>
  OBVIOUS
<1>1. yielded = << >> /\ taken = << >>
  BY DEF Init
<1> QED
  BY <1>1, NoLinesYet, ItemsIs, Counted!FoldOfEmpty, Zenon

\* Before the first frame nothing is given, and nothing is read.
LEMMA FrameInit ==
  ASSUME NEW Parsers, NEW Item, Accumulates(OnLine, Idle, Parsers, Item), Init
  PROVE  FrameInv(Parsers, Item)
<1>1. parser \in Parsers /\ yielded = << >> /\ taken = << >> /\ parser = Idle
  BY Zenon DEF Accumulates, Init
<1>2. Items = << >>
  BY NothingYet
<1>3. yielded \in Seq(Item \cup {Failure}) /\ Items \in Seq(Item)
  BY <1>1, <1>2
<1>4. LinesOf(<< >>) = << >>
  BY NoLinesYet
<1>5. Whole(taken) = Idle
  <2>1. Whole(<< >>) = Parsed!Fold(Idle, << >>)
    BY <1>4, WholeIs, Zenon
  <2> QED
    BY <1>1, <2>1, Parsed!FoldOfEmpty, Zenon
<1>6. Given(<< >>, parser) = parser
  BY <1>1, GivenFirst
<1>7. Given(Items, parser) = Whole(taken)
  BY <1>1, <1>2, <1>5, <1>6, Zenon
<1> QED
  BY <1>1, <1>3, <1>7, FramingIs, Zenon DEF FrameInv

\* A step that gives an item, or takes a frame, keeps the whole.
LEMMA FrameStep ==
  ASSUME NEW Parsers, NEW Item, Accumulates(OnLine, Idle, Parsers, Item),
         IInv, FrameInv(Parsers, Item), [Next]_vars
  PROVE  FrameInv(Parsers, Item)'
<1>1. /\ parser \in Parsers /\ yielded \in Seq(Item \cup {Failure})
      /\ Items \in Seq(Item) /\ Given(Items, parser) = Whole(taken)
  BY FramingIs, Zenon DEF FrameInv
<1> DEFINE Kept == /\ parser' \in Parsers
                   /\ yielded' \in Seq(Item \cup {Failure}) /\ Items' \in Seq(Item)
                   /\ Given(Items', parser') = Whole(taken')
<1>2. Kept => FrameInv(Parsers, Item)'
  BY Zenon DEF FrameInv, FramingIrrelevant, Given
\* What ready holds moves to what was given.
<1>3. CASE YieldReady
  <2>1. /\ parser.ready # << >> /\ yielded' = Append(yielded, Head(parser.ready))
        /\ parser' = [parser EXCEPT !.ready = Tail(@)] /\ taken' = taken
    BY <1>3, Zenon DEF YieldReady
  <2>2. /\ parser' \in Parsers
        /\ yielded' \in Seq(Item \cup {Failure}) /\ Items' \in Seq(Item)
        /\ Given(Items', parser') = Given(Items, parser)
    BY <1>1, <2>1, YieldKeeps
  <2> QED
    BY <1>1, <1>2, <2>1, <2>2, Zenon
\* The lines the frame completes are read on top of those before it.
<1>4. CASE TakeData
  <2> DEFINE bytes == Head(frames).bytes
             next(cut) == Appended(bytes, cut)
  <2>1. bytes \in Seq(Symbols) /\ taken' = taken \o bytes
    <3>1. Head(frames).kind = "data" /\ frames # << >> /\ taken' = taken \o bytes
      BY <1>4 DEF TakeData, TakeFrame
    <3>2. Head(frames) \in [kind : {"data"}, bytes : Seq(Symbols) \ {<< >>}]
                             \cup [kind : {"trailers", "error"}]
      BY <3>1, HeadTailProperties DEF TypeOK, IInv
    <3> QED
      BY <3>1, <3>2
  <2>2. PICK cut \in SliceEnds(buffer \o bytes) :
          IF next(cut).ready # << >>
          THEN /\ yielded' = Append(yielded, Head(next(cut).ready))
               /\ parser' = [next(cut) EXCEPT !.ready = Tail(@)]
          ELSE parser' = next(cut) /\ UNCHANGED yielded
    BY <1>4, Zenon DEF TakeData
  <2> DEFINE p == Appended(bytes, cut)
             lines == CutLines(buffer \o bytes, Len(buffer), cut)
  <2> HIDE DEF bytes
  <2>3. cut \in 0..Len(buffer \o bytes)
    <3>1. buffer \o bytes \in Seq(Symbols)
      BY <2>1, ConcatProperties DEF IInv, TypeOK
    <3> DEFINE s == buffer \o bytes
    <3>2. s \in Seq(Symbols) /\ cut \in SliceEnds(s)
      BY <3>1
    <3> HIDE DEF s
    <3>3. cut \in 0..Len(s)
      BY <3>2, LenProperties DEF SliceEnds
    <3> QED
      BY <3>3 DEF s
  <2>4. lines \in Seq(Seq(Symbols)) /\ Whole(taken \o bytes) = Parsed!Fold(Whole(taken), lines)
    BY <2>1, <2>3, WholeGrows, Zenon DEF IInv
  <2>5. p = Parsed!Fold(parser, lines)
    BY AppendedIs, Zenon
  <2> HIDE DEF lines, p
  <2>6. p \in Parsers /\ Parsed!Fold(Given(Items, parser), lines) = Given(Items, p)
    <3>1. \A q \in Parsers : \A r \in Seq(Item) : \A ls \in Seq(Seq(Symbols)) :
            /\ Parsed!Fold(q, ls) \in Parsers
            /\ Parsed!Fold(Given(r, q), ls) = Given(r, Parsed!Fold(q, ls))
      BY FoldGiven
    <3> QED
      BY <1>1, <2>4, <2>5, <3>1, Zenon
  <2>7. Given(Items, p) = Whole(taken')
    BY <1>1, <2>1, <2>4, <2>6, Zenon
  <2>8. CASE p.ready # << >>
    <3>1. yielded' = Append(yielded, Head(p.ready)) /\ parser' = [p EXCEPT !.ready = Tail(@)]
      BY <2>2, <2>8, Zenon DEF p
    <3>2. /\ parser' \in Parsers
          /\ yielded' \in Seq(Item \cup {Failure}) /\ Items' \in Seq(Item)
          /\ Given(Items', parser') = Given(Items, p)
      BY <1>1, <2>6, <2>8, <3>1, YieldKeeps
    <3> QED
      BY <1>2, <2>7, <3>2, Zenon
  <2>9. CASE p.ready = << >>
    <3>1. parser' = p /\ yielded' = yielded
      BY <2>2, <2>9, Zenon DEF p
    <3>2. Items' = Items
      BY <3>1, Zenon DEF Items
    <3> QED
      BY <1>1, <1>2, <2>6, <2>7, <3>1, <3>2, Zenon
  <2> QED
    BY <2>8, <2>9
\* The body's error is no item of the parser's.
<1>5. CASE TakeError
  <2>1. yielded' = Append(yielded, Failure) /\ UNCHANGED << parser, taken >>
    BY <1>5 DEF TakeError
  <2>2. Failure \notin Item /\ Failure \in Item \cup {Failure}
    BY Zenon DEF Accumulates
  <2>3. /\ yielded' \in Seq(Item \cup {Failure}) /\ Items' \in Seq(Item)
        /\ Items' = IF Failure = Failure THEN Items ELSE Append(Items, Failure)
    BY <1>1, <2>1, <2>2, ItemsStep
  <2>4. Items' = Items /\ parser' = parser /\ taken' = taken
    BY <2>1, <2>3
  <2> QED
    BY <1>1, <1>2, <2>3, <2>4, Zenon
<1>6. CASE UNCHANGED << parser, yielded, taken >>
  <2>1. parser' = parser /\ yielded' = yielded /\ taken' = taken
    BY <1>6
  <2>2. Items' = Items
    BY <2>1, Zenon DEF Items
  <2> QED
    BY <1>1, <1>2, <2>1, <2>2, Zenon
<1>7. \/ YieldReady \/ TakeData \/ TakeError
      \/ UNCHANGED << parser, yielded, taken >>
  BY DEF Next, PollNext, BodyStep, Done, vars, TakeTrailers, TakeEnd, Park, Arrive,
         EndWithTrailers, End, Break, Feed
<1> QED
  BY <1>3, <1>4, <1>5, <1>6, <1>7

\* However the network cuts a body into frames, the items poll_next has given and
\* those still in ready are what a parser makes of the whole lines of the body:
\* append_frame and poll_next neither lose a line at the edge of a frame, nor read
\* one twice, nor hand out its items out of order.
THEOREM FramingIsIrrelevant ==
  ASSUME NEW CONSTANT Parsers, NEW CONSTANT Item,
         Accumulates(OnLine, Idle, Parsers, Item)
  PROVE  Spec => []FramingIrrelevant
<1>1. Init => FrameInv(Parsers, Item)
  BY FrameInit
<1>2. IInv /\ FrameInv(Parsers, Item) /\ [Next]_vars => FrameInv(Parsers, Item)'
  BY FrameStep
<1>3. FrameInv(Parsers, Item) => FramingIrrelevant
  BY DEF FrameInv
<1> QED
  BY <1>1, <1>2, <1>3, SpecStreamInv, PTL DEF Spec

-----------------------------------------------------------------------------
(***************************************************************************)
(* What the stream promises: it implements ItemStream.                     *)
(***************************************************************************)

\* What the lines of t mean, when the items r have been given and p has the rest.
LEMMA MeaningIs ==
  ASSUME NEW Parsers, NEW Item, Accumulates(OnLine, Idle, Parsers, Item),
         NEW p \in Parsers, NEW r, NEW t, Given(r, p) = Whole(t)
  PROVE  Promise!Meaning(LinesOf(t)) = r \o p.ready
<1>1. Promise!Meaning(LinesOf(t)) = FoldLeft(OnLine, Idle, LinesOf(t)).ready
  BY Zenon DEF Promise!Meaning, Promise!FoldLeft, FoldLeft, Promise!MapThenFoldSet,
               MapThenFoldSet, Promise!Max, Max
<1>2. p = [x \in DOMAIN p |-> p[x]] /\ "ready" \in DOMAIN p
  BY Zenon DEF Accumulates
<1>3. Given(r, p).ready = r \o p.ready
  BY <1>2 DEF Given
<1> QED
  BY <1>1, <1>3, Zenon DEF Whole

LEMMA PromiseInit ==
  ASSUME NEW Parsers, NEW Item, Accumulates(OnLine, Idle, Parsers, Item), Init
  PROVE  Promise!StreamInit
<1>1. Items = << >> /\ LinesOf(taken) = << >> /\ over = FALSE
  BY NothingYet, Zenon DEF Init
<1> QED
  BY <1>1 DEF Promise!StreamInit

LEMMA LastOfAppend ==
  ASSUME NEW S, NEW s \in Seq(S), NEW e, Append(s, e) \in Seq(S)
  PROVE  e \in S
<1>1. Len(Append(s, e)) = Len(s) + 1 /\ Append(s, e)[Len(s) + 1] = e
  OBVIOUS
<1> QED
  BY <1>1

LEMMA LinesType == \A s \in Seq(Symbols) : LinesOf(s) \in Seq(Seq(Symbols))
<1> SUFFICES ASSUME NEW s \in Seq(Symbols) PROVE LinesOf(s) \in Seq(Seq(Symbols))
  OBVIOUS
<1>1. Ends(s) \in SUBSET (1..Len(s))
  BY DEF Ends
<1> QED
  BY <1>1, LinesOfEnds, LinesAreBytes, Zenon

\* A step that gives an item at most, and takes bytes or none.
LEMMA PollIsPromised ==
  ASSUME NEW Parsers, NEW Item, Accumulates(OnLine, Idle, Parsers, Item),
         IInv, FrameInv(Parsers, Item), FrameInv(Parsers, Item)',
         ~over, over' = over,
         taken' = taken \/ \E bytes \in Seq(Symbols) : taken' = taken \o bytes,
         yielded' = yielded \/ \E item : yielded' = Append(yielded, item)
  PROVE  Promise!Poll
<1>1. /\ yielded \in Seq(Item \cup {Failure}) /\ Items \in Seq(Item)
      /\ yielded' \in Seq(Item \cup {Failure}) /\ Items' \in Seq(Item)
      /\ parser' \in Parsers /\ Given(Items', parser') = Whole(taken')
      /\ Failure \notin Item
  BY Zenon DEF FrameInv, FramingIrrelevant, Given, Accumulates
<1>2. Promise!IsPrefix(LinesOf(taken), LinesOf(taken'))
  <2>1. PICK more \in Seq(Seq(Symbols)) :
          /\ LinesOf(taken) \in Seq(Seq(Symbols))
          /\ LinesOf(taken') = LinesOf(taken) \o more
    <3>1. CASE \E bytes \in Seq(Symbols) : taken' = taken \o bytes
      <4>1. PICK bytes \in Seq(Symbols) : taken' = taken \o bytes
        BY <3>1
      <4>2. 0 \in 0..Len(buffer \o bytes)
        BY <4>1, ConcatProperties, LenProperties DEF IInv, TypeOK
      <4> QED
        BY <4>1, <4>2, LinesGrow, Zenon DEF IInv
    <3>2. CASE taken' = taken
      <4>1. LinesOf(taken) \in Seq(Seq(Symbols))
        BY LinesType DEF IInv, TypeOK
      <4>2. << >> \in Seq(Seq(Symbols)) /\ LinesOf(taken) = LinesOf(taken) \o << >>
        BY <4>1, ConcatEmptySeq
      <4> QED
        BY <3>2, <4>1, <4>2, Zenon
    <3> QED
      BY <3>1, <3>2
  <2> DEFINE L == Seq(Symbols)
             before == LinesOf(taken)
             after  == LinesOf(taken')
  <2>2. before \in Seq(L) /\ more \in Seq(L) /\ after = before \o more
    BY <2>1
  <2> HIDE DEF L, before, after
  <2>3. Len(before) <= Len(after)
    BY <2>2
  <2>4. SubSeq(before, 1, Len(before)) = SubSeq(after, 1, Len(before))
    BY <2>2
  <2> QED
    BY <2>3, <2>4 DEF before, after, Promise!IsPrefix
<1>3. Items' = Items \/ \E item \in Item : Items' = Append(Items, item)
  <2>1. CASE yielded' = yielded
    BY <2>1, Zenon DEF Items
  <2>2. CASE \E item : yielded' = Append(yielded, item)
    <3>1. PICK item : yielded' = Append(yielded, item)
      BY <2>2
    <3>2. item \in Item \cup {Failure}
      <4> DEFINE All == Item \cup {Failure}
      <4>1. yielded \in Seq(All) /\ Append(yielded, item) \in Seq(All)
        BY <1>1, <3>1
      <4> HIDE DEF All
      <4>2. item \in All
        BY <4>1, LastOfAppend
      <4> QED
        BY <4>2 DEF All
    <3>3. Items' = IF item = Failure THEN Items ELSE Append(Items, item)
      BY <1>1, <3>1, <3>2, ItemsStep
    <3> QED
      BY <3>2, <3>3
  <2> QED
    BY <2>1, <2>2
<1>4. Promise!Meaning(LinesOf(taken')) = Items' \o parser'.ready /\ parser'.ready \in Seq(Item)
  <2>1. \A p \in Parsers : p.ready \in Seq(Item)
    BY Zenon DEF Accumulates
  <2>2. \A p \in Parsers : \A r, s :
          Given(r, p) = Whole(s) => Promise!Meaning(LinesOf(s)) = r \o p.ready
    BY MeaningIs
  <2> QED
    BY <1>1, <2>1, <2>2, Zenon
<1>5. Promise!Give \/ Items' = Items
  <2>1. CASE \E item \in Item : Items' = Append(Items, item)
    <3>1. PICK item \in Item : Items' = Append(Items, item)
      BY <2>1
    <3>2. \A rest \in Seq(Item) :
            /\ Len(Items) < Len(Append(Items, item) \o rest)
            /\ (Append(Items, item) \o rest)[Len(Items) + 1] = item
      BY <1>1
    <3>3. /\ Len(Items) < Len(Promise!Meaning(LinesOf(taken')))
          /\ Promise!Meaning(LinesOf(taken'))[Len(Items) + 1] = item
      BY <1>4, <3>1, <3>2, Zenon
    <3> QED
      BY <3>1, <3>3, Zenon DEF Promise!Give
  <2> QED
    BY <1>3, <2>1
<1> QED
  BY <1>2, <1>5 DEF Promise!Poll

LEMMA PromiseStep ==
  ASSUME NEW Parsers, NEW Item, Accumulates(OnLine, Idle, Parsers, Item),
         IInv, FrameInv(Parsers, Item), FrameInv(Parsers, Item)', [Next]_vars
  PROVE  [Promise!StreamNext]_(Promise!streamVars)
<1>1. CASE YieldReady \/ TakeData \/ TakeError
  <2>1. ~over /\ over' = over
    BY <1>1 DEF YieldReady, TakeData, TakeError, TakeFrame, AskBody, Scheduled
  <2>2. taken' = taken \/ \E bytes \in Seq(Symbols) : taken' = taken \o bytes
    <3>1. CASE TakeData
      <4>1. Head(frames).kind = "data" /\ frames # << >> /\ taken' = taken \o Head(frames).bytes
        BY <3>1 DEF TakeData, TakeFrame
      <4>2. Head(frames) \in [kind : {"data"}, bytes : Seq(Symbols) \ {<< >>}]
                               \cup [kind : {"trailers", "error"}]
        BY <4>1, HeadTailProperties DEF TypeOK, IInv
      <4> QED
        BY <4>1, <4>2
    <3> QED
      BY <1>1, <3>1 DEF YieldReady, TakeError
  <2>3. yielded' = yielded \/ \E item : yielded' = Append(yielded, item)
    BY <1>1, Zenon DEF YieldReady, TakeError, TakeData
  <2>4. Promise!Poll
    BY <2>1, <2>2, <2>3, PollIsPromised
  <2> QED
    BY <2>4, Zenon DEF Promise!StreamNext
\* The stream ends with nothing left to give.
<1>2. CASE TakeEnd
  <2>1. /\ ~over /\ over' = TRUE /\ UNCHANGED << taken, yielded >>
        /\ parser.ready = << >>
    BY <1>2 DEF TakeEnd, AskBody, Scheduled
  <2>2. Items' = Items /\ LinesOf(taken)' = LinesOf(taken)
    BY <2>1, Zenon DEF Items
  <2>3. parser \in Parsers /\ Items \in Seq(Item) /\ Given(Items, parser) = Whole(taken)
    BY FramingIs, Zenon DEF FrameInv
  <2>4. Items \o << >> = Items
    BY <2>3
  <2>5. Promise!Meaning(LinesOf(taken)) = Items
    BY <2>1, <2>3, <2>4, MeaningIs, Zenon
  <2>6. Promise!End
    BY <2>1, <2>2, <2>5, Zenon DEF Promise!End
  <2> QED
    BY <2>6, Zenon DEF Promise!StreamNext
<1>3. CASE UNCHANGED << taken, yielded, over >>
  <2>1. taken' = taken /\ yielded' = yielded /\ over' = over
    BY <1>3
  <2> QED
    BY <2>1, Zenon DEF Promise!streamVars, Items
<1>4. \/ YieldReady \/ TakeData \/ TakeError \/ TakeEnd
      \/ UNCHANGED << taken, yielded, over >>
  BY DEF Next, PollNext, BodyStep, Done, vars, TakeTrailers, Park, Arrive,
         EndWithTrailers, End, Break, Feed
<1> QED
  BY <1>1, <1>2, <1>3, <1>4

\* Who polls a stream need not know of frames, buffers or wakers: poll_next gives the
\* items of the body's lines one after another, and None only when all are given.
THEOREM StreamKeepsPromise ==
  ASSUME NEW CONSTANT Parsers, NEW CONSTANT Item,
         Accumulates(OnLine, Idle, Parsers, Item)
  PROVE  Spec => ImplementsItemStream
<1>1. Init => FrameInv(Parsers, Item) /\ Promise!StreamInit
  BY FrameInit, PromiseInit
<1>2. IInv /\ FrameInv(Parsers, Item) /\ [Next]_vars => FrameInv(Parsers, Item)'
  BY FrameStep
<1>3. IInv /\ FrameInv(Parsers, Item) /\ FrameInv(Parsers, Item)' /\ [Next]_vars
        => [Promise!StreamNext]_(Promise!streamVars)
  BY PromiseStep
<1> QED
  BY <1>1, <1>2, <1>3, SpecStreamInv, PTL
  DEF Spec, ImplementsItemStream, Promise!StreamSpec

-----------------------------------------------------------------------------
(***************************************************************************)
(* The two parsers accumulate.                                             *)
(***************************************************************************)

\* An item added at the end does not see what is put in front.
LEMMA AppendAfter ==
  ASSUME NEW S, NEW r \in Seq(S), NEW s \in Seq(S), NEW e \in S
  PROVE  Append(r \o s, e) = r \o Append(s, e)
  OBVIOUS

\* The states of the NDJSON parser, and what it queues.
NdjsonItem == {[value |-> line] : line \in Seq(Symbols)}
                \cup {[error |-> line] : line \in Seq(Symbols)}
NdjsonParsers == [ready : Seq(NdjsonItem)]

\* NdjsonStream queues what from_slice makes of a line without a look at what is
\* queued already, so FramingIsIrrelevant holds of it.
THEOREM NdjsonAccumulates ==
  Accumulates(OnNdjsonLine, IdleNdjson, NdjsonParsers, NdjsonItem)
<1>1. IdleNdjson \in NdjsonParsers
  BY DEF IdleNdjson, NdjsonParsers
<1>2. Failure \notin NdjsonItem
  <2>1. "failed" \in DOMAIN Failure
    BY DEF Failure
  <2>2. \A item \in NdjsonItem : "failed" \notin DOMAIN item
    BY DEF NdjsonItem
  <2> QED
    BY <2>1, <2>2
<1>3. ASSUME NEW p \in NdjsonParsers
      PROVE  /\ p = [x \in DOMAIN p |-> p[x]] /\ "ready" \in DOMAIN p
             /\ p.ready \in Seq(NdjsonItem)
             /\ \A r \in Seq(NdjsonItem) : [p EXCEPT !.ready = r] \in NdjsonParsers
  BY DEF NdjsonParsers
<1>4. ASSUME NEW p \in NdjsonParsers, NEW line \in Seq(Symbols),
             NEW r \in Seq(NdjsonItem)
      PROVE  /\ OnNdjsonLine(p, line) \in NdjsonParsers
             /\ OnNdjsonLine(Given(r, p), line) = Given(r, OnNdjsonLine(p, line))
  <2> DEFINE item == FromSlice(line)
  <2>1. item \in NdjsonItem
    BY DEF FromSlice, NdjsonItem
  <2> HIDE DEF item
  <2>2. \A q \in NdjsonParsers :
          /\ OnNdjsonLine(q, line) \in NdjsonParsers
          /\ OnNdjsonLine(q, line).ready = Append(q.ready, item)
    <3> SUFFICES ASSUME NEW q \in NdjsonParsers
                 PROVE  /\ [q EXCEPT !.ready = Append(@, item)] \in NdjsonParsers
                        /\ [q EXCEPT !.ready = Append(@, item)].ready = Append(q.ready, item)
      BY Zenon DEF OnNdjsonLine, item
    <3>1. q.ready \in Seq(NdjsonItem)
      BY DEF NdjsonParsers
    <3>2. Append(q.ready, item) \in Seq(NdjsonItem)
      BY <2>1, <3>1, AppendProperties
    <3> QED
      BY <3>2 DEF NdjsonParsers
  <2>3. \A q \in NdjsonParsers :
          /\ Given(r, q) \in NdjsonParsers
          /\ Given(r, q).ready = r \o q.ready
    <3> SUFFICES ASSUME NEW q \in NdjsonParsers
                 PROVE  /\ [q EXCEPT !.ready = r \o @] \in NdjsonParsers
                        /\ [q EXCEPT !.ready = r \o @].ready = r \o q.ready
      BY Zenon DEF Given
    <3>1. q.ready \in Seq(NdjsonItem)
      BY DEF NdjsonParsers
    <3>2. r \o q.ready \in Seq(NdjsonItem)
      BY <3>1, ConcatProperties
    <3> QED
      BY <3>2 DEF NdjsonParsers
  <2>4. \A q, u \in NdjsonParsers : q.ready = u.ready => q = u
    BY DEF NdjsonParsers
  <2>5. Append(r \o p.ready, item) = r \o Append(p.ready, item)
    <3>1. p.ready \in Seq(NdjsonItem)
      BY DEF NdjsonParsers
    <3> DEFINE s == p.ready
    <3>2. s \in Seq(NdjsonItem)
      BY <3>1
    <3> HIDE DEF s
    <3>3. Append(r \o s, item) = r \o Append(s, item)
      BY <2>1, <3>2
    <3> QED
      BY <3>3 DEF s
  <2> DEFINE u == OnNdjsonLine(Given(r, p), line)
             v == Given(r, OnNdjsonLine(p, line))
  <2>6. u \in NdjsonParsers /\ u.ready = Append(r \o p.ready, item)
    BY <2>2, <2>3, Zenon
  <2>7. v \in NdjsonParsers /\ v.ready = r \o Append(p.ready, item)
    BY <2>2, <2>3, Zenon
  <2> HIDE DEF u, v
  <2>8. u = v
    BY <2>4, <2>5, <2>6, <2>7, Zenon
  <2> QED
    BY <2>2, <2>8, Zenon DEF u, v
<1>5. \A p \in NdjsonParsers : \A line \in Seq(Symbols) :
        OnNdjsonLine(p, line) \in NdjsonParsers
  <2>1. << >> \in Seq(NdjsonItem)
    OBVIOUS
  <2> QED
    BY <1>4, <2>1, Zenon
<1> QED
  BY <1>1, <1>2, <1>3, <1>4, <1>5, Zenon DEF Accumulates

\* A nonempty set of numbers has a smallest one.
LEMMA MinIsSmallest ==
  ASSUME NEW S \in SUBSET Nat, S # {}
  PROVE  Min(S) \in S
<1>1. PICK n \in S : \A m \in S : ~(<< m, n >> \in OpToRel(<, Nat))
  BY NatLessThanWellFounded, WFMin
<1>2. \A m \in S : ~(m < n) /\ m \in Nat /\ n \in Nat
  BY <1>1 DEF OpToRel
<1>3. \A m \in S : n <= m
  BY <1>2
<1> QED
  BY <1>3, Zenon DEF Min

\* The states of the SSE parser, and what it queues.
Text == Seq(Symbols \cup {LF})
Maybe == Text \cup {None}
Event == [id : Maybe, event : Maybe, data : Text]
SseParsers == [ready : Seq(Event), pending : Event, lastId : Maybe]

\* A part of a line is a sequence of bytes like the line.
LEMMA PartOf ==
  ASSUME NEW s \in Seq(Symbols), NEW from \in Nat \ {0}, NEW to \in 0..Len(s)
  PROVE  SubSeq(s, from, to) \in Seq(Symbols)
<1>1. \A i \in from..to : s[i] \in Symbols
  OBVIOUS
<1>2. from \in Int /\ to \in Int
  OBVIOUS
<1> QED
  BY <1>1, <1>2, SubSeqProperties

LEMMA TrimEndType == \A s \in Seq(Symbols) : TrimEnd(s) \in Seq(Symbols)
<1> SUFFICES ASSUME NEW s \in Seq(Symbols) PROVE TrimEnd(s) \in Seq(Symbols)
  OBVIOUS
<1> DEFINE I == {i \in 1..Len(s) : NotSpace(s[i])}
           last == IF I # {} THEN Max(I) ELSE 0
<1>1. SelectLastInSeq(s, NotSpace) = last
  BY Zenon DEF SelectLastInSeq
<1>2. Len(s) \in Nat
  OBVIOUS
<1>3. IsFiniteSet(I)
  <2>1. IsFiniteSet(1..Len(s)) /\ I \subseteq 1..Len(s)
    BY <1>2, FS_Interval
  <2> QED
    BY <2>1, FS_Subset
<1>4. last \in 0..Len(s)
  <2>1. I \in SUBSET Int /\ I \subseteq 1..Len(s)
    BY <1>2
  <2> HIDE DEF I
  <2>2. CASE I # {}
    <3>1. Max(I) \in I
      BY <1>3, <2>1, <2>2, MaxIsLargest
    <3>2. Max(I) \in 0..Len(s)
      <4> DEFINE m == Max(I)
      <4>1. m \in 1..Len(s)
        BY <2>1, <3>1
      <4> HIDE DEF m
      <4>2. m \in 0..Len(s)
        BY <4>1
      <4> QED
        BY <4>2 DEF m
    <3> QED
      BY <2>2, <3>2, Zenon
  <2>3. CASE ~(I # {})
    <3>1. 0 \in 0..Len(s)
      BY <1>2
    <3> QED
      BY <2>3, <3>1, Zenon
  <2> QED
    BY <2>2, <2>3
<1> HIDE DEF last
<1>5. SubSeq(s, 1, last) \in Seq(Symbols)
  BY <1>4, PartOf
<1> QED
  BY <1>1, <1>5, Zenon DEF TrimEnd

LEMMA FirstType ==
  \A s \in Seq(Symbols) :
    /\ ColonAt(s) \in 0..Len(s)
    /\ SelectInSeq(s, NotSpace) \in 0..Len(s)
<1> SUFFICES ASSUME NEW s \in Seq(Symbols)
             PROVE  /\ ColonAt(s) \in 0..Len(s)
                    /\ SelectInSeq(s, NotSpace) \in 0..Len(s)
  OBVIOUS
<1>1. \A I \in SUBSET (1..Len(s)) : (IF I # {} THEN Min(I) ELSE 0) \in 0..Len(s)
  <2> SUFFICES ASSUME NEW I \in SUBSET (1..Len(s)), I # {}
               PROVE  Min(I) \in 0..Len(s)
    OBVIOUS
  <2>1. I \in SUBSET Nat
    OBVIOUS
  <2> DEFINE m == Min(I)
  <2>2. m \in I
    BY <2>1, MinIsSmallest
  <2> HIDE DEF m
  <2>3. m \in 0..Len(s)
    BY <2>2
  <2> QED
    BY <2>3 DEF m
<1> DEFINE I == {i \in 1..Len(s) : IsColon(s[i])}
           J == {i \in 1..Len(s) : NotSpace(s[i])}
<1>2. ColonAt(s) = IF I # {} THEN Min(I) ELSE 0
  BY Zenon DEF ColonAt, SelectInSeq
<1>3. SelectInSeq(s, NotSpace) = IF J # {} THEN Min(J) ELSE 0
  BY Zenon DEF SelectInSeq
<1>4. I \in SUBSET (1..Len(s)) /\ J \in SUBSET (1..Len(s))
  OBVIOUS
<1> QED
  BY <1>1, <1>2, <1>3, <1>4, Zenon

LEMMA FieldValueType == \A s \in Seq(Symbols) : FieldValue(s) \in Text
<1>1. \A s \in Seq(Symbols) : AfterColon(s) \in Seq(Symbols)
  <2> SUFFICES ASSUME NEW s \in Seq(Symbols), ColonAt(s) # 0
               PROVE  SubSeq(s, ColonAt(s) + 1, Len(s)) \in Seq(Symbols)
    BY DEF AfterColon
  <2> DEFINE from == ColonAt(s) + 1
             to == Len(s)
  <2>1. from \in Nat \ {0} /\ to \in 0..Len(s)
    BY FirstType
  <2> HIDE DEF from, to
  <2>2. SubSeq(s, from, to) \in Seq(Symbols)
    BY <2>1, PartOf
  <2> QED
    BY <2>2 DEF from, to
<1>2. \A s \in Seq(Symbols) : TrimStart(s) \in Seq(Symbols)
  <2> SUFFICES ASSUME NEW s \in Seq(Symbols) PROVE TrimStart(s) \in Seq(Symbols)
    OBVIOUS
  <2> DEFINE first == SelectInSeq(s, NotSpace)
             to == Len(s)
  <2>1. first \in 0..Len(s) /\ to \in 0..Len(s) /\ Len(s) \in Nat
    BY FirstType
  <2>2. TrimStart(s) = IF first = 0 THEN << >> ELSE SubSeq(s, first, to)
    BY Zenon DEF TrimStart
  <2> HIDE DEF first, to
  <2>3. first # 0 => SubSeq(s, first, to) \in Seq(Symbols)
    BY <2>1, PartOf
  <2> QED
    BY <2>2, <2>3
<1>3. Seq(Symbols) \subseteq Text
  BY DEF Text
<1> QED
  BY <1>1, <1>2, <1>3, Zenon DEF FieldValue

\* What putting items in front of a parser's own does to it.
LEMMA GivenSse ==
  ASSUME NEW r \in Seq(Event), NEW q \in SseParsers
  PROVE  /\ Given(r, q) \in SseParsers
         /\ Given(r, q).ready = r \o q.ready
         /\ Given(r, q).pending = q.pending /\ Given(r, q).lastId = q.lastId
<1>1. q.ready \in Seq(Event)
  BY DEF SseParsers
<1> DEFINE all == r \o q.ready
<1>2. all \in Seq(Event)
  BY <1>1, ConcatProperties
<1>3. Given(r, q) = [q EXCEPT !.ready = all]
  BY Zenon DEF Given
<1> HIDE DEF all
<1>4. /\ [q EXCEPT !.ready = all] \in SseParsers
      /\ [q EXCEPT !.ready = all].ready = all
      /\ [q EXCEPT !.ready = all].pending = q.pending
      /\ [q EXCEPT !.ready = all].lastId = q.lastId
  BY <1>2 DEF SseParsers
<1> QED
  BY <1>3, <1>4, Zenon DEF all

\* A parser is what its three fields say.
LEMMA SameSse ==
  ASSUME NEW q \in SseParsers, NEW u \in SseParsers,
         q.ready = u.ready, q.pending = u.pending, q.lastId = u.lastId
  PROVE  q = u
  BY DEF SseParsers

LEMMA AddDataType == \A data, value \in Text : AddData(data, value) \in Text
<1> SUFFICES ASSUME NEW data \in Text, NEW value \in Text
             PROVE  AddData(data, value) \in Text
  OBVIOUS
<1> DEFINE All == Symbols \cup {LF}
<1>1. data \in Seq(All) /\ value \in Seq(All) /\ LF \in All
  BY DEF Text
<1> HIDE DEF All
<1>2. data \o << LF >> \o value \in Seq(All)
  BY <1>1
<1>3. AddData(data, value) \in Seq(All)
  BY <1>1, <1>2, Zenon DEF AddData
<1> QED
  BY <1>3 DEF Text, All

\* The parser u, and its pending event e, with one field set.
DataOf(e, value) == [e EXCEPT !.data = AddData(@, value)]
IdOf(e, value) == [e EXCEPT !.id = value]
EventOf(e, value) == [e EXCEPT !.event = value]
WithData(u, value) == [u EXCEPT !.pending.data = AddData(@, value)]
WithId(u, value) == [u EXCEPT !.pending.id = value, !.lastId = value]
WithEvent(u, value) == [u EXCEPT !.pending.event = value]

\* What setting one field of the pending event does to a parser.
LEMMA FieldsSet ==
  ASSUME NEW u \in SseParsers, NEW value \in Text
  PROVE  /\ WithData(u, value) \in SseParsers /\ WithData(u, value).ready = u.ready
         /\ WithData(u, value).pending = DataOf(u.pending, value)
         /\ WithData(u, value).lastId = u.lastId
         /\ WithId(u, value) \in SseParsers /\ WithId(u, value).ready = u.ready
         /\ WithId(u, value).pending = IdOf(u.pending, value)
         /\ WithId(u, value).lastId = value
         /\ WithEvent(u, value) \in SseParsers /\ WithEvent(u, value).ready = u.ready
         /\ WithEvent(u, value).pending = EventOf(u.pending, value)
         /\ WithEvent(u, value).lastId = u.lastId
<1>1. /\ WithData(u, value) \in SseParsers /\ WithData(u, value).ready = u.ready
      /\ WithData(u, value).pending = DataOf(u.pending, value)
      /\ WithData(u, value).lastId = u.lastId
  <2> DEFINE new == AddData(u.pending.data, value)
  <2>1. u.pending.data \in Text
    BY DEF SseParsers, Event
  <2>2. new \in Text
    BY <2>1, AddDataType
  <2>3. /\ WithData(u, value) = [u EXCEPT !.pending.data = new]
        /\ DataOf(u.pending, value) = [u.pending EXCEPT !.data = new]
    BY Zenon DEF WithData, DataOf
  <2> HIDE DEF new
  <2>4. /\ [u EXCEPT !.pending.data = new] \in SseParsers
        /\ [u EXCEPT !.pending.data = new].ready = u.ready
        /\ [u EXCEPT !.pending.data = new].pending = [u.pending EXCEPT !.data = new]
        /\ [u EXCEPT !.pending.data = new].lastId = u.lastId
    BY <2>2 DEF SseParsers, Event
  <2> QED
    BY <2>3, <2>4, Zenon
<1>2. /\ WithId(u, value) \in SseParsers /\ WithId(u, value).ready = u.ready
      /\ WithId(u, value).pending = IdOf(u.pending, value)
      /\ WithId(u, value).lastId = value
  BY DEF SseParsers, Event, Maybe, WithId, IdOf
<1>3. /\ WithEvent(u, value) \in SseParsers /\ WithEvent(u, value).ready = u.ready
      /\ WithEvent(u, value).pending = EventOf(u.pending, value)
      /\ WithEvent(u, value).lastId = u.lastId
  BY DEF SseParsers, Event, Maybe, WithEvent, EventOf
<1> QED
  BY <1>1, <1>2, <1>3, Zenon

\* The field that a name sets.
LEMMA SetFieldIs ==
  ASSUME NEW name, NEW value
  PROVE  /\ name = << "data" >> => \A u : SetField(u, name, value) = WithData(u, value)
         /\ name = << "id" >> => \A u : SetField(u, name, value) = WithId(u, value)
         /\ name = << "event" >> => \A u : SetField(u, name, value) = WithEvent(u, value)
         /\ name \notin {<< "data" >>, << "id" >>, << "event" >>} =>
              \A u : SetField(u, name, value) = u
<1>1. \A u : SetField(u, name, value) =
        CASE name = << "data" >> -> WithData(u, value)
          [] name = << "id" >> -> WithId(u, value)
          [] name = << "event" >> -> WithEvent(u, value)
          [] OTHER -> u
  BY Zenon DEF SetField, WithData, WithId, WithEvent
<1>2. << "data" >> # << "id" >> /\ << "data" >> # << "event" >> /\ << "id" >> # << "event" >>
  OBVIOUS
<1> QED
  BY <1>1, <1>2, Zenon

\* Each field of an event is set without a look at the items.
LEMMA SetFieldSse ==
  ASSUME NEW q \in SseParsers, NEW name, NEW value \in Text
  PROVE  /\ SetField(q, name, value) \in SseParsers
         /\ \A r \in Seq(Event) :
              SetField(Given(r, q), name, value) = Given(r, SetField(q, name, value))
<1>1. /\ WithData(q, value) \in SseParsers /\ WithId(q, value) \in SseParsers
      /\ WithEvent(q, value) \in SseParsers
  BY FieldsSet
<1>2. ASSUME NEW r \in Seq(Event)
      PROVE  /\ WithData(Given(r, q), value) = Given(r, WithData(q, value))
             /\ WithId(Given(r, q), value) = Given(r, WithId(q, value))
             /\ WithEvent(Given(r, q), value) = Given(r, WithEvent(q, value))
  <2>1. WithData(Given(r, q), value) = Given(r, WithData(q, value))
    <3> DEFINE u == WithData(Given(r, q), value)
               v == Given(r, WithData(q, value))
    <3>1. /\ u \in SseParsers /\ u.ready = r \o q.ready
          /\ u.pending = DataOf(q.pending, value) /\ u.lastId = q.lastId
      <4> DEFINE w == Given(r, q)
      <4>1. /\ w \in SseParsers /\ w.ready = r \o q.ready
            /\ w.pending = q.pending /\ w.lastId = q.lastId
        BY GivenSse
      <4> HIDE DEF w
      <4>2. /\ WithData(w, value) \in SseParsers /\ WithData(w, value).ready = w.ready
            /\ WithData(w, value).pending = DataOf(w.pending, value)
            /\ WithData(w, value).lastId = w.lastId
        BY <4>1, FieldsSet
      <4>3. u = WithData(w, value)
        BY DEF w
      <4> HIDE DEF u
      <4> QED
        BY <4>1, <4>2, <4>3, Zenon
    <3>2. /\ v \in SseParsers /\ v.ready = r \o q.ready
          /\ v.pending = DataOf(q.pending, value) /\ v.lastId = q.lastId
      <4> DEFINE w == WithData(q, value)
      <4>1. /\ w \in SseParsers /\ w.ready = q.ready
            /\ w.pending = DataOf(q.pending, value) /\ w.lastId = q.lastId
        BY FieldsSet
      <4> HIDE DEF w
      <4>2. /\ Given(r, w) \in SseParsers /\ Given(r, w).ready = r \o w.ready
            /\ Given(r, w).pending = w.pending /\ Given(r, w).lastId = w.lastId
        BY <4>1, GivenSse
      <4>3. v = Given(r, w)
        BY DEF w
      <4> HIDE DEF v
      <4> QED
        BY <4>1, <4>2, <4>3
    <3> HIDE DEF u, v
    <3>3. u.ready = v.ready /\ u.pending = v.pending /\ u.lastId = v.lastId
      BY <3>1, <3>2, Zenon
    <3>4. u = v
      BY <3>1, <3>2, <3>3, SameSse
    <3> QED
      BY <3>4 DEF u, v
  <2>2. WithId(Given(r, q), value) = Given(r, WithId(q, value))
    <3> DEFINE u == WithId(Given(r, q), value)
               v == Given(r, WithId(q, value))
    <3>1. /\ u \in SseParsers /\ u.ready = r \o q.ready
          /\ u.pending = IdOf(q.pending, value) /\ u.lastId = value
      <4> DEFINE w == Given(r, q)
      <4>1. /\ w \in SseParsers /\ w.ready = r \o q.ready
            /\ w.pending = q.pending /\ w.lastId = q.lastId
        BY GivenSse
      <4> HIDE DEF w
      <4>2. /\ WithId(w, value) \in SseParsers /\ WithId(w, value).ready = w.ready
            /\ WithId(w, value).pending = IdOf(w.pending, value)
            /\ WithId(w, value).lastId = value
        BY <4>1, FieldsSet
      <4>3. u = WithId(w, value)
        BY DEF w
      <4> HIDE DEF u
      <4> QED
        BY <4>1, <4>2, <4>3, Zenon
    <3>2. /\ v \in SseParsers /\ v.ready = r \o q.ready
          /\ v.pending = IdOf(q.pending, value) /\ v.lastId = value
      <4> DEFINE w == WithId(q, value)
      <4>1. /\ w \in SseParsers /\ w.ready = q.ready
            /\ w.pending = IdOf(q.pending, value) /\ w.lastId = value
        BY FieldsSet
      <4> HIDE DEF w
      <4>2. /\ Given(r, w) \in SseParsers /\ Given(r, w).ready = r \o w.ready
            /\ Given(r, w).pending = w.pending /\ Given(r, w).lastId = w.lastId
        BY <4>1, GivenSse
      <4>3. v = Given(r, w)
        BY DEF w
      <4> HIDE DEF v
      <4> QED
        BY <4>1, <4>2, <4>3
    <3> HIDE DEF u, v
    <3>3. u.ready = v.ready /\ u.pending = v.pending /\ u.lastId = v.lastId
      BY <3>1, <3>2, Zenon
    <3>4. u = v
      BY <3>1, <3>2, <3>3, SameSse
    <3> QED
      BY <3>4 DEF u, v
  <2>3. WithEvent(Given(r, q), value) = Given(r, WithEvent(q, value))
    <3> DEFINE u == WithEvent(Given(r, q), value)
               v == Given(r, WithEvent(q, value))
    <3>1. /\ u \in SseParsers /\ u.ready = r \o q.ready
          /\ u.pending = EventOf(q.pending, value) /\ u.lastId = q.lastId
      <4> DEFINE w == Given(r, q)
      <4>1. /\ w \in SseParsers /\ w.ready = r \o q.ready
            /\ w.pending = q.pending /\ w.lastId = q.lastId
        BY GivenSse
      <4> HIDE DEF w
      <4>2. /\ WithEvent(w, value) \in SseParsers /\ WithEvent(w, value).ready = w.ready
            /\ WithEvent(w, value).pending = EventOf(w.pending, value)
            /\ WithEvent(w, value).lastId = w.lastId
        BY <4>1, FieldsSet
      <4>3. u = WithEvent(w, value)
        BY DEF w
      <4> HIDE DEF u
      <4> QED
        BY <4>1, <4>2, <4>3, Zenon
    <3>2. /\ v \in SseParsers /\ v.ready = r \o q.ready
          /\ v.pending = EventOf(q.pending, value) /\ v.lastId = q.lastId
      <4> DEFINE w == WithEvent(q, value)
      <4>1. /\ w \in SseParsers /\ w.ready = q.ready
            /\ w.pending = EventOf(q.pending, value) /\ w.lastId = q.lastId
        BY FieldsSet
      <4> HIDE DEF w
      <4>2. /\ Given(r, w) \in SseParsers /\ Given(r, w).ready = r \o w.ready
            /\ Given(r, w).pending = w.pending /\ Given(r, w).lastId = w.lastId
        BY <4>1, GivenSse
      <4>3. v = Given(r, w)
        BY DEF w
      <4> HIDE DEF v
      <4> QED
        BY <4>1, <4>2, <4>3
    <3> HIDE DEF u, v
    <3>3. u.ready = v.ready /\ u.pending = v.pending /\ u.lastId = v.lastId
      BY <3>1, <3>2, Zenon
    <3>4. u = v
      BY <3>1, <3>2, <3>3, SameSse
    <3> QED
      BY <3>4 DEF u, v
  <2> QED
    BY <2>1, <2>2, <2>3
<1>3. /\ name = << "data" >> => \A u : SetField(u, name, value) = WithData(u, value)
      /\ name = << "id" >> => \A u : SetField(u, name, value) = WithId(u, value)
      /\ name = << "event" >> => \A u : SetField(u, name, value) = WithEvent(u, value)
      /\ name \notin {<< "data" >>, << "id" >>, << "event" >>} =>
           \A u : SetField(u, name, value) = u
  BY SetFieldIs
<1>4. CASE name = << "data" >>
  BY <1>1, <1>2, <1>3, <1>4, Zenon
<1>5. CASE name = << "id" >>
  BY <1>1, <1>2, <1>3, <1>5, Zenon
<1>6. CASE name = << "event" >>
  BY <1>1, <1>2, <1>3, <1>6, Zenon
<1>7. CASE name \notin {<< "data" >>, << "id" >>, << "event" >>}
  BY <1>3, <1>7, Zenon
<1> QED
  BY <1>4, <1>5, <1>6, <1>7, Zenon

\* The pending event that a dispatch leaves.
LEMMA NewEventType == NewEvent \in Event
  BY DEF NewEvent, Event, Maybe, Text

\* What a blank line does to a parser.
LEMMA DispatchIs ==
  ASSUME NEW u \in SseParsers
  PROVE  /\ Dispatch(u) \in SseParsers
         /\ Dispatch(u).ready = Append(u.ready, u.pending)
         /\ Dispatch(u).pending = NewEvent /\ Dispatch(u).lastId = u.lastId
<1> DEFINE all == Append(u.ready, u.pending)
<1>1. u.ready \in Seq(Event) /\ u.pending \in Event
  BY DEF SseParsers
<1>2. all \in Seq(Event)
  BY <1>1, AppendProperties
<1>3. Dispatch(u) = [u EXCEPT !.ready = all, !.pending = NewEvent]
  BY Zenon DEF Dispatch
<1> HIDE DEF all
<1>4. /\ [u EXCEPT !.ready = all, !.pending = NewEvent] \in SseParsers
      /\ [u EXCEPT !.ready = all, !.pending = NewEvent].ready = all
      /\ [u EXCEPT !.ready = all, !.pending = NewEvent].pending = NewEvent
      /\ [u EXCEPT !.ready = all, !.pending = NewEvent].lastId = u.lastId
  BY NewEventType, <1>2 DEF SseParsers
<1> QED
  BY <1>3, <1>4, Zenon DEF all

\* A blank line adds the pending event to whatever items there are.
LEMMA DispatchSse ==
  ASSUME NEW q \in SseParsers
  PROVE  /\ Dispatch(q) \in SseParsers
         /\ \A r \in Seq(Event) : Dispatch(Given(r, q)) = Given(r, Dispatch(q))
<1>1. ASSUME NEW r \in Seq(Event)
      PROVE  Dispatch(Given(r, q)) = Given(r, Dispatch(q))
  <2> DEFINE a == q.ready
             e == q.pending
             u == Dispatch(Given(r, q))
             v == Given(r, Dispatch(q))
  <2>1. a \in Seq(Event) /\ e \in Event
    BY DEF SseParsers
  <2>2. /\ u \in SseParsers /\ u.ready = Append(r \o a, e)
        /\ u.pending = NewEvent /\ u.lastId = q.lastId
    <3> DEFINE w == Given(r, q)
    <3>1. /\ w \in SseParsers /\ w.ready = r \o a
          /\ w.pending = e /\ w.lastId = q.lastId
      BY GivenSse
    <3> HIDE DEF w, a, e
    <3>2. /\ Dispatch(w) \in SseParsers
          /\ Dispatch(w).ready = Append(w.ready, w.pending)
          /\ Dispatch(w).pending = NewEvent /\ Dispatch(w).lastId = w.lastId
      BY <3>1, DispatchIs
    <3>3. u = Dispatch(w)
      BY DEF w
    <3> HIDE DEF u
    <3> QED
      BY <3>1, <3>2, <3>3
  <2>3. /\ v \in SseParsers /\ v.ready = r \o Append(a, e)
        /\ v.pending = NewEvent /\ v.lastId = q.lastId
    <3> DEFINE w == Dispatch(q)
    <3>1. /\ w \in SseParsers /\ w.ready = Append(a, e)
          /\ w.pending = NewEvent /\ w.lastId = q.lastId
      BY DispatchIs
    <3> HIDE DEF w, a, e
    <3>2. /\ Given(r, w) \in SseParsers /\ Given(r, w).ready = r \o w.ready
          /\ Given(r, w).pending = w.pending /\ Given(r, w).lastId = w.lastId
      BY <3>1, GivenSse
    <3>3. v = Given(r, w)
      BY DEF w
    <3> HIDE DEF v
    <3> QED
      BY <3>1, <3>2, <3>3
  <2> HIDE DEF a, e, u, v
  <2>4. Append(r \o a, e) = r \o Append(a, e)
    BY <2>1
  <2>5. u = v
    <3>1. u.ready = v.ready /\ u.pending = v.pending /\ u.lastId = v.lastId
      BY <2>2, <2>3, <2>4, Zenon
    <3> QED
      BY <2>2, <2>3, <3>1, SameSse
  <2> QED
    BY <2>5 DEF u, v
<1> QED
  BY <1>1, DispatchIs

\* SseStream's process_line sets the fields of the pending event and appends it to
\* ready on a blank line, whatever events are there, so FramingIsIrrelevant holds of it.
THEOREM SseAccumulates == Accumulates(OnSseLine, IdleSse, SseParsers, Event)
<1>1. IdleSse \in SseParsers
  BY DEF IdleSse, SseParsers, NewEvent, Event, Maybe, Text
<1>2. Failure \notin Event
  <2>1. "failed" \in DOMAIN Failure
    BY DEF Failure
  <2>2. \A item \in Event : "failed" \notin DOMAIN item
    BY DEF Event
  <2> QED
    BY <2>1, <2>2
<1>3. ASSUME NEW p \in SseParsers
      PROVE  /\ p = [x \in DOMAIN p |-> p[x]] /\ "ready" \in DOMAIN p
             /\ p.ready \in Seq(Event)
             /\ \A r \in Seq(Event) : [p EXCEPT !.ready = r] \in SseParsers
  BY DEF SseParsers
<1>4. ASSUME NEW p \in SseParsers, NEW untrimmed \in Seq(Symbols)
      PROVE  /\ OnSseLine(p, untrimmed) \in SseParsers
             /\ \A r \in Seq(Event) :
                  OnSseLine(Given(r, p), untrimmed) = Given(r, OnSseLine(p, untrimmed))
  <2> DEFINE line == TrimEnd(untrimmed)
             name == FieldName(line)
             value == FieldValue(line)
  <2>1. line \in Seq(Symbols) /\ value \in Text
    BY TrimEndType, FieldValueType, Zenon
  <2>2. \A u : OnSseLine(u, untrimmed) =
                 IF line = << >> THEN Dispatch(u) ELSE SetField(u, name, value)
    BY Zenon DEF OnSseLine
  <2> HIDE DEF line, name, value
  <2>3. CASE line = << >>
    <3>1. \A u : OnSseLine(u, untrimmed) = Dispatch(u)
      BY <2>2, <2>3, Zenon
    <3>2. /\ Dispatch(p) \in SseParsers
          /\ \A r \in Seq(Event) : Dispatch(Given(r, p)) = Given(r, Dispatch(p))
      BY DispatchSse
    <3> QED
      BY <3>1, <3>2, Zenon
  <2>4. CASE line # << >>
    <3>1. \A u : OnSseLine(u, untrimmed) = SetField(u, name, value)
      BY <2>2, <2>4, Zenon
    <3>2. /\ SetField(p, name, value) \in SseParsers
          /\ \A r \in Seq(Event) :
               SetField(Given(r, p), name, value) = Given(r, SetField(p, name, value))
      BY <2>1, SetFieldSse
    <3> QED
      BY <3>1, <3>2, Zenon
  <2> QED
    BY <2>3, <2>4
<1> QED
  BY <1>1, <1>2, <1>3, <1>4, Zenon DEF Accumulates

-----------------------------------------------------------------------------
(***************************************************************************)
(* On tidy lines the events with data are those that the specification of  *)
(* server-sent events derives.                                             *)
(***************************************************************************)

\* The data that the specification has gathered where SseStream has data.
Closed(data) == IF data = << >> THEN << >> ELSE data \o << LF >>

\* What the specification dispatches, and the states of its parser.
Dispatched == [id : Maybe, named : BOOLEAN, event : Maybe, data : Text]
SpecParsers == [ready : Seq(Dispatched), pending : Event, lastId : Maybe]

\* The SSE parser and the one of the specification: the same events told, the same
\* one pending, with its data closed, and the same last id.
Agree(p, s) ==
  /\ p \in SseParsers /\ s \in SpecParsers
  /\ Told(p.ready) \in Seq(Event) /\ Match(Told(p.ready), s.ready)
  /\ p.pending.id = s.pending.id /\ p.pending.event = s.pending.event
  /\ s.pending.data = Closed(p.pending.data)
  /\ p.lastId = s.lastId
  /\ s.pending.id # None => s.lastId = s.pending.id

LEMMA MeantIs ==
  \A lines : Specified(lines) = Meant!Fold(IdleSse, lines)
  BY Zenon DEF Specified, Meant!Fold, Meant!FoldLeft, FoldLeft,
               Meant!MapThenFoldSet, MapThenFoldSet, Meant!Max, Max

LEMMA ToldIs ==
  \A events : Told(events) = Telling!Fold(<< >>, events)
  BY Zenon DEF Told, Telling!Fold, Telling!FoldLeft, FoldLeft,
               Telling!MapThenFoldSet, MapThenFoldSet, Telling!Max, Max

\* One more event.
LEMMA ToldOfAppend ==
  ASSUME NEW events \in Seq(Event), NEW event \in Event
  PROVE  Told(Append(events, event)) = Tell(Told(events), event)
  BY ToldIs, Telling!FoldOfAppend

\* Events that match, followed by one that does.
LEMMA MatchAppend ==
  ASSUME NEW a \in Seq(Event), NEW b \in Seq(Dispatched), Match(a, b),
         NEW x \in Event, NEW y \in Dispatched, IsSpecified(x, y)
  PROVE  Match(Append(a, x), Append(b, y))
<1> DEFINE n == Len(a)
           c == Append(a, x)
           d == Append(b, y)
<1>1. n \in Nat /\ Len(b) = n /\ \A i \in 1..n : IsSpecified(a[i], b[i])
  BY DEF Match
<1>2. Len(c) = n + 1 /\ c[n + 1] = x /\ \A i \in 1..n : c[i] = a[i]
  OBVIOUS
<1>3. Len(d) = n + 1 /\ d[n + 1] = y /\ \A i \in 1..n : d[i] = b[i]
  BY <1>1
<1>4. \A i \in 1..(n + 1) : i \in 1..n \/ i = n + 1
  BY <1>1
<1> HIDE DEF n, c, d
<1>5. \A i \in 1..(n + 1) : IsSpecified(c[i], d[i])
  BY <1>1, <1>2, <1>3, <1>4, Zenon
<1> QED
  BY <1>2, <1>3, <1>5, Zenon DEF Match, c, d

\* Data that is joined and closed, or closed and closed again.
LEMMA ClosedData ==
  ASSUME NEW data \in Text, NEW value \in Text, value # << >>
  PROVE  Closed(data) \o value \o << LF >> = Closed(AddData(data, value))
<1> DEFINE All == Symbols \cup {LF}
<1>1. data \in Seq(All) /\ value \in Seq(All) /\ LF \in All
  BY DEF Text
<1> HIDE DEF All
<1>2. CASE data = << >>
  <2>1. << >> \o value \o << LF >> = value \o << LF >>
    BY <1>1
  <2> QED
    BY <1>2, <2>1, Zenon DEF Closed, AddData
<1>3. CASE data # << >>
  <2> DEFINE both == data \o << LF >> \o value
  <2>1. both # << >>
    BY <1>1, <1>3
  <2>2. Closed(data) = data \o << LF >> /\ AddData(data, value) = both
    BY <1>3, Zenon DEF Closed, AddData
  <2>3. Closed(both) = both \o << LF >>
    BY <2>1, Zenon DEF Closed
  <2> QED
    BY <2>1, <2>2, <2>3, Zenon
<1> QED
  BY <1>2, <1>3

\* What is dispatched is closed data, opened again.
LEMMA ClosedFront ==
  ASSUME NEW data \in Text, data # << >>
  PROVE  Closed(data) # << >> /\ Front(Closed(data)) = data
<1> DEFINE All == Symbols \cup {LF}
           both == data \o << LF >>
<1>1. data \in Seq(All) /\ LF \in All
  BY DEF Text
<1> HIDE DEF All
<1>2. both \in Seq(All) /\ both # << >> /\ Len(both) = Len(data) + 1
  BY <1>1
<1>3. SubSeq(both, 1, Len(both) - 1) = data
  BY <1>1
<1>4. Closed(data) = both
  BY Zenon DEF Closed
<1> HIDE DEF both
<1>5. Front(both) = data
  BY <1>2, <1>3, Zenon DEF Front
<1> QED
  BY <1>2, <1>4, <1>5

\* The pending event of the specification, with one more value of data.
MoreData(s, value) == [s EXCEPT !.pending.data = @ \o value \o << LF >>]

LEMMA SpecFieldIs ==
  ASSUME NEW name, NEW value
  PROVE  /\ name = << "data" >> => \A u : SpecField(u, name, value) = MoreData(u, value)
         /\ name = << "id" >> => \A u : SpecField(u, name, value) = WithId(u, value)
         /\ name = << "event" >> => \A u : SpecField(u, name, value) = WithEvent(u, value)
         /\ name \notin {<< "data" >>, << "id" >>, << "event" >>} =>
              \A u : SpecField(u, name, value) = u
<1>1. \A u : SpecField(u, name, value) =
        CASE name = << "data" >> -> MoreData(u, value)
          [] name = << "id" >> -> WithId(u, value)
          [] name = << "event" >> -> WithEvent(u, value)
          [] OTHER -> u
  BY Zenon DEF SpecField, MoreData, WithId, WithEvent
<1>2. << "data" >> # << "id" >> /\ << "data" >> # << "event" >> /\ << "id" >> # << "event" >>
  OBVIOUS
<1> QED
  BY <1>1, <1>2, Zenon

\* What setting one field does to the parser of the specification.
LEMMA SpecFieldsSet ==
  ASSUME NEW s \in SpecParsers, NEW value \in Text
  PROVE  /\ [s EXCEPT !.pending.data = value] \in SpecParsers
         /\ [s EXCEPT !.pending.data = value].ready = s.ready
         /\ [s EXCEPT !.pending.data = value].pending = [s.pending EXCEPT !.data = value]
         /\ [s EXCEPT !.pending.data = value].lastId = s.lastId
         /\ WithId(s, value) \in SpecParsers /\ WithId(s, value).ready = s.ready
         /\ WithId(s, value).pending = IdOf(s.pending, value)
         /\ WithId(s, value).lastId = value
         /\ WithEvent(s, value) \in SpecParsers /\ WithEvent(s, value).ready = s.ready
         /\ WithEvent(s, value).pending = EventOf(s.pending, value)
         /\ WithEvent(s, value).lastId = s.lastId
<1>1. /\ [s EXCEPT !.pending.data = value] \in SpecParsers
      /\ [s EXCEPT !.pending.data = value].ready = s.ready
      /\ [s EXCEPT !.pending.data = value].pending = [s.pending EXCEPT !.data = value]
      /\ [s EXCEPT !.pending.data = value].lastId = s.lastId
  BY DEF SpecParsers, Event
<1>2. /\ WithId(s, value) \in SpecParsers /\ WithId(s, value).ready = s.ready
      /\ WithId(s, value).pending = IdOf(s.pending, value)
      /\ WithId(s, value).lastId = value
  BY DEF SpecParsers, Event, Maybe, WithId, IdOf
<1>3. /\ WithEvent(s, value) \in SpecParsers /\ WithEvent(s, value).ready = s.ready
      /\ WithEvent(s, value).pending = EventOf(s.pending, value)
      /\ WithEvent(s, value).lastId = s.lastId
  BY DEF SpecParsers, Event, Maybe, WithEvent, EventOf
<1> QED
  BY <1>1, <1>2, <1>3, Zenon

\* The fields of an event, one of them set.
LEMMA EventFields ==
  ASSUME NEW e \in Event, NEW value \in Text
  PROVE  /\ [e EXCEPT !.data = value].id = e.id
         /\ [e EXCEPT !.data = value].event = e.event
         /\ [e EXCEPT !.data = value].data = value
         /\ IdOf(e, value).id = value /\ IdOf(e, value).event = e.event
         /\ IdOf(e, value).data = e.data
         /\ EventOf(e, value).id = e.id /\ EventOf(e, value).event = value
         /\ EventOf(e, value).data = e.data
BY DEF Event, IdOf, EventOf

\* A value of data.
LEMMA AgreeOnData ==
  ASSUME NEW p, NEW s, Agree(p, s), NEW value \in Text, value # << >>
  PROVE  Agree(WithData(p, value), MoreData(s, value))
<1> DEFINE old == p.pending.data
           new == AddData(old, value)
           end == Closed(new)
           more == MoreData(s, value)
           with == WithData(p, value)
<1>1. p \in SseParsers /\ s \in SpecParsers /\ s.pending.data = Closed(old)
  BY DEF Agree
<1>2. p.pending \in Event /\ old \in Text /\ s.pending \in Event
  BY <1>1 DEF SseParsers, SpecParsers, Event
<1> HIDE DEF old
<1>3. Closed(old) \o value \o << LF >> = end
  BY <1>2, ClosedData
<1>4. new \in Text
  BY <1>2, AddDataType
<1> HIDE DEF new
<1>5. end \in Text
  <2>1. new \o << LF >> \in Text
    BY <1>4 DEF Text
  <2> QED
    BY <1>4, <2>1, Zenon DEF Closed
<1>6. more = [s EXCEPT !.pending.data = end]
  BY <1>1, <1>3, Zenon DEF MoreData
<1> HIDE DEF end, more
<1>7. /\ more \in SpecParsers /\ more.ready = s.ready /\ more.lastId = s.lastId
      /\ more.pending = [s.pending EXCEPT !.data = end]
  BY <1>1, <1>5, <1>6, SpecFieldsSet
<1>8. /\ more.pending.id = s.pending.id /\ more.pending.event = s.pending.event
      /\ more.pending.data = end
  <2> DEFINE e == s.pending
  <2>1. e \in Event
    BY <1>2
  <2> HIDE DEF e
  <2>2. /\ [e EXCEPT !.data = end].id = e.id /\ [e EXCEPT !.data = end].event = e.event
        /\ [e EXCEPT !.data = end].data = end
    BY <1>5, <2>1, EventFields
  <2> QED
    BY <1>7, <2>2, Zenon DEF e
<1>9. /\ with \in SseParsers /\ with.ready = p.ready /\ with.lastId = p.lastId
      /\ with.pending = DataOf(p.pending, value)
  BY <1>1, FieldsSet
<1> HIDE DEF with
<1>10. /\ with.pending.id = p.pending.id /\ with.pending.event = p.pending.event
       /\ with.pending.data = new
  <2> DEFINE e == p.pending
  <2>1. e \in Event
    BY <1>2
  <2>2. DataOf(e, value) = [e EXCEPT !.data = new]
    BY Zenon DEF DataOf, new, old
  <2> HIDE DEF e
  <2>3. /\ [e EXCEPT !.data = new].id = e.id /\ [e EXCEPT !.data = new].event = e.event
        /\ [e EXCEPT !.data = new].data = new
    BY <1>4, <2>1, EventFields
  <2> QED
    BY <1>9, <2>2, <2>3, Zenon DEF e
<1>11. Agree(with, more)
  BY <1>7, <1>8, <1>9, <1>10, Zenon DEF Agree, end
<1> QED
  BY <1>11 DEF with, more

\* A value of another field.
LEMMA AgreeOnField ==
  ASSUME NEW p, NEW s, Agree(p, s), NEW value \in Text
  PROVE  /\ Agree(WithId(p, value), WithId(s, value))
         /\ Agree(WithEvent(p, value), WithEvent(s, value))
<1>1. p \in SseParsers /\ s \in SpecParsers
  BY DEF Agree
<1> DEFINE e == p.pending
           f == s.pending
<1>2. e \in Event /\ f \in Event
  BY <1>1 DEF SseParsers, SpecParsers
<1> HIDE DEF e, f
<1>3. /\ IdOf(e, value).id = value /\ IdOf(e, value).event = e.event
      /\ IdOf(e, value).data = e.data
      /\ EventOf(e, value).id = e.id /\ EventOf(e, value).event = value
      /\ EventOf(e, value).data = e.data
  BY <1>2, EventFields
<1>4. /\ IdOf(f, value).id = value /\ IdOf(f, value).event = f.event
      /\ IdOf(f, value).data = f.data
      /\ EventOf(f, value).id = f.id /\ EventOf(f, value).event = value
      /\ EventOf(f, value).data = f.data
  BY <1>2, EventFields
<1>5. /\ Told(p.ready) \in Seq(Event) /\ Match(Told(p.ready), s.ready)
      /\ e.id = f.id /\ e.event = f.event /\ f.data = Closed(e.data)
      /\ p.lastId = s.lastId /\ (f.id # None => s.lastId = f.id)
  BY Zenon DEF Agree, e, f
<1>6. Agree(WithId(p, value), WithId(s, value))
  <2> DEFINE a == WithId(p, value)
             b == WithId(s, value)
  <2>1. /\ a \in SseParsers /\ a.ready = p.ready /\ a.pending = IdOf(e, value)
        /\ a.lastId = value
    BY <1>1, FieldsSet DEF e
  <2>2. /\ b \in SpecParsers /\ b.ready = s.ready /\ b.pending = IdOf(f, value)
        /\ b.lastId = value
    BY <1>1, SpecFieldsSet DEF f
  <2> HIDE DEF a, b
  <2>3. Agree(a, b)
    BY <1>3, <1>4, <1>5, <2>1, <2>2, Zenon DEF Agree
  <2> QED
    BY <2>3 DEF a, b
<1>7. Agree(WithEvent(p, value), WithEvent(s, value))
  <2> DEFINE a == WithEvent(p, value)
             b == WithEvent(s, value)
  <2>1. /\ a \in SseParsers /\ a.ready = p.ready /\ a.pending = EventOf(e, value)
        /\ a.lastId = p.lastId
    BY <1>1, FieldsSet DEF e
  <2>2. /\ b \in SpecParsers /\ b.ready = s.ready /\ b.pending = EventOf(f, value)
        /\ b.lastId = s.lastId
    BY <1>1, SpecFieldsSet DEF f
  <2> HIDE DEF a, b
  <2>3. Agree(a, b)
    BY <1>3, <1>4, <1>5, <2>1, <2>2, Zenon DEF Agree
  <2> QED
    BY <2>3 DEF a, b
<1> QED
  BY <1>6, <1>7

\* A blank line, with or without data before it.
LEMMA AgreeOnBlank ==
  ASSUME NEW p, NEW s, Agree(p, s)
  PROVE  Agree(Dispatch(p), SpecDispatch(s))
<1> DEFINE e == p.pending
           f == s.pending
           next == Dispatch(p)
           spec == SpecDispatch(s)
           event == [id |-> s.lastId, named |-> f.id # None, event |-> f.event,
                     data |-> e.data]
           all == IF e.data = << >> THEN s.ready ELSE Append(s.ready, event)
<1>1. p \in SseParsers /\ s \in SpecParsers
  BY DEF Agree
<1>2. /\ e \in Event /\ f \in Event /\ e.data \in Text
      /\ p.ready \in Seq(Event) /\ s.ready \in Seq(Dispatched) /\ s.lastId \in Maybe
  BY <1>1 DEF SseParsers, SpecParsers, Event
<1>3. next \in SseParsers /\ next.ready = Append(p.ready, e) /\ next.pending = NewEvent
      /\ next.lastId = p.lastId
  BY <1>1, DispatchIs
<1> HIDE DEF e, next
<1>4. /\ Told(p.ready) \in Seq(Event) /\ Match(Told(p.ready), s.ready)
      /\ e.id = f.id /\ e.event = f.event /\ f.data = Closed(e.data)
      /\ p.lastId = s.lastId /\ (f.id # None => s.lastId = f.id)
  BY Zenon DEF Agree, e
<1>5. spec = [s EXCEPT !.pending = NewEvent, !.ready = all]
  <2>1. CASE e.data = << >>
    <3>1. f.data = << >>
      BY <1>4, <2>1, Zenon DEF Closed
    <3> QED
      BY <2>1, <3>1, Zenon DEF SpecDispatch
  <2>2. CASE e.data # << >>
    <3>1. Closed(e.data) # << >> /\ Front(Closed(e.data)) = e.data
      BY <1>2, <2>2, ClosedFront
    <3> QED
      BY <1>4, <2>2, <3>1, Zenon DEF SpecDispatch
  <2> QED
    BY <2>1, <2>2
<1> HIDE DEF f, spec
<1>6. event \in Dispatched
  BY <1>2 DEF Event, Dispatched
<1>7. /\ event.id = s.lastId /\ event.named = (f.id # None) /\ event.event = f.event
      /\ event.data = e.data
  OBVIOUS
<1> HIDE DEF event
<1>8. IsSpecified(e, event)
  BY <1>4, <1>7, Zenon DEF IsSpecified
<1>9. Told(next.ready) = Tell(Told(p.ready), e)
  BY <1>2, <1>3, ToldOfAppend
<1>10. /\ Told(next.ready) \in Seq(Event) /\ all \in Seq(Dispatched)
       /\ Match(Told(next.ready), all)
  <2>1. CASE e.data = << >>
    BY <1>2, <1>4, <1>9, <2>1, Zenon DEF Tell
  <2>2. CASE e.data # << >>
    <3>1. Told(next.ready) = Append(Told(p.ready), e) /\ all = Append(s.ready, event)
      BY <1>9, <2>2, Zenon DEF Tell
    <3>2. Append(Told(p.ready), e) \in Seq(Event) /\ Append(s.ready, event) \in Seq(Dispatched)
      BY <1>2, <1>4, <1>6, AppendProperties
    <3>3. Match(Append(Told(p.ready), e), Append(s.ready, event))
      BY <1>2, <1>4, <1>6, <1>8, MatchAppend
    <3> QED
      BY <3>1, <3>2, <3>3, Zenon
  <2> QED
    BY <2>1, <2>2
<1> HIDE DEF all
<1>11. /\ spec \in SpecParsers /\ spec.ready = all /\ spec.pending = NewEvent
       /\ spec.lastId = s.lastId
  BY <1>1, <1>5, <1>10, NewEventType DEF SpecParsers
<1>12. NewEvent.data = Closed(NewEvent.data) /\ NewEvent.id = None
  BY DEF NewEvent, Closed
<1>13. Agree(next, spec)
  BY <1>3, <1>4, <1>10, <1>11, <1>12, Zenon DEF Agree
<1> QED
  BY <1>13 DEF next, spec

\* A tidy line.
LEMMA AgreeOnLine ==
  ASSUME NEW p, NEW s, Agree(p, s), NEW line \in Seq(Symbols), TidyLine(line)
  PROVE  Agree(OnSseLine(p, line), OnLineAsSpecified(s, line))
<1> DEFINE name == FieldName(line)
           value == FieldValue(line)
           next == OnSseLine(p, line)
           spec == OnLineAsSpecified(s, line)
<1>1. value \in Text /\ (name = << "data" >> => value # << >>)
  BY FieldValueType, Zenon DEF TidyLine, IsData
<1>2. /\ line = << >> => next = Dispatch(p)
      /\ line # << >> => next = SetField(p, name, value)
  BY Zenon DEF OnSseLine, TidyLine
<1>3. /\ line = << >> => spec = SpecDispatch(s)
      /\ line # << >> => spec = SpecField(s, name, value)
  BY Zenon DEF OnLineAsSpecified, TidyLine
<1> HIDE DEF next, spec, value, name
<1>4. CASE line = << >>
  BY <1>2, <1>3, <1>4, AgreeOnBlank DEF next, spec
<1>5. CASE line # << >>
  <2>1. next = SetField(p, name, value) /\ spec = SpecField(s, name, value)
    BY <1>2, <1>3, <1>5
  <2>2. CASE name = << "data" >>
    <3>1. next = WithData(p, value) /\ spec = MoreData(s, value)
      BY <2>1, <2>2, SetFieldIs, SpecFieldIs
    <3>2. Agree(WithData(p, value), MoreData(s, value))
      BY <1>1, <2>2, AgreeOnData
    <3> QED
      BY <3>1, <3>2, Zenon DEF next, spec
  <2>3. CASE name = << "id" >>
    <3>1. next = WithId(p, value) /\ spec = WithId(s, value)
      BY <2>1, <2>3, SetFieldIs, SpecFieldIs
    <3>2. Agree(WithId(p, value), WithId(s, value))
      BY <1>1, AgreeOnField
    <3> QED
      BY <3>1, <3>2, Zenon DEF next, spec
  <2>4. CASE name = << "event" >>
    <3>1. next = WithEvent(p, value) /\ spec = WithEvent(s, value)
      BY <2>1, <2>4, SetFieldIs, SpecFieldIs
    <3>2. Agree(WithEvent(p, value), WithEvent(s, value))
      BY <1>1, AgreeOnField
    <3> QED
      BY <3>1, <3>2, Zenon DEF next, spec
  <2>5. CASE name \notin {<< "data" >>, << "id" >>, << "event" >>}
    <3>1. next = p /\ spec = s
      BY <2>1, <2>5, SetFieldIs, SpecFieldIs
    <3> QED
      BY <3>1, Zenon DEF next, spec
  <2> QED
    BY <2>2, <2>3, <2>4, <2>5, Zenon
<1> QED
  BY <1>4, <1>5

\* Tidy lines, up to the last.
LEMMA TidyAppend ==
  ASSUME NEW lines \in Seq(Seq(Symbols)), NEW line \in Seq(Symbols),
         Tidy(Append(lines, line))
  PROVE  Tidy(lines) /\ TidyLine(line)
<1> DEFINE all == Append(lines, line)
           n == Len(lines)
<1>1. /\ DOMAIN lines = 1..n /\ DOMAIN all = 1..(n + 1) /\ all[n + 1] = line
      /\ \A i \in 1..n : all[i] = lines[i] /\ i \in 1..(n + 1)
      /\ n + 1 \in 1..(n + 1)
  OBVIOUS
<1> HIDE DEF all, n
<1>2. \A i \in 1..(n + 1) : TidyLine(all[i])
  BY <1>1, Zenon DEF Tidy, all
<1> QED
  BY <1>1, <1>2, Zenon DEF Tidy

\* What the two parsers make of lines, by induction over them.
Alike(p, s, lines) == Tidy(lines) => Agree(p, s)

\* One more line.
LEMMA AlikeOnLine ==
  ASSUME NEW p, NEW s, NEW lines \in Seq(Seq(Symbols)), NEW line \in Seq(Symbols),
         Alike(p, s, lines)
  PROVE  Alike(OnSseLine(p, line), OnLineAsSpecified(s, line), Append(lines, line))
<1> SUFFICES ASSUME Tidy(Append(lines, line))
             PROVE  Agree(OnSseLine(p, line), OnLineAsSpecified(s, line))
  BY Zenon DEF Alike
<1>1. Tidy(lines) /\ TidyLine(line)
  BY TidyAppend
<1>2. Agree(p, s)
  BY <1>1, Zenon DEF Alike
<1> QED
  BY <1>1, <1>2, AgreeOnLine

\* All of them.
LEMMA AlikeOnLines ==
  ASSUME \A p, line : OnLine(p, line) = OnSseLine(p, line), Idle = IdleSse,
         NEW lines \in Seq(Seq(Symbols))
  PROVE  Alike(Parsed!Fold(Idle, lines), Meant!Fold(IdleSse, lines), lines)
<1> DEFINE L == Seq(Symbols)
           P == {ls \in Seq(L) : Alike(Parsed!Fold(Idle, ls), Meant!Fold(IdleSse, ls), ls)}
<1>1. << >> \in P
  <2>1. << >> \in Seq(L)
    OBVIOUS
  <2>2. Parsed!Fold(Idle, << >>) = IdleSse /\ Meant!Fold(IdleSse, << >>) = IdleSse
    BY Parsed!FoldOfEmpty, Meant!FoldOfEmpty, Zenon
  <2>3. /\ IdleSse \in SseParsers /\ IdleSse \in SpecParsers /\ IdleSse.ready = << >>
        /\ IdleSse.pending.data = << >> /\ IdleSse.pending.id = None
    BY DEF IdleSse, SseParsers, SpecParsers, NewEvent, Event, Maybe, Text
  <2>4. Told(<< >>) = << >>
    BY ToldIs, Telling!FoldOfEmpty, Zenon
  <2>5. << >> \in Seq(Event) /\ Match(<< >>, << >>)
    BY DEF Match
  <2>6. Agree(IdleSse, IdleSse)
    BY <2>3, <2>4, <2>5, Zenon DEF Agree, Closed
  <2> HIDE DEF L
  <2> QED
    BY <2>1, <2>2, <2>6, Zenon DEF Alike
<1>2. ASSUME NEW ls \in Seq(L), NEW line \in L, ls \in P
      PROVE  Append(ls, line) \in P
  <2> DEFINE p == Parsed!Fold(Idle, ls)
             s == Meant!Fold(IdleSse, ls)
  <2>1. Parsed!Fold(Idle, Append(ls, line)) = OnSseLine(p, line)
    <3> HIDE DEF L
    <3>1. Parsed!Fold(Idle, Append(ls, line)) = OnLine(p, line)
      BY Parsed!FoldOfAppend
    <3> QED
      BY <3>1, Zenon
  <2>2. Meant!Fold(IdleSse, Append(ls, line)) = OnLineAsSpecified(s, line)
    <3> HIDE DEF L
    <3> QED
      BY Meant!FoldOfAppend
  <2>3. Alike(p, s, ls)
    BY <1>2, Zenon
  <2> HIDE DEF p, s
  <2>4. Alike(OnSseLine(p, line), OnLineAsSpecified(s, line), Append(ls, line))
    BY <2>3, AlikeOnLine
  <2>5. Append(ls, line) \in Seq(L)
    OBVIOUS
  <2> HIDE DEF L
  <2> QED
    BY <2>1, <2>2, <2>4, <2>5, Zenon DEF p, s
<1>3. lines \in P
  <2> HIDE DEF P, L
  <2>1. \A ls \in Seq(L) : ls \in P
    BY <1>1, <1>2, Parsed!SequencesByInduction
  <2> QED
    BY <2>1, Zenon DEF L
<1> QED
  BY <1>3, Zenon

\* On a stream of tidy lines, in any order and whatever the frames, the events with
\* data that SseStream gives are those that the specification of server-sent events
\* derives from the lines (sse.rs:5), one for one, with their types, their data and the
\* ids that their own lines give them, and last_event_id() is the specification's.
THEOREM SseStreamIsAsSpecified ==
  ASSUME \A p, line : OnLine(p, line) = OnSseLine(p, line), Idle = IdleSse
  PROVE  Spec => []AsSpecified
<1>1. Accumulates(OnLine, Idle, SseParsers, Event)
  BY SseAccumulates, Zenon DEF Accumulates
<1>2. Init => FrameInv(SseParsers, Event)
  BY <1>1, FrameInit
<1>3. IInv /\ FrameInv(SseParsers, Event) /\ [Next]_vars => FrameInv(SseParsers, Event)'
  BY <1>1, FrameStep
<1>4. TypeOK /\ FrameInv(SseParsers, Event) => AsSpecified
  <2> SUFFICES ASSUME TypeOK, FrameInv(SseParsers, Event), Tidy(LinesOf(taken))
               PROVE  /\ Match(Told(Items \o parser.ready), Specified(LinesOf(taken)).ready)
                      /\ parser.lastId = Specified(LinesOf(taken)).lastId
    BY Zenon DEF AsSpecified
  <2> DEFINE lines == LinesOf(taken)
  <2>1. lines \in Seq(Seq(Symbols))
    <3> DEFINE ends == Ends(taken)
    <3>1. taken \in Seq(Symbols) /\ ends \in SUBSET (1..Len(taken))
      BY DEF TypeOK, Ends
    <3>2. lines = [i \in 1..Cardinality(ends) |->
                     SubSeq(taken, Start(ends, i) + 1, NthOf(ends, i) - 1)]
      BY <3>1, LinesOfEnds
    <3> HIDE DEF ends, lines
    <3> QED
      BY <3>1, <3>2, LinesAreBytes
  <2>2. /\ parser \in SseParsers /\ Items \in Seq(Event)
        /\ Given(Items, parser) = Parsed!Fold(Idle, lines)
    BY FramingIs, WholeIs, Zenon DEF FrameInv
  <2>3. /\ Given(Items, parser).ready = Items \o parser.ready
        /\ Given(Items, parser).lastId = parser.lastId
    BY <2>2, GivenSse
  <2> HIDE DEF lines
  <2>4. Alike(Parsed!Fold(Idle, lines), Meant!Fold(IdleSse, lines), lines)
    BY <2>1, AlikeOnLines
  <2>5. /\ Match(Told(Parsed!Fold(Idle, lines).ready), Meant!Fold(IdleSse, lines).ready)
        /\ Parsed!Fold(Idle, lines).lastId = Meant!Fold(IdleSse, lines).lastId
    BY <2>4, Zenon DEF Alike, Agree, lines
  <2> QED
    BY <2>2, <2>3, <2>5, MeantIs, Zenon DEF lines
<1>5. IInv => TypeOK
  BY DEF IInv
<1> QED
  BY <1>2, <1>3, <1>4, <1>5, SpecStreamInv, PTL DEF Spec
=============================================================================
