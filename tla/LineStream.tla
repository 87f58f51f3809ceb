------------------------------ MODULE LineStream ------------------------------
(***************************************************************************)
(* The streaming response parsers SseStream and NdjsonStream               *)
(* (src/response_helpers/sse.rs, ndjson.rs).  Both keep the same buffer,   *)
(* cut it into lines with the same append_frame and are polled with the    *)
(* same poll_next; they differ in what they do with a line.  This module   *)
(* is the part they share; OnLine is the part they do not (SseParser,      *)
(* NdjsonParser).                                                          *)
(*                                                                         *)
(* The body's bytes reach the stream in frames of any size, cut anywhere.  *)
(* poll_next is one synchronous call and so one action; which action is    *)
(* taken depends on what the parser and the body have.  Between calls the  *)
(* consuming task sleeps until it is woken.                                *)
(***************************************************************************)
EXTENDS Naturals, Sequences, FiniteSets, SequencesExt

CONSTANTS
  Symbols,      \* bytes, or runs of bytes the parsers never look into
  NL,           \* the byte '\n'
  Bodies,       \* the response bodies considered, sequences of Symbols
  MaxFrames,    \* how many frames the body may hold ready
  Idle,         \* the parser of a new stream, a record with a field `ready`
  OnLine(_, _)  \* the parser after one more line

ASSUME LineStreamAssumption ==
  /\ NL \in Symbols
  /\ Bodies \subseteq Seq(Symbols)
  /\ MaxFrames \in Nat \ {0}
  /\ Idle.ready = << >>

VARIABLES
  wire,        \* bytes of the body still on their way
  open,        \* the body has not come to its end
  frames,      \* frames the body has ready
  registered,  \* the body holds the task's waker
  awake,       \* the executor will poll the task
  buffer,      \* self.buffer: the bytes of a line not yet complete
  parser,      \* parser.ready is self.ready_events or self.queue
  taken,       \* history: the bytes taken from the body
  yielded,     \* history: the items the stream gave
  over         \* the stream gave None

vars == << wire, open, frames, registered, awake, buffer, parser, taken,
           yielded, over >>

bodyVars == << wire, open, frames, registered >>

Failure == [failed |-> TRUE]  \* the item Err(e) of a body that failed

Data(bytes) == [kind |-> "data", bytes |-> bytes]
Trailers_AsData == Data(<< >>)
Trailers    == [kind |-> "trailers"]
Broken      == [kind |-> "error"]

Init ==
  /\ wire \in Bodies
  /\ open = TRUE
  /\ frames = << >>
  /\ registered = FALSE
  /\ awake = TRUE
  /\ buffer = << >>
  /\ parser = Idle
  /\ taken = << >>
  /\ yielded = << >>
  /\ over = FALSE

-----------------------------------------------------------------------------
(***************************************************************************)
(* append_frame.  An operator whose name has an underscore is a faulty     *)
(* variant of the one after it; the model never uses it.                   *)
(***************************************************************************)

\* The bytes start .. end - 1 (counted from 0) of a VecDeque, copied out of the
\* two slices it is stored in: the first `cut` bytes and the rest.
Copied_FirstSlice(s, cut, start, end) ==
  SubSeq(SubSeq(s, 1, cut), start + 1, IF end <= cut THEN end ELSE cut)
Copied(s, cut, start, end) ==
  LET s1 == SubSeq(s, 1, cut)
      s2 == SubSeq(s, cut + 1, Len(s))
  IN  IF end <= cut THEN SubSeq(s1, start + 1, end)
      ELSE IF start >= cut THEN SubSeq(s2, start - cut + 1, end - cut)
      ELSE SubSeq(s1, start + 1, cut) \o SubSeq(s2, 1, end - cut)

\* The '\n's after the first `old` bytes, the only ones the scan looks at.
Newlines_Skip(s, old) == {p \in 1..Len(s) : p > old + 1 /\ s[p] = NL}
Newlines(s, old) == {p \in 1..Len(s) : p > old /\ s[p] = NL}

\* `processed` when the scan comes to p: just after the '\n' before it.
Processed(nls, p) == Max({0} \cup {q \in nls : q < p})

\* The lines the scan completes, in order.
CutLines(s, old, cut) ==
  LET nls   == Newlines(s, old)
      Nth(i) == CHOOSE p \in nls : Cardinality({q \in nls : q <= p}) = i
  IN  [i \in 1..Cardinality(nls) |->
         Copied(s, cut, Processed(nls, Nth(i)), Nth(i) - 1)]

\* What is left after the processed bytes are popped off the front.
Remainder_All(s, old) == << >>
Remainder(s, old) ==
  SubSeq(s, Processed(Newlines(s, old), Len(s) + 1) + 1, Len(s))

\* Where the first slice may end: the VecDeque may be wrapped anywhere.
SliceEnds(s) == IF s = << >> THEN {0} ELSE 1..Len(s)

\* The parser after a frame.
Appended(bytes, cut) ==
  FoldLeft(OnLine, parser, CutLines(buffer \o bytes, Len(buffer), cut))

-----------------------------------------------------------------------------
(***************************************************************************)
(* poll_next, one disjunct for each way through it.                        *)
(***************************************************************************)

Scheduled == awake /\ ~over

\* An item is ready: give it.
YieldReady ==
  /\ Scheduled
  /\ parser.ready # << >>
  /\ yielded' = Append(yielded, Head(parser.ready))
  /\ parser' = [parser EXCEPT !.ready = Tail(@)]
  /\ UNCHANGED << bodyVars, awake, buffer, taken, over >>

\* No item is ready: ask the body.
AskBody == Scheduled /\ parser.ready = << >>

TakeFrame(kind) ==
  /\ AskBody
  /\ frames # << >>
  /\ Head(frames).kind = kind
  /\ frames' = Tail(frames)
  /\ UNCHANGED << wire, open, registered >>

\* cx.waker().wake_by_ref(): the frame completed no item and the body, which
\* was ready, has not kept the waker; the task asks to be polled again.
Reschedule_Forgotten == FALSE
Reschedule == TRUE

\* A data frame: append it, then give the first item if there is one now.
TakeData ==
  /\ TakeFrame("data")
  /\ LET bytes == Head(frames).bytes
     IN  /\ taken' = taken \o bytes
         /\ buffer' = Remainder(buffer \o bytes, Len(buffer))
         /\ \E cut \in SliceEnds(buffer \o bytes) :
              LET next == Appended(bytes, cut)
              IN  IF next.ready # << >>
                  THEN /\ yielded' = Append(yielded, Head(next.ready))
                       /\ parser' = [next EXCEPT !.ready = Tail(@)]
                       /\ UNCHANGED awake
                  ELSE /\ parser' = next
                       /\ awake' = Reschedule
                       /\ UNCHANGED yielded
  /\ UNCHANGED over

\* A frame that is not data is dropped.
TakeTrailers ==
  /\ TakeFrame("trailers")
  /\ awake' = Reschedule
  /\ UNCHANGED << buffer, parser, taken, yielded, over >>

\* The body failed: the error is an item.
TakeError ==
  /\ TakeFrame("error")
  /\ yielded' = Append(yielded, Failure)
  /\ UNCHANGED << awake, buffer, parser, taken, over >>

\* The body has ended, and so does the stream; what is in the buffer is lost.
TakeEnd ==
  /\ AskBody
  /\ frames = << >> /\ ~open
  /\ over' = TRUE
  /\ UNCHANGED << bodyVars, awake, buffer, parser, taken, yielded >>

\* The body has nothing yet: it keeps the waker, and the task sleeps.
Park ==
  /\ AskBody
  /\ frames = << >> /\ open
  /\ registered' = TRUE
  /\ awake' = FALSE
  /\ UNCHANGED << wire, open, frames, buffer, parser, taken, yielded, over >>

-----------------------------------------------------------------------------
(***************************************************************************)
(* The body, as the session behind it feeds it.                            *)
(***************************************************************************)

\* Whatever happens to the body wakes the task whose waker it holds.
Wake ==
  /\ awake' = (awake \/ registered)
  /\ registered' = FALSE

Feed(frame) ==
  /\ Len(frames) < MaxFrames
  /\ frames' = Append(frames, frame)
  /\ Wake
  /\ UNCHANGED << buffer, parser, taken, yielded, over >>

\* Some bytes arrive as one frame; none, as an empty one, would change nothing.
Arrive ==
  /\ open
  /\ \E n \in 1..Len(wire) :
       /\ Feed(Data(SubSeq(wire, 1, n)))
       /\ wire' = SubSeq(wire, n + 1, Len(wire))
  /\ UNCHANGED open

\* The body ends, perhaps with trailers.
EndWithTrailers ==
  /\ open /\ wire = << >>
  /\ Feed(Trailers)
  /\ open' = FALSE
  /\ UNCHANGED wire

End ==
  /\ open /\ wire = << >>
  /\ open' = FALSE
  /\ Wake
  /\ UNCHANGED << wire, frames, buffer, parser, taken, yielded, over >>

\* The body fails: the rest of it never comes.
Break ==
  /\ open
  /\ Feed(Broken)
  /\ open' = FALSE
  /\ wire' = << >>

-----------------------------------------------------------------------------
PollNext ==
  YieldReady \/ TakeData \/ TakeTrailers \/ TakeError \/ TakeEnd \/ Park

BodyStep == Arrive \/ EndWithTrailers \/ End \/ Break

Done == over /\ UNCHANGED vars

Next == PollNext \/ BodyStep \/ Done

Spec == Init /\ [][Next]_vars

\* The executor polls a woken task.  Nothing is asked of the body, which a
\* server may keep open without sending anything.
FairSpec == Spec /\ WF_vars(PollNext)

-----------------------------------------------------------------------------
(***************************************************************************)
(* Properties.                                                             *)
(***************************************************************************)

\* The shape of the state (the parser's own fields belong to the parsers).
TypeOK ==
  /\ wire \in Seq(Symbols)
  /\ frames \in Seq([kind : {"data"}, bytes : Seq(Symbols) \ {<< >>}]
                      \cup [kind : {"trailers", "error"}])
  /\ Len(frames) <= MaxFrames
  /\ {open, registered, awake, over} \subseteq BOOLEAN
  /\ buffer \in Seq(Symbols)
  /\ taken \in Seq(Symbols)

\* The complete lines of s, with no regard to how it came.
LinesOf(s) ==
  LET ends  == {p \in 1..Len(s) : s[p] = NL}
      Nth(i) == CHOOSE p \in ends : Cardinality({q \in ends : q <= p}) = i
      Begin(i) == IF i = 1 THEN 1 ELSE Nth(i - 1) + 1
  IN  [i \in 1..Cardinality(ends) |-> SubSeq(s, Begin(i), Nth(i) - 1)]

\* What a parser makes of s when it gets it in one piece.
Whole(s) == FoldLeft(OnLine, Idle, LinesOf(s))

\* The items given, without the error of a body that failed.
WithItem(items, item) == IF item = Failure THEN items ELSE Append(items, item)
Items == FoldLeft(WithItem, << >>, yielded)

\* Frame boundaries do not matter: wherever the frames are cut and the
\* VecDeque is wrapped, the items given and ready, and the parser's other
\* fields, are those of the bytes taken so far read in one piece ("handles
\* arbitrary frame boundaries", sse.rs:23; "across arbitrary frame
\* boundaries", ndjson.rs:25).
FramingIrrelevant ==
  [parser EXCEPT !.ready = Items \o @] = Whole(taken)

\* Who polls the stream sees lines and items only: it implements ItemStream.
Promise == INSTANCE ItemStream WITH
             lines <- LinesOf(taken),
             items <- Items,
             ended <- over
ImplementsItemStream == Promise!StreamSpec

\* The scan starts at the new bytes, so it must never leave a '\n' behind.
NoLineLeftInBuffer == NL \notin ToSet(buffer)

\* The bytes in the buffer are the unterminated end of what was taken: no byte
\* is lost or kept twice when the processed ones are popped off, and what is
\* popped ends with a line.
Cut == Len(taken) - Len(buffer)
BufferIsTail ==
  /\ Cut \in Nat
  /\ \A i \in 1..Len(buffer) : buffer[i] = taken[Cut + i]
  /\ Cut > 0 => taken[Cut] = NL

\* No wakeup is lost: a task that sleeps has left no item and no frame behind,
\* and the body holds its waker.
SleepsOnlyOnBody ==
  ~awake => parser.ready = << >> /\ frames = << >> /\ registered

\* Whatever the body does, the consumer catches up with it: again and again
\* all frames have been taken and all their items given.
CatchesUp == []<>(frames = << >> /\ parser.ready = << >>)
=============================================================================
