------------------------------ MODULE SseStream ------------------------------
(***************************************************************************)
(* SseStream (src/response_helpers/sse.rs): LineStream with process_line,  *)
(* where OnLine is OnSseLine and Idle is IdleSse, and what the             *)
(* specification of server-sent events asks of the events it gives.        *)
(***************************************************************************)
EXTENDS LineStream, SseParser

\* Lines with no white space but the one after the colon, and data that is not empty.
IsData(line) == FieldName(line) = << "data" >>
TidyLine(line) ==
  /\ TrimEnd(line) = line
  /\ FieldValue(line) = SpecValue(line)
  /\ IsData(line) => FieldValue(line) # << >>
Tidy(lines) == \A i \in DOMAIN lines : TidyLine(lines[i])

\* The events that tell something: the specification has no others, and process_line
\* gives one for every blank line.
Tell(events, event) == IF event.data = << >> THEN events ELSE Append(events, event)
Told(events) == FoldLeft(Tell, << >>, events)

\* An event as specified, but that it may lack the id of another before it.
IsSpecified(event, spec) ==
  /\ event.event = spec.event
  /\ event.data = spec.data
  /\ spec.named \/ event.id # None => event.id = spec.id

Match(events, specs) ==
  /\ Len(events) = Len(specs)
  /\ \A i \in 1..Len(events) : IsSpecified(events[i], specs[i])

\* On tidy lines, in any order, the events with data are those that the SSE
\* specification derives from the lines taken ("according to the SSE specification",
\* sse.rs:5), each with its type, its data and the id that its own lines give it; and
\* last_event_id() is the specification's last event ID.  process_line departs from
\* the specification in four ways, which this allows for: an event whose lines have no
\* id lacks the last one, where the specification keeps it (sse.rs:120); a blank line
\* with no data before it gives an event too; white space is trimmed on both sides; and
\* empty data is not joined.
AsSpecified ==
  LET lines == LinesOf(taken)
  IN  Tidy(lines) =>
        /\ Match(Told(Items \o parser.ready), Specified(lines).ready)
        /\ parser.lastId = Specified(lines).lastId
=============================================================================
