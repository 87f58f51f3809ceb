----------------------------- MODULE OneSession -----------------------------
(***************************************************************************)
(* What a session promises to the callers that hold a clone of it          *)
(* (src/application.rs, the trait Session), with no Mutex, channel or      *)
(* bytes: a request that is sent is answered, or fails because the         *)
(* connection closed, or, where the connection carries many exchanges,     *)
(* fails alone; and a connection closes because the server closed it, or   *)
(* over an exchange that cannot be brought to its end.                     *)
(***************************************************************************)

CONSTANTS
  Callers     \* tasks that may call send_request, each once

VARIABLES
  faulty,     \* the requests whose own bodies may turn out to be in error
  exclusive,  \* one exchange at a time (HTTP/1.1), or many (HTTP/2)
  phase,      \* [Callers -> Phases], where each caller's request is
  busy,       \* requests that the connection has and is not done with
  conn        \* "none" yet, "open", "closed" by the client, "refused" by the server

sessionVars == << faulty, exclusive, phase, busy, conn >>

\* Before it is sent, after, and at the three ends: over, failed, cancelled.
Phases == {"new", "waiting", "sent", "answered", "over", "failed", "cancelled"}

SessionInit ==
  /\ faulty \subseteq Callers
  /\ exclusive \in BOOLEAN
  /\ phase = [c \in Callers |-> "new"]
  /\ busy = {}
  /\ conn \in {"none", "open"}

Move(c, from, to) ==
  /\ phase[c] \in from
  /\ phase' = [phase EXCEPT ![c] = to]
  /\ UNCHANGED << faulty, exclusive >>

\* The first caller makes the connection, whatever version it turns out to speak.
Establish(c) ==
  /\ conn = "none" /\ conn' = "open"
  /\ phase[c] = "new"
  /\ phase' = [phase EXCEPT ![c] = "waiting"]
  /\ exclusive' \in BOOLEAN
  /\ UNCHANGED << faulty, busy >>

Ask(c) ==
  /\ conn # "none"
  /\ Move(c, {"new"}, "waiting")
  /\ UNCHANGED << busy, conn >>

\* The connection takes one request, if need be after the end of another.
Send(c) ==
  /\ conn = "open" /\ (exclusive => busy = {})
  /\ Move(c, {"waiting"}, "sent")
  /\ busy' = busy \cup {c}
  /\ UNCHANGED conn

\* The response comes, with or without a body to read.
Respond(c) ==
  /\ conn = "open"
  /\ Move(c, {"sent"}, "answered")
  /\ busy' \in {busy, busy \ {c}}
  /\ UNCHANGED conn

\* Only a connection that is closed refuses a request.
Refuse(c) ==
  /\ conn \in {"closed", "refused"}
  /\ Move(c, {"waiting"}, "failed")
  /\ UNCHANGED << busy, conn >>

\* The caller reads the body to its end, or drops it and leaves the rest of it
\* to the connection.
EndResponse(c) ==
  /\ Move(c, {"answered"}, "over")
  /\ busy' \in {busy, busy \ {c}}
  /\ UNCHANGED conn

\* The caller drops its future before there is a response, perhaps before it
\* learns that there will be none.
GiveUp(c) ==
  /\ Move(c, {"waiting", "sent", "failed"}, "cancelled")
  /\ UNCHANGED << busy, conn >>

\* The connection goes on without an exchange whose caller is gone: it drains what
\* is left of a response.  A request that has none it can only skip if others
\* do not stand behind it.
Discardable(c) == phase[c] = "over" \/ (phase[c] = "cancelled" /\ ~exclusive)
Discard(c) ==
  /\ c \in busy /\ Discardable(c)
  /\ busy' = busy \ {c}
  /\ UNCHANGED << faulty, exclusive, phase, conn >>

\* One exchange of many breaks off, by the error of the request's body or because
\* the server resets its stream: the request fails if it has no response yet, and
\* else the response ends early.  Nobody else notices.
FailAlone(c) ==
  /\ ~exclusive /\ conn = "open"
  /\ c \in busy /\ phase[c] \in {"sent", "answered"}
  /\ busy' = busy \ {c}
  /\ phase' = [phase EXCEPT ![c] = IF phase[c] = "sent" THEN "failed" ELSE phase[c]]
  /\ UNCHANGED << faulty, exclusive, conn >>

\* The connection closes: by the server at any time, and by the client only over
\* an exchange on which others would have to wait, and whose caller is gone or
\* whose request cannot be finished.
Unfinishable(c) == phase[c] \in {"over", "cancelled"} \/ c \in faulty
Close(how) ==
  /\ conn = "open"
  /\ conn' = how
  /\ how = "closed" => exclusive /\ \E c \in busy : Unfinishable(c)
  /\ phase' = [c \in Callers |-> IF phase[c] = "sent" THEN "failed" ELSE phase[c]]
  /\ busy' = {}
  /\ UNCHANGED << faulty, exclusive >>

SessionNext ==
  \/ \E c \in Callers :
       \/ Establish(c) \/ Ask(c) \/ Send(c) \/ Respond(c) \/ Refuse(c) \/ EndResponse(c)
       \/ GiveUp(c) \/ Discard(c) \/ FailAlone(c)
  \/ \E how \in {"closed", "refused"} : Close(how)

SessionSpec == SessionInit /\ [][SessionNext]_sessionVars
=============================================================================
