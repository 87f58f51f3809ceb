---------------------------- MODULE SharedSession ----------------------------
(***************************************************************************)
(* What the session pool of src/base_service.rs promises to the requests   *)
(* that use it, with no locks, threads or connections: every key (a URI's  *)
(* authority) has at most one session for the life of the client, the      *)
(* session is made by one of the requests for that key, and a request that *)
(* is served is served over the session of its own key.                    *)
(***************************************************************************)

CONSTANTS
  Requests,   \* requests; a session is named by the request that made it
  Keys,       \* authorities
  KeyOfUri,   \* [Uris -> Keys \cup {NoKey}]
  None        \* "no session"

VARIABLES
  uri,        \* [Requests -> Uris], what each request asks for
  sessionOf,  \* [Keys -> Requests \cup {None}], the session of each key
  status,     \* [Requests -> {"waiting", "bound", "served", "failed"}]
  bound       \* [Requests -> Requests \cup {None}], the session a request got

abstractVars == << uri, sessionOf, status, bound >>

AbstractInit ==
  /\ sessionOf = [k \in Keys |-> None]
  /\ status = [r \in Requests |-> "waiting"]
  /\ bound = [r \in Requests |-> None]

\* r makes the one session of its key and goes on over it.
Establish(r) ==
  /\ status[r] = "waiting"
  /\ KeyOfUri[uri[r]] \in Keys
  /\ sessionOf[KeyOfUri[uri[r]]] = None
  /\ sessionOf' = [sessionOf EXCEPT ![KeyOfUri[uri[r]]] = r]
  /\ bound' = [bound EXCEPT ![r] = r]
  /\ status' = [status EXCEPT ![r] = "bound"]
  /\ UNCHANGED uri

\* r finds the session of its key.
Share(r) ==
  /\ status[r] = "waiting"
  /\ KeyOfUri[uri[r]] \in Keys
  /\ sessionOf[KeyOfUri[uri[r]]] # None
  /\ bound' = [bound EXCEPT ![r] = sessionOf[KeyOfUri[uri[r]]]]
  /\ status' = [status EXCEPT ![r] = "bound"]
  /\ UNCHANGED << uri, sessionOf >>

\* Only a request that holds a session is served.
Serve(r) ==
  /\ status[r] = "bound"
  /\ status' = [status EXCEPT ![r] = "served"]
  /\ UNCHANGED << uri, sessionOf, bound >>

\* Requests may fail, or be dropped by their callers, before or after they have a
\* session, and together when the connection of a session ends; the session of the
\* key stays as it is.
Fail(failing) ==
  /\ \A r \in failing : status[r] \in {"waiting", "bound"}
  /\ status' = [r \in Requests |-> IF r \in failing THEN "failed" ELSE status[r]]
  /\ UNCHANGED << uri, sessionOf, bound >>

AbstractNext ==
  \/ \E r \in Requests : Establish(r) \/ Share(r) \/ Serve(r)
  \/ \E failing \in SUBSET Requests : Fail(failing)

AbstractSpec == AbstractInit /\ [][AbstractNext]_abstractVars
=============================================================================
