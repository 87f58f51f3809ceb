------------------------------- MODULE MCClient -------------------------------
(***************************************************************************)
(* Instances of Client for TLC: the clients of examples/navar_fetch.rs,    *)
(* one whose transport cannot carry its application, and the mocks; and    *)
(* workloads of three requests over one or two authorities, that may be    *)
(* shared by http and https, with and without a port.                      *)
(***************************************************************************)
EXTENDS Client

Url(scheme, host, port) == [scheme |-> scheme, host |-> host, port |-> port]
Ask(uri, headers, kind, helper) ==
  [uri |-> uri, headers |-> headers, kind |-> kind, helper |-> helper]

Get     == Ask(Url("http", "a", 80), << >>, "build", "bytes")
Post    == Ask(Url("http", "a", 80), << "other", "application/xml" >>, "json", "json")
Secure  == Ask(Url("https", "a", 8443), << >>, "text", "bytes_stream")
Nowhere == Ask(Url("http", None, None), << >>, "build", "bytes")
NoUri   == Ask(Malformed, << >>, "text", "text")
Stranger == Ask(Url("http", "b", 80), << >>, "bytes", "text")
Feed    == Ask(Url("http", "a", 80), << >>, "ndjson", "text")
Plain   == Ask(Url("http", "a", 8443), << >>, "json", "bytes")
Bare    == Ask(Url("http", "a", None), << >>, "build", "bytes")
Sealed  == Ask(Url("https", "a", None), << >>, "body", "bytes")
NoValue == Ask(Url("http", "a", 80), << Malformed >>, "ndjson", "text")

MCAsks ==
  {Get, Post, Secure, Nowhere, NoUri, NoValue, Stranger, Feed, Plain, Bare, Sealed}
MCWorkloads ==
  {<< Get, Feed, Post >>, << NoUri, Secure, Plain >>, << Nowhere, NoValue, Stranger >>,
   << Plain, Sealed, Bare >>}

MCSetups ==
  {SetupOf(s) : s \in {"https", "iroh+http", "iroh+h3"}}
    \cup {[transport |-> "tokio", app |-> "h3", protocol |-> "auto", alpns |-> << "h3" >>],
          [transport |-> "mock", app |-> "mock", protocol |-> "auto", alpns |-> << >>]}

MCRequests == 1..3
MCHoarders == {1}
=============================================================================
