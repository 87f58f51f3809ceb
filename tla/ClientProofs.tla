----------------------------- MODULE ClientProofs -----------------------------
(***************************************************************************)
(* What a client guarantees for any requests, workloads, transports and    *)
(* applications.                                                           *)
(***************************************************************************)
EXTENDS Client, SequenceTheorems, TLAPS

\* The fold of RequestBuilder: of the headers by header().
Headers == INSTANCE SequenceFolds WITH Op <- B!Header

Dest(r) == Peer(req[r].uri)

\* A request that has called send_request.
Held == {"waiting", "sent", "answered", "done", "broken", "dropped", "abandoned"}
Places == {"new", "waiting", "sent", "answered"} \cup Establishing \cup Ended

Types ==
  /\ setup \in Setups /\ ask \in Workloads
  /\ pc \in [Requests -> Places]
  /\ bound \in [Requests -> Requests \cup {None}]
  /\ pool \in [Keys -> Requests \cup {None}]
  /\ link \in [Keys -> {Dest(r) : r \in Requests} \cup {None}]
  /\ exclusive \in [Keys -> BOOLEAN]
  /\ conn \in [Keys -> {"none", "open", "closed", "refused"}]
  /\ busy \in [Keys -> SUBSET Requests]
  /\ total \in [Requests -> BodySizes \cup {0}]
  /\ got \in [Requests -> Nat]

\* A session and its connection: made for a request of its key, led to the peer of
\* that request, busy only while open, and with one exchange over HTTP/1.1.
KeyInv(k) ==
  /\ pool[k] = None <=> conn[k] = "none"
  /\ pool[k] # None =>
       Key(pool[k]) = k /\ link[k] = Dest(pool[k]) /\ Dest(pool[k]) # None
  /\ busy[k] # {} => conn[k] = "open"
  /\ \A r \in busy[k] : bound[r] # None /\ Key(r) = k
  /\ exclusive[k] => \A r, s \in busy[k] : r = s

\* A request: bound to the session of its key, alone while it makes that, known to
\* the connection while it is in flight, also when it was given up over HTTP/1.1.
ReqInv(r) ==
  /\ bound[r] # None => Key(r) \in Keys /\ bound[r] = pool[Key(r)]
  /\ pc[r] \in Held => bound[r] # None
  /\ pc[r] \in {"new"} \cup Establishing => bound[r] = None
  /\ pc[r] \in Establishing => Key(r) \in Keys /\ pool[Key(r)] = None
  /\ pc[r] = "shaking" => Dest(r) # None
  /\ pc[r] = "sent" => r \in busy[Key(r)]
  /\ pc[r] \in {"waiting", "cancelled", "done", "broken", "failed"} /\ Key(r) \in Keys
       => r \notin busy[Key(r)]
  /\ (pc[r] = "abandoned" /\ exclusive[Key(r)] /\ conn[Key(r)] = "open")
       => r \in busy[Key(r)]
  /\ (pc[r] = "failed" /\ bound[r] # None)
       => \/ conn[Key(r)] \in {"closed", "refused"}
          \/ conn[Key(r)] = "open" /\ ~exclusive[Key(r)]
  /\ got[r] <= total[r]
  /\ pc[r] \in {"new", "waiting", "sent"} \cup Establishing => got[r] = 0
  /\ pc[r] = "done" => got[r] = total[r]

OneMaker ==
  \A r, s \in Requests :
    pc[r] \in Establishing /\ pc[s] \in Establishing /\ Key(r) = Key(s) => r = s

IInv ==
  /\ Types
  /\ \A k \in Keys : KeyInv(k)
  /\ \A r \in Requests : ReqInv(r)
  /\ OneMaker

LEMMA Numbers == BodySizes \cup {0} \subseteq Nat
  BY ClientAssumption

LEMMA IInvInit == Init => IInv
<1> SUFFICES ASSUME Init PROVE IInv
  OBVIOUS
<1>1. Types
  BY DEF Init, Types, Places
<1>2. \A k \in Keys : KeyInv(k)
  BY DEF Init, KeyInv
<1>3. \A r \in Requests : ReqInv(r)
  BY DEF Init, ReqInv, Held, Establishing
<1>4. OneMaker
  BY DEF Init, OneMaker, Establishing
<1> QED
  BY <1>1, <1>2, <1>3, <1>4 DEF IInv

\* What a request asks for does not change, and with it its key and its peer.
LEMMA Fixed ==
  ASSUME UNCHANGED fixed
  PROVE  /\ \A r \in Requests : Key(r)' = Key(r) /\ Dest(r)' = Dest(r)
         /\ Faulty' = Faulty
BY DEF fixed, Key, Dest, Peer, Faulty

LEMMA OverIsKey ==
  ASSUME IInv, NEW r \in Requests, bound[r] # None
  PROVE  Over(r) = Key(r) /\ Key(r) \in Keys
<1>1. bound[r] = pool[Key(r)] /\ Key(r) \in Keys
  BY DEF IInv, ReqInv
<1>2. Key(pool[Key(r)]) = Key(r)
  BY <1>1 DEF IInv, KeyInv
<1> QED
  BY <1>1, <1>2 DEF Over

-----------------------------------------------------------------------------
\* A request that only moves on, and the rest stays: what its new place asks for.
LEMMA OnlyMoves ==
  ASSUME IInv, NEW r \in Requests, NEW to \in Places,
         pc' = [pc EXCEPT ![r] = to],
         UNCHANGED << fixed, poolVars, sessionVars, bodyVars >>,
         ReqInv(r)',
         to \in Establishing => \A s \in Requests : pc[s] \in Establishing /\ Key(s) = Key(r) => s = r
  PROVE  IInv'
<1>1. UNCHANGED << bound, pool, link, exclusive, conn, busy, total, got, setup, ask, fixed >>
  BY DEF poolVars, sessionVars, bodyVars, fixed
<1>2. \A s \in Requests : Key(s)' = Key(s) /\ Dest(s)' = Dest(s)
  BY <1>1, Fixed
<1>3. Types'
  BY <1>1, <1>2 DEF IInv, Types
<1>4. \A k \in Keys : KeyInv(k)'
  <2> SUFFICES ASSUME NEW k \in Keys PROVE KeyInv(k)'
    OBVIOUS
  <2>1. KeyInv(k) /\ pool[k] \in Requests \cup {None} /\ busy[k] \subseteq Requests
    BY DEF IInv, Types
  <2> QED
    BY <1>1, <1>2, <2>1 DEF KeyInv
<1>5. \A s \in Requests : ReqInv(s)'
  <2> SUFFICES ASSUME NEW s \in Requests, s # r PROVE ReqInv(s)'
    OBVIOUS
  <2>1. ReqInv(s) /\ pc'[s] = pc[s]
    BY DEF IInv, Types
  <2> QED
    BY <1>1, <1>2, <2>1 DEF ReqInv
<1>6. OneMaker'
  <2>1. \A s \in Requests : pc'[s] = IF s = r THEN to ELSE pc[s]
    BY DEF IInv, Types
  <2> QED
    BY <1>2, <2>1 DEF IInv, OneMaker
<1> QED
  BY <1>3, <1>4, <1>5, <1>6 DEF IInv

\* The exchanges of one connection change, and a request of it moves on or reads.
LEMMA BusyMoves ==
  ASSUME IInv, NEW k \in Keys, NEW r \in Requests, bound[r] # None, Key(r) = k,
         NEW to \in Places \ ({"new"} \cup Establishing), pc' = [pc EXCEPT ![r] = to],
         NEW xs \in SUBSET Requests, busy' = [busy EXCEPT ![k] = xs],
         \A s \in xs : s = r \/ s \in busy[k],
         \A s \in busy[k] : s = r \/ s \in xs,
         r \in xs => r \in busy[k] \/ (conn[k] = "open" /\ (exclusive[k] => busy[k] = {})),
         UNCHANGED << fixed, poolVars, conn >>,
         NEW n \in BodySizes \cup {0}, total' = [total EXCEPT ![r] = n], UNCHANGED got,
         ReqInv(r)'
  PROVE  IInv'
<1>1. UNCHANGED << bound, pool, link, exclusive, setup, ask, fixed >>
  BY DEF poolVars, fixed
<1>2. \A s \in Requests : Key(s)' = Key(s) /\ Dest(s)' = Dest(s)
  BY <1>1, Fixed
<1>3. Types'
  BY <1>1, <1>2 DEF IInv, Types
<1>4. \A j \in Keys : KeyInv(j)'
  <2> SUFFICES ASSUME NEW j \in Keys PROVE KeyInv(j)'
    OBVIOUS
  <2>1. KeyInv(j) /\ pool[j] \in Requests \cup {None} /\ busy[j] \subseteq Requests
    BY DEF IInv, Types
  <2>2. busy'[j] = IF j = k THEN xs ELSE busy[j]
    BY DEF IInv, Types
  <2>3. CASE j # k
    BY <1>1, <1>2, <2>1, <2>2, <2>3 DEF KeyInv
  <2>4. CASE j = k
    <3>1. \A s \in xs : bound[s] # None /\ Key(s) = k
      BY <2>1, <2>4 DEF KeyInv
    <3>2. xs # {} => conn[k] = "open"
      BY <2>1, <2>4 DEF KeyInv
    <3>3. exclusive[k] => \A s, t \in xs : s = t
      BY <2>1, <2>4 DEF KeyInv
    <3> QED
      BY <1>1, <1>2, <2>1, <2>2, <2>4, <3>1, <3>2, <3>3 DEF KeyInv
  <2> QED
    BY <2>3, <2>4
<1>5. \A s \in Requests : ReqInv(s)'
  <2> SUFFICES ASSUME NEW s \in Requests, s # r PROVE ReqInv(s)'
    OBVIOUS
  <2>1. ReqInv(s) /\ pc'[s] = pc[s] /\ total'[s] = total[s]
    BY DEF IInv, Types
  <2>2. Key(s) \in Keys => (s \in busy[Key(s)] <=> s \in busy'[Key(s)])
    BY DEF IInv, Types
  <2>3. pc[s] \in Held => Key(s) \in Keys
    BY <2>1 DEF ReqInv
  <2> QED
    BY <1>1, <1>2, <2>1, <2>2, <2>3 DEF ReqInv, Held
<1>6. OneMaker'
  <2>1. \A s \in Requests : pc'[s] = IF s = r THEN to ELSE pc[s]
    BY DEF IInv, Types
  <2> QED
    BY <1>2, <2>1 DEF IInv, OneMaker
<1> QED
  BY <1>3, <1>4, <1>5, <1>6 DEF IInv
-----------------------------------------------------------------------------
\* The steps that only move a request on.
LEMMA IInvMoves ==
  ASSUME IInv, NEW r \in Requests,
         \/ Rejected(r) \/ Miss(r) \/ Connected(r) \/ Unreached(r)
         \/ Refused(r) \/ Cancel(r) \/ DropBody(r)
  PROVE  IInv'
<1>1. ReqInv(r) /\ pc[r] \in Places /\ bound[r] \in Requests \cup {None}
  BY DEF IInv, Types
<1>2. UNCHANGED << fixed, poolVars, sessionVars, bodyVars >>
  BY DEF Rejected, Miss, Connected, Unreached, Refused, Cancel, DropBody
<1>3. /\ UNCHANGED << bound, pool, link, exclusive, conn, busy, total, got >>
      /\ Key(r)' = Key(r) /\ Dest(r)' = Dest(r)
  BY <1>2, Fixed DEF poolVars, sessionVars, bodyVars
<1>4. \A to \in Places : pc' = [pc EXCEPT ![r] = to] => pc'[r] = to
  BY DEF IInv, Types
<1>5. CASE Rejected(r)
  <2>1. pc[r] = "new" /\ pc' = [pc EXCEPT ![r] = "failed"] /\ Key(r) \notin Keys
    BY <1>5 DEF Rejected, Move, Keys
  <2>2. "failed" \in Places /\ "failed" \notin Establishing
    BY DEF Places, Ended, Establishing
  <2>3. ReqInv(r)'
    BY <1>1, <1>3, <1>4, <2>1, <2>2 DEF ReqInv, Held, Establishing
  <2> QED
    BY <1>2, <2>1, <2>2, <2>3, OnlyMoves
<1>6. CASE Miss(r)
  <2>1. /\ pc[r] = "new" /\ pc' = [pc EXCEPT ![r] = "connecting"]
        /\ Key(r) \in Keys /\ pool[Key(r)] = None /\ ~Taken(Key(r))
    BY <1>6 DEF Miss, Move, Lookup
  <2>2. "connecting" \in Places
    BY DEF Places, Establishing
  <2>3. ReqInv(r)'
    BY <1>1, <1>3, <1>4, <2>1, <2>2 DEF ReqInv, Held, Establishing
  <2>4. \A s \in Requests : pc[s] \in Establishing /\ Key(s) = Key(r) => s = r
    BY <2>1 DEF Taken, Of
  <2> QED
    BY <1>2, <2>1, <2>2, <2>3, <2>4, OnlyMoves
<1>7. CASE Connected(r)
  <2>1. /\ pc[r] = "connecting" /\ pc' = [pc EXCEPT ![r] = "shaking"]
        /\ Dest(r) # None
    BY <1>7 DEF Connected, Move, Dest
  <2>2. "shaking" \in Places /\ pc[r] \in Establishing
    BY <2>1 DEF Places, Establishing
  <2>3. ReqInv(r)'
    BY <1>1, <1>3, <1>4, <2>1, <2>2 DEF ReqInv, Held, Establishing
  <2>4. \A s \in Requests : pc[s] \in Establishing /\ Key(s) = Key(r) => s = r
    BY <2>2 DEF IInv, OneMaker
  <2> QED
    BY <1>2, <2>1, <2>2, <2>3, <2>4, OnlyMoves
<1>8. CASE Unreached(r)
  <2>1. pc[r] \in Establishing /\ pc' = [pc EXCEPT ![r] = "failed"]
    BY <1>8 DEF Unreached, Move
  <2>2. "failed" \in Places /\ "failed" \notin Establishing
    BY DEF Places, Ended, Establishing
  <2>3. Key(r) \in Keys => r \notin busy[Key(r)]
    BY <1>1, <2>1 DEF ReqInv, IInv, KeyInv
  <2>4. ReqInv(r)'
    BY <1>1, <1>3, <1>4, <2>1, <2>2, <2>3 DEF ReqInv, Held, Establishing
  <2> QED
    BY <1>2, <2>1, <2>2, <2>4, OnlyMoves
<1>9. CASE Refused(r)
  <2>1. /\ pc[r] = "waiting" /\ pc' = [pc EXCEPT ![r] = "failed"]
        /\ conn[Over(r)] # "open"
    BY <1>9 DEF Refused, Move
  <2>2. "failed" \in Places /\ "failed" \notin Establishing
    BY DEF Places, Ended, Establishing
  <2>3. bound[r] # None /\ Key(r) \in Keys /\ bound[r] = pool[Key(r)]
    BY <1>1, <2>1 DEF ReqInv, Held
  <2>4. conn[Key(r)] # "open"
    BY <2>1, <2>3, OverIsKey
  <2>5. conn[Key(r)] \in {"closed", "refused"}
    BY <2>3, <2>4 DEF IInv, Types, KeyInv
  <2>6. ReqInv(r)'
    BY <1>1, <1>3, <1>4, <2>1, <2>2, <2>5 DEF ReqInv, Held, Establishing
  <2> QED
    BY <1>2, <2>1, <2>2, <2>6, OnlyMoves
<1>10. CASE Cancel(r)
  <2>1. CASE pc[r] \in Establishing \cup {"waiting"} /\ pc' = [pc EXCEPT ![r] = "cancelled"]
    <3>1. "cancelled" \in Places /\ "cancelled" \notin Establishing
      BY DEF Places, Ended, Establishing
    <3>2. Key(r) \in Keys => r \notin busy[Key(r)]
      BY <1>1, <2>1 DEF ReqInv, IInv, KeyInv
    <3>3. ReqInv(r)'
      BY <1>1, <1>3, <1>4, <2>1, <3>1, <3>2 DEF ReqInv, Held, Establishing
    <3> QED
      BY <1>2, <2>1, <3>1, <3>3, OnlyMoves
  <2>2. CASE pc[r] = "sent" /\ pc' = [pc EXCEPT ![r] = "abandoned"]
    <3>1. "abandoned" \in Places /\ "abandoned" \notin Establishing
      BY DEF Places, Ended, Establishing
    <3>2. ReqInv(r)'
      BY <1>1, <1>3, <1>4, <2>2, <3>1 DEF ReqInv, Held, Establishing
    <3> QED
      BY <1>2, <2>2, <3>1, <3>2, OnlyMoves
  <2> QED
    BY <1>10, <2>1, <2>2 DEF Cancel, Move
<1>11. CASE DropBody(r)
  <2>1. pc[r] = "answered" /\ pc' = [pc EXCEPT ![r] = "dropped"]
    BY <1>11 DEF DropBody, Move
  <2>2. "dropped" \in Places /\ "dropped" \notin Establishing
    BY DEF Places, Ended, Establishing
  <2>3. ReqInv(r)'
    BY <1>1, <1>3, <1>4, <2>1, <2>2 DEF ReqInv, Held, Establishing
  <2> QED
    BY <1>2, <2>1, <2>2, <2>3, OnlyMoves
<1> QED
  BY <1>5, <1>6, <1>7, <1>8, <1>9, <1>10, <1>11

\* A request that finds its session in the pool.
LEMMA IInvShare ==
  ASSUME IInv, NEW r \in Requests, Share(r)
  PROVE  IInv'
<1>1. /\ UNCHANGED << setup, ask, fixed, pool, link, exclusive, conn, busy, total, got >>
      /\ \A s \in Requests : Key(s)' = Key(s) /\ Dest(s)' = Dest(s)
  BY Fixed DEF Share, fixed, sessionVars, bodyVars
<1>2. /\ pc[r] = "new" /\ Key(r) \in Keys /\ pool[Key(r)] # None
      /\ \A s \in Requests : pc'[s] = IF s = r THEN "waiting" ELSE pc[s]
      /\ \A s \in Requests : bound'[s] = IF s = r THEN pool[Key(r)] ELSE bound[s]
  BY DEF Share, Move, Lookup, IInv, Types
<1>3. Types'
  <2>1. pool[Key(r)] \in Requests \cup {None}
    BY <1>2 DEF IInv, Types
  <2>2. "waiting" \in Places
    BY DEF Places
  <2>3. pc' \in [Requests -> Places] /\ bound' \in [Requests -> Requests \cup {None}]
    BY <2>1, <2>2 DEF Share, Move, Lookup, IInv, Types
  <2> QED
    BY <1>1, <2>3 DEF IInv, Types
<1>4. \A k \in Keys : KeyInv(k)'
  <2> SUFFICES ASSUME NEW k \in Keys PROVE KeyInv(k)'
    OBVIOUS
  <2>1. KeyInv(k) /\ pool[k] \in Requests \cup {None} /\ busy[k] \subseteq Requests
    BY DEF IInv, Types
  <2>2. \A s \in busy[k] : bound[s] # None => bound'[s] # None
    BY <1>2, <2>1
  <2> QED
    BY <1>1, <2>1, <2>2 DEF KeyInv
<1>5. \A s \in Requests : ReqInv(s)'
  <2> SUFFICES ASSUME NEW s \in Requests PROVE ReqInv(s)'
    OBVIOUS
  <2>1. ReqInv(s)
    BY DEF IInv
  <2>2. bound[s] = None /\ Key(s) \in Keys => s \notin busy[Key(s)]
    BY DEF IInv, KeyInv
  <2> QED
    BY <1>1, <1>2, <2>1, <2>2 DEF ReqInv, Held, Establishing
<1>6. OneMaker'
  BY <1>1, <1>2 DEF IInv, OneMaker, Establishing
<1> QED
  BY <1>3, <1>4, <1>5, <1>6 DEF IInv

\* A request that has made the session of its key, which nobody can be using yet.
LEMMA IInvShaken ==
  ASSUME IInv, NEW r \in Requests, Shaken(r)
  PROVE  IInv'
<1> DEFINE k == Key(r)
<1>1. /\ UNCHANGED << setup, ask, fixed, busy, total, got >>
      /\ \A s \in Requests : Key(s)' = Key(s) /\ Dest(s)' = Dest(s)
  BY Fixed DEF Shaken, fixed, bodyVars
<1>2. /\ pc[r] = "shaking" /\ k \in Keys /\ pool[k] = None /\ Dest(r) # None
      /\ bound[r] = None /\ conn[k] = "none" /\ busy[k] = {} /\ r # None
  <2>1. pc[r] = "shaking" /\ pc[r] \in Establishing
    BY DEF Shaken, Move, Establishing
  <2>2. ReqInv(r)
    BY DEF IInv
  <2>3. k \in Keys /\ pool[k] = None /\ Dest(r) # None /\ bound[r] = None
    BY <2>1, <2>2 DEF ReqInv
  <2>4. conn[k] = "none" /\ busy[k] = {}
    BY <2>3 DEF IInv, KeyInv
  <2> QED
    BY <2>1, <2>3, <2>4, ClientAssumption
<1>3. /\ pc' = [pc EXCEPT ![r] = "waiting"]
      /\ bound' = [bound EXCEPT ![r] = r]
      /\ pool' = [pool EXCEPT ![k] = r]
      /\ link' = [link EXCEPT ![k] = Dest(r)]
      /\ conn' = [conn EXCEPT ![k] = "open"]
  BY DEF Shaken, Move, Insert, Dest
<1>4. PICK http1 \in BOOLEAN : exclusive' = [exclusive EXCEPT ![k] = http1]
  BY DEF Shaken, SpeaksHttp1
<1>5. \A s \in Requests : s # r /\ Key(s) = k => bound[s] = None /\ pc[s] \notin Establishing
  <2> SUFFICES ASSUME NEW s \in Requests, s # r, Key(s) = k
               PROVE  bound[s] = None /\ pc[s] \notin Establishing
    OBVIOUS
  <2>1. bound[s] = None
    BY <1>2 DEF IInv, ReqInv
  <2>2. pc[r] \in Establishing
    BY <1>2 DEF Establishing
  <2> QED
    BY <2>1, <2>2 DEF IInv, OneMaker
<1> HIDE DEF k
<1>6. /\ \A s \in Requests : pc'[s] = IF s = r THEN "waiting" ELSE pc[s]
      /\ \A s \in Requests : bound'[s] = IF s = r THEN r ELSE bound[s]
  BY <1>3 DEF IInv, Types
<1>7. \A j \in Keys :
         /\ pool'[j] = (IF j = k THEN r ELSE pool[j])
         /\ link'[j] = (IF j = k THEN Dest(r) ELSE link[j])
         /\ conn'[j] = (IF j = k THEN "open" ELSE conn[j])
         /\ exclusive'[j] = (IF j = k THEN http1 ELSE exclusive[j])
  BY <1>3, <1>4 DEF IInv, Types
<1>8. Types'
  <2>1. "waiting" \in Places
    BY DEF Places
  <2>2. pc' \in [Requests -> Places] /\ bound' \in [Requests -> Requests \cup {None}]
    BY <1>3, <2>1 DEF IInv, Types
  <2>3. pool' \in [Keys -> Requests \cup {None}] /\ exclusive' \in [Keys -> BOOLEAN]
    BY <1>3, <1>4 DEF IInv, Types
  <2>4. link' \in [Keys -> {Dest(s) : s \in Requests} \cup {None}]
    BY <1>3 DEF IInv, Types
  <2>5. conn' \in [Keys -> {"none", "open", "closed", "refused"}]
    BY <1>3 DEF IInv, Types
  <2>6. {Dest(s)' : s \in Requests} = {Dest(s) : s \in Requests}
    BY <1>1
  <2> QED
    BY <1>1, <2>2, <2>3, <2>4, <2>5, <2>6 DEF IInv, Types
<1>9. \A j \in Keys : KeyInv(j)'
  <2> SUFFICES ASSUME NEW j \in Keys PROVE KeyInv(j)'
    OBVIOUS
  <2>1. KeyInv(j) /\ pool[j] \in Requests \cup {None} /\ busy[j] \subseteq Requests
    BY DEF IInv, Types
  <2>2. \A s \in busy[j] : bound[s] # None => bound'[s] # None
    BY <1>2, <1>6, <2>1
  <2>3. CASE j # k
    BY <1>1, <1>7, <2>1, <2>2, <2>3 DEF KeyInv
  <2>4. CASE j = k
    BY <1>1, <1>2, <1>7, <2>1, <2>4 DEF KeyInv, k
  <2> QED
    BY <2>3, <2>4
<1>10. \A s \in Requests : ReqInv(s)'
  <2> SUFFICES ASSUME NEW s \in Requests PROVE ReqInv(s)'
    OBVIOUS
  <2>1. ReqInv(s)
    BY DEF IInv
  <2>2. CASE s = r
    BY <1>1, <1>2, <1>6, <1>7, <2>1, <2>2 DEF ReqInv, Held, Establishing, k
  <2>3. CASE s # r /\ Key(s) = k
    BY <1>1, <1>5, <1>6, <1>7, <2>1, <2>3 DEF ReqInv, Held
  <2>4. CASE s # r /\ Key(s) # k
    <3>1. Key(s) \in Keys =>
            /\ pool'[Key(s)] = pool[Key(s)] /\ conn'[Key(s)] = conn[Key(s)]
            /\ exclusive'[Key(s)] = exclusive[Key(s)]
      BY <1>7, <2>4
    <3>2. pc[s] \in Held \/ bound[s] # None => Key(s) \in Keys
      BY <2>1 DEF ReqInv
    <3> QED
      BY <1>1, <1>6, <2>1, <2>4, <3>1, <3>2 DEF ReqInv, Held
  <2> QED
    BY <2>2, <2>3, <2>4
<1>11. OneMaker'
  BY <1>1, <1>6 DEF IInv, OneMaker, Establishing
<1> QED
  BY <1>8, <1>9, <1>10, <1>11 DEF IInv

LEMMA IInvReadFrame ==
  ASSUME IInv, NEW r \in Requests, ReadFrame(r)
  PROVE  IInv'
<1>1. /\ UNCHANGED << setup, ask, fixed, pc, bound, pool, link, exclusive, conn, busy, total >>
      /\ \A s \in Requests : Key(s)' = Key(s) /\ Dest(s)' = Dest(s)
  BY Fixed DEF ReadFrame, fixed, poolVars, sessionVars
<1>2. /\ pc[r] = "answered" /\ got[r] < total[r]
      /\ got' = [got EXCEPT ![r] = got[r] + 1]
  BY DEF ReadFrame, More
<1>3. \A s \in Requests : got[s] \in Nat /\ total[s] \in Nat
  BY Numbers DEF IInv, Types
<1>4. Types'
  <2>1. got' \in [Requests -> Nat]
    BY <1>2, <1>3 DEF IInv, Types
  <2> QED
    BY <1>1, <2>1 DEF IInv, Types
<1>5. \A k \in Keys : KeyInv(k)'
  <2> SUFFICES ASSUME NEW k \in Keys PROVE KeyInv(k)'
    OBVIOUS
  <2>1. KeyInv(k) /\ pool[k] \in Requests \cup {None} /\ busy[k] \subseteq Requests
    BY DEF IInv, Types
  <2> QED
    BY <1>1, <2>1 DEF KeyInv
<1>6. \A s \in Requests : ReqInv(s)'
  <2> SUFFICES ASSUME NEW s \in Requests PROVE ReqInv(s)'
    OBVIOUS
  <2>1. ReqInv(s)
    BY DEF IInv
  <2>2. got'[s] = IF s = r THEN got[r] + 1 ELSE got[s]
    BY <1>2 DEF IInv, Types
  <2>3. got'[s] <= total[s]
    BY <1>2, <1>3, <2>1, <2>2 DEF ReqInv
  <2>4. pc[s] \in {"new", "waiting", "sent", "done"} \cup Establishing => got'[s] = got[s]
    BY <1>2, <2>2 DEF Establishing
  <2> QED
    BY <1>1, <2>1, <2>3, <2>4 DEF ReqInv
<1>7. OneMaker'
  BY <1>1 DEF IInv, OneMaker
<1> QED
  BY <1>4, <1>5, <1>6, <1>7 DEF IInv

\* The steps of an exchange that a connection takes part in.
LEMMA IInvExchange ==
  ASSUME IInv, NEW r \in Requests,
         \/ Send(r) \/ (\E n \in BodySizes : Respond(r, n)) \/ ReadEnd(r) \/ ReadError(r)
         \/ FailsAlone(r) \/ \E k \in Keys : Discard(k, r)
  PROVE  IInv'
<1> DEFINE k == Key(r)
<1>1. ReqInv(r) /\ pc[r] \in Places
  BY DEF IInv, Types
<1>2. UNCHANGED << fixed, poolVars, conn, got >>
  BY DEF Send, Respond, ReadEnd, ReadError, FailsAlone, Discard, bodyVars
<1>3. /\ UNCHANGED << bound, pool, link, exclusive >>
      /\ Key(r)' = Key(r) /\ Dest(r)' = Dest(r)
  BY <1>2, Fixed DEF poolVars
<1>4. bound[r] # None
  <2>1. CASE \E j \in Keys : Discard(j, r)
    BY <2>1 DEF Discard, IInv, KeyInv
  <2>2. CASE ~\E j \in Keys : Discard(j, r)
    <3>1. pc[r] \in Held
      BY <2>2 DEF Send, Respond, ReadEnd, ReadError, FailsAlone, Move, Held
    <3> QED
      BY <1>1, <3>1 DEF ReqInv
  <2> QED
    BY <2>1, <2>2
<1>5. k \in Keys /\ Over(r) = k /\ busy[k] \subseteq Requests /\ KeyInv(k)
  BY <1>4, OverIsKey DEF IInv, Types
<1>6. /\ total = [total EXCEPT ![r] = total[r]] /\ pc = [pc EXCEPT ![r] = pc[r]]
      /\ busy = [busy EXCEPT ![k] = busy[k]]
      /\ total[r] \in BodySizes \cup {0} /\ total[r] \in Nat /\ got[r] \in Nat
  BY <1>5, Numbers DEF IInv, Types
<1> HIDE DEF k
<1>7. /\ \A to : pc' = [pc EXCEPT ![r] = to] => pc'[r] = to
      /\ \A xs : busy' = [busy EXCEPT ![k] = xs] => busy'[k] = xs
      /\ \A n : total' = [total EXCEPT ![r] = n] => total'[r] = n
  BY <1>5 DEF IInv, Types
<1>8. CASE Send(r)
  <2> DEFINE xs == busy[k] \cup {r}
  <2>1. /\ pc[r] = "waiting" /\ pc' = [pc EXCEPT ![r] = "sent"]
        /\ conn[k] = "open" /\ (exclusive[k] => busy[k] = {})
        /\ busy' = [busy EXCEPT ![k] = xs]
        /\ total' = [total EXCEPT ![r] = total[r]]
    BY <1>5, <1>6, <1>8 DEF Send, Move, Free, bodyVars
  <2>2. "sent" \in Places \ ({"new"} \cup Establishing) /\ xs \in SUBSET Requests
    BY <1>5 DEF Places, Establishing
  <2>3. ReqInv(r)'
    BY <1>1, <1>2, <1>3, <1>4, <1>6, <1>7, <2>1 DEF ReqInv, Held, Establishing, k
  <2> QED
    BY <1>2, <1>4, <1>5, <1>6, <2>1, <2>2, <2>3, BusyMoves DEF k
<1>9. ASSUME NEW n \in BodySizes, Respond(r, n)
      PROVE  IInv'
  <2>1. PICK xs \in {busy[k], busy[k] \ {r}} :
          /\ pc[r] = "sent" /\ pc' = [pc EXCEPT ![r] = "answered"]
          /\ busy' = [busy EXCEPT ![k] = xs] /\ total' = [total EXCEPT ![r] = n]
    BY <1>5, <1>6, <1>9 DEF Respond, Move, Done
  <2>2. /\ "answered" \in Places \ ({"new"} \cup Establishing) /\ xs \in SUBSET Requests
        /\ n \in Nat
    BY <1>5, <2>1, Numbers DEF Places, Establishing
  <2>3. got[r] <= n
    BY <1>1, <2>1, <2>2 DEF ReqInv
  <2>4. pc'[r] = "answered" /\ total'[r] = n /\ got'[r] = got[r]
    BY <1>2, <1>7, <2>1
  <2>5. ReqInv(r)'
    BY <1>1, <1>2, <1>3, <1>4, <2>3, <2>4 DEF ReqInv, Held, Establishing, k
  <2> QED
    BY <1>2, <1>4, <1>5, <2>1, <2>2, <2>5, BusyMoves DEF k
<1>10. CASE ReadEnd(r) \/ ReadError(r) \/ FailsAlone(r)
  <2> DEFINE xs == busy[k] \ {r}
  <2>1. PICK to \in {"done", "broken", "failed"} :
          /\ pc[r] \in {"answered", "sent"} /\ pc' = [pc EXCEPT ![r] = to]
          /\ busy' = [busy EXCEPT ![k] = xs] /\ total' = [total EXCEPT ![r] = total[r]]
          /\ to = "done" => ~(got[r] < total[r])
          /\ to = "failed" => conn[k] = "open" /\ ~exclusive[k]
    BY <1>5, <1>6, <1>10
    DEF ReadEnd, ReadError, FailsAlone, Outcomes, OnError, More, Move, Done, bodyVars
  <2>2. to \in Places \ ({"new"} \cup Establishing) /\ xs \in SUBSET Requests
    BY <1>5 DEF Places, Establishing, Ended
  <2>3. to = "done" => got[r] = total[r]
    BY <1>1, <1>6, <2>1 DEF ReqInv
  <2>4. ReqInv(r)'
    <3>1. pc'[r] = to /\ total'[r] = total[r] /\ r \notin busy'[k]
      BY <1>7, <2>1
    <3> QED
      BY <1>1, <1>2, <1>3, <1>4, <1>6, <2>1, <2>3, <3>1 DEF ReqInv, Held, Establishing, k
  <2> DEFINE n == total[r]
  <2>5. /\ \A s \in xs : s = r \/ s \in busy[k]
        /\ \A s \in busy[k] : s = r \/ s \in xs
        /\ r \notin xs
    OBVIOUS
  <2>6. n \in BodySizes \cup {0} /\ total' = [total EXCEPT ![r] = n]
    BY <1>6, <2>1
  <2>7. busy' = [busy EXCEPT ![k] = xs] /\ pc' = [pc EXCEPT ![r] = to]
    BY <2>1
  <2>8. Key(r) = k
    BY DEF k
  <2> HIDE DEF xs, n
  <2> QED
    BY <1>2, <1>4, <1>5, <2>2, <2>4, <2>5, <2>6, <2>7, <2>8, BusyMoves
<1>11. ASSUME NEW j \in Keys, Discard(j, r)
       PROVE  IInv'
  <2> DEFINE xs == busy[k] \ {r}
  <2>1. /\ r \in busy[j] /\ Left(r) /\ (pc[r] = "abandoned" => ~exclusive[j])
        /\ busy' = [busy EXCEPT ![j] = busy[j] \ {r}] /\ UNCHANGED << pc, total >>
    BY <1>11 DEF Discard, bodyVars
  <2>2. j = k
    BY <2>1 DEF IInv, KeyInv, k
  <2>3. /\ pc' = [pc EXCEPT ![r] = pc[r]] /\ total' = [total EXCEPT ![r] = total[r]]
        /\ busy' = [busy EXCEPT ![k] = xs]
    BY <1>6, <2>1, <2>2
  <2>4. /\ pc[r] \in Places \ ({"new"} \cup Establishing) /\ xs \in SUBSET Requests
        /\ pc[r] # "sent"
    BY <1>1, <1>5, <2>1 DEF Left, Ended, Establishing
  <2>5. ReqInv(r)'
    BY <1>1, <1>2, <1>3, <1>6, <2>1, <2>2, <2>4 DEF ReqInv, k
  <2> DEFINE n == total[r]
             place == pc[r]
  <2>6. /\ \A s \in xs : s = r \/ s \in busy[k]
        /\ \A s \in busy[k] : s = r \/ s \in xs
        /\ r \notin xs
    OBVIOUS
  <2>7. n \in BodySizes \cup {0} /\ total' = [total EXCEPT ![r] = n]
    BY <1>6, <2>3
  <2>8. busy' = [busy EXCEPT ![k] = xs] /\ pc' = [pc EXCEPT ![r] = place]
    BY <2>3
  <2>9. place \in Places \ ({"new"} \cup Establishing) /\ xs \in SUBSET Requests
    BY <2>4
  <2>10. Key(r) = k
    BY DEF k
  <2> HIDE DEF xs, n, place
  <2> QED
    BY <1>2, <1>4, <1>5, <2>5, <2>6, <2>7, <2>8, <2>9, <2>10, BusyMoves
<1> QED
  BY <1>8, <1>9, <1>10, <1>11

\* A connection that closes fails the requests that are on their way over it.
LEMMA IInvClose ==
  ASSUME IInv, NEW k \in Keys, NEW how \in {"closed", "refused"}, Close(k, how)
  PROVE  IInv'
<1>1. /\ UNCHANGED << setup, ask, fixed, bound, pool, link, exclusive, total, got >>
      /\ \A s \in Requests : Key(s)' = Key(s) /\ Dest(s)' = Dest(s)
  BY Fixed DEF Close, fixed, poolVars, bodyVars
<1>2. \A s \in Requests : pc[s] = "sent" => Over(s) = Key(s)
  <2>1. \A s \in Requests : pc[s] = "sent" => bound[s] # None
    BY DEF IInv, ReqInv, Held
  <2> QED
    BY <2>1, OverIsKey
<1>3. \A s \in Requests :
        pc'[s] = IF pc[s] = "sent" /\ Key(s) = k THEN "failed" ELSE pc[s]
  BY <1>2 DEF Close
<1>4. /\ conn[k] = "open"
      /\ \A j \in Keys : conn'[j] = IF j = k THEN how ELSE conn[j]
      /\ \A j \in Keys : busy'[j] = IF j = k THEN {} ELSE busy[j]
  BY DEF Close, IInv, Types
<1>5. Types'
  <2>1. pc' \in [Requests -> Places]
    <3>1. pc' = [s \in Requests |-> IF pc[s] = "sent" /\ Over(s) = k THEN "failed" ELSE pc[s]]
      BY DEF Close
    <3>2. "failed" \in Places
      BY DEF Places, Ended
    <3> QED
      BY <3>1, <3>2 DEF IInv, Types
  <2>2. /\ conn' \in [Keys -> {"none", "open", "closed", "refused"}]
        /\ busy' \in [Keys -> SUBSET Requests]
    BY DEF Close, IInv, Types
  <2>3. {Dest(s)' : s \in Requests} = {Dest(s) : s \in Requests}
    BY <1>1
  <2> QED
    BY <1>1, <2>1, <2>2, <2>3 DEF IInv, Types
<1>6. \A j \in Keys : KeyInv(j)'
  <2> SUFFICES ASSUME NEW j \in Keys PROVE KeyInv(j)'
    OBVIOUS
  <2>1. KeyInv(j) /\ pool[j] \in Requests \cup {None} /\ busy[j] \subseteq Requests
    BY DEF IInv, Types
  <2> QED
    BY <1>1, <1>4, <2>1 DEF KeyInv
<1>7. \A s \in Requests : ReqInv(s)'
  <2> SUFFICES ASSUME NEW s \in Requests PROVE ReqInv(s)'
    OBVIOUS
  <2>1. ReqInv(s)
    BY DEF IInv
  <2>2. pc[s] \in Held \/ bound[s] # None => Key(s) \in Keys
    BY <2>1 DEF ReqInv
  <2>3. CASE pc[s] = "sent" /\ Key(s) = k
    BY <1>1, <1>3, <1>4, <2>1, <2>3 DEF ReqInv, Held, Establishing
  <2>4. CASE ~(pc[s] = "sent" /\ Key(s) = k)
    BY <1>1, <1>3, <1>4, <2>1, <2>2, <2>4 DEF ReqInv, Held
  <2> QED
    BY <2>3, <2>4
<1>8. OneMaker'
  BY <1>1, <1>3 DEF IInv, OneMaker, Establishing
<1> QED
  BY <1>5, <1>6, <1>7, <1>8 DEF IInv

LEMMA IInvNext == IInv /\ [Next]_vars => IInv'
<1> SUFFICES ASSUME IInv, [Next]_vars PROVE IInv'
  OBVIOUS
<1>1. ASSUME NEW r \in Requests, Handle(r) \/ Read(r) \/ Cancel(r) \/ FailsAlone(r)
      PROVE  IInv'
  BY <1>1, IInvMoves, IInvShare, IInvShaken, IInvExchange, IInvReadFrame DEF Handle, Read
<1>2. ASSUME NEW k \in Keys, ConnStep(k) \/ BodyBreaks(k) \/ ServerCloses(k)
      PROVE  IInv'
  BY <1>2, IInvExchange, IInvClose DEF ConnStep, GiveUp, BodyBreaks, ServerCloses
<1>3. CASE UNCHANGED vars
  <2>1. /\ UNCHANGED << setup, ask, fixed, pc, bound, pool, link, exclusive, conn, busy, total, got >>
        /\ \A s \in Requests : Key(s)' = Key(s) /\ Dest(s)' = Dest(s)
    BY <1>3, Fixed DEF vars, fixed, poolVars, sessionVars, bodyVars
  <2>2. \A k \in Keys : KeyInv(k)'
    <3> SUFFICES ASSUME NEW k \in Keys PROVE KeyInv(k)'
      OBVIOUS
    <3>1. KeyInv(k) /\ pool[k] \in Requests \cup {None} /\ busy[k] \subseteq Requests
      BY DEF IInv, Types
    <3> QED
      BY <2>1, <3>1 DEF KeyInv
  <2>3. \A s \in Requests : ReqInv(s)'
    BY <2>1 DEF IInv, ReqInv
  <2>4. Types' /\ OneMaker'
    BY <2>1 DEF IInv, Types, OneMaker
  <2> QED
    BY <2>2, <2>3, <2>4 DEF IInv
<1> QED
  BY <1>1, <1>2, <1>3 DEF Next

LEMMA Invariance == Spec => []IInv
  BY IInvInit, IInvNext, PTL DEF Spec

-----------------------------------------------------------------------------
\* What closes a connection from this side: HTTP/1.1, and a request of its authority.
Blame(k) == conn[k] = "closed" => exclusive[k] /\ \E s \in Of(k) : Blamed(s)
Reasons == \A k \in Keys : Blame(k)

\* Nothing makes up for it later.
LEMMA BlameStays ==
  ASSUME IInv, Next
  PROVE  /\ \A s \in Requests : Key(s)' = Key(s)
         /\ \A s \in Requests : Blamed(s) => Blamed(s)'
<1>1. UNCHANGED fixed
  BY DEF Next, Handle, Read, Cancel, FailsAlone, ConnStep, Rejected, Share, Miss, Connected,
         Unreached, Shaken, Send, Refused, Respond, ReadFrame, ReadEnd, ReadError, DropBody,
         GiveUp, BodyBreaks, Discard, ServerCloses, Close
<1>2. \A s \in Requests : \A from, to :
        Move(s, from, to) /\ from \cap {"abandoned", "dropped"} = {} =>
          \A t \in Requests : pc[t] \in {"abandoned", "dropped"} => pc'[t] = pc[t]
  BY DEF Move, IInv, Types
<1>3. ASSUME NEW s \in Requests, pc[s] \in {"abandoned", "dropped"}
      PROVE  pc'[s] = pc[s]
  <2>1. ASSUME NEW r \in Requests, Handle(r) PROVE pc'[s] = pc[s]
    BY <1>2, <1>3, <2>1
    DEF Handle, Rejected, Share, Miss, Connected, Unreached, Shaken, Send, Refused, Respond,
        Establishing
  <2>2. ASSUME NEW r \in Requests, Read(r) \/ Cancel(r) \/ FailsAlone(r)
        PROVE  pc'[s] = pc[s]
    BY <1>2, <1>3, <2>2
    DEF Read, ReadFrame, ReadEnd, ReadError, DropBody, Cancel, FailsAlone, Establishing
  <2>3. ASSUME NEW k \in Keys, ConnStep(k) \/ BodyBreaks(k) \/ ServerCloses(k)
        PROVE  pc'[s] = pc[s]
    BY <1>3, <2>3 DEF ConnStep, GiveUp, BodyBreaks, ServerCloses, Discard, Close
  <2> QED
    BY <2>1, <2>2, <2>3 DEF Next
<1>4. ASSUME NEW s \in Requests, Tried(s)
      PROVE  Tried(s)'
  <2> DEFINE Untried == {"new", "waiting", "cancelled"} \cup Establishing
  <2>1. bound[s] # None /\ pc[s] \notin Untried
    BY <1>4 DEF Tried, IInv, ReqInv
  <2>2. /\ pc \in [Requests -> Places] /\ bound \in [Requests -> Requests \cup {None}]
        /\ Establishing = {"connecting", "shaking"}
    BY DEF IInv, Types, Establishing
  <2>3. ASSUME NEW r \in Requests, NEW from, NEW to, Move(r, from, to),
               from \subseteq Untried \/ to \notin {"waiting", "cancelled"}
        PROVE  pc'[s] \notin {"waiting", "cancelled"}
    BY <2>1, <2>2, <2>3 DEF Move
  <2>4. ASSUME NEW r \in Requests, Handle(r) PROVE Tried(s)'
    <3>1. CASE Share(r)
      BY <2>1, <2>2, <3>1 DEF Share, Move, Tried
    <3>2. CASE Shaken(r)
      BY <2>1, <2>2, <3>2 DEF Shaken, Insert, Move, Tried
    <3>3. CASE ~Share(r) /\ ~Shaken(r)
      BY <2>1, <2>2, <2>3, <2>4, <3>3
      DEF Handle, Rejected, Miss, Connected, Unreached, Send, Refused, Respond, poolVars, Tried
    <3> QED
      BY <3>1, <3>2, <3>3
  <2>5. ASSUME NEW r \in Requests, Read(r) PROVE Tried(s)'
    <3>1. UNCHANGED bound
      BY <2>5 DEF Read, ReadFrame, ReadEnd, ReadError, DropBody, poolVars
    <3>2. pc'[s] \notin {"waiting", "cancelled"}
      BY <2>1, <2>2, <2>3, <2>5
      DEF Read, ReadFrame, ReadEnd, ReadError, DropBody, Outcomes, OnError
    <3> QED
      BY <2>1, <3>1, <3>2 DEF Tried
  <2>6. ASSUME NEW r \in Requests, Cancel(r) \/ FailsAlone(r) PROVE Tried(s)'
    <3>1. Establishing \cup {"waiting"} \subseteq Untried
      OBVIOUS
    <3> HIDE DEF Untried
    <3> QED
      BY <2>1, <2>3, <2>6, <3>1 DEF Cancel, FailsAlone, poolVars, Tried
  <2>7. ASSUME NEW k \in Keys, ConnStep(k) \/ BodyBreaks(k) \/ ServerCloses(k)
        PROVE  Tried(s)'
    BY <2>1, <2>7 DEF ConnStep, GiveUp, BodyBreaks, ServerCloses, Discard, Close, poolVars, Tried
  <2> QED
    BY <2>4, <2>5, <2>6, <2>7 DEF Next
<1> QED
  BY <1>1, <1>3, <1>4, Fixed DEF Blamed

\* Which exchange the client closes a connection over.
LEMMA BlameOfClose ==
  ASSUME IInv, NEW k \in Keys, GiveUp(k) \/ BodyBreaks(k)
  PROVE  exclusive[k] /\ \E s \in Of(k) : s \in busy[k] /\ Blamed(s)
<1>1. PICK s \in busy[k] : Left(s) \/ s \in Faulty
  BY DEF GiveUp, BodyBreaks
<1>2. s \in Requests /\ Key(s) = k /\ bound[s] # None /\ ReqInv(s)
  BY DEF IInv, Types, KeyInv
<1>3. /\ Left(s) => pc[s] \in {"abandoned", "dropped"}
      /\ Tried(s)
  BY <1>1, <1>2 DEF Left, Ended, ReqInv, Tried
<1> QED
  BY <1>1, <1>2, <1>3 DEF GiveUp, BodyBreaks, Of, Blamed

LEMMA ReasonsNext == IInv /\ Reasons /\ [Next]_vars => Reasons'
<1> SUFFICES ASSUME IInv, Reasons, [Next]_vars, NEW k \in Keys PROVE Blame(k)'
  BY DEF Reasons
<1>1. CASE UNCHANGED vars
  <2>1. UNCHANGED << fixed, pc, bound, conn, exclusive >>
    BY <1>1 DEF vars, poolVars, sessionVars
  <2>2. \A s \in Requests : Key(s)' = Key(s) /\ Blamed(s)' = Blamed(s)
    BY <2>1, Fixed DEF Blamed, Tried
  <2> QED
    BY <2>1, <2>2 DEF Reasons, Blame, Of
<1>2. CASE Next
  <2>1. (\E s \in Of(k) : Blamed(s)) => (\E s \in Of(k) : Blamed(s))'
    BY <1>2, BlameStays DEF Of
  <2>2. CASE conn[k] = "closed" /\ conn'[k] = conn[k] /\ exclusive'[k] = exclusive[k]
    BY <2>1, <2>2 DEF Reasons, Blame
  <2>3. CASE (GiveUp(k) \/ BodyBreaks(k)) /\ UNCHANGED exclusive
    BY <2>1, <2>3, BlameOfClose DEF Blame
  <2>4. CASE conn'[k] # "closed"
    BY <2>4 DEF Blame
  <2>5. ASSUME NEW r \in Requests, Shaken(r)
        PROVE  \/ conn'[k] # "closed"
               \/ conn[k] = "closed" /\ conn'[k] = conn[k] /\ exclusive'[k] = exclusive[k]
    <3>1. conn' = [conn EXCEPT ![Key(r)] = "open"]
      BY <2>5 DEF Shaken, Insert
    <3>2. PICK http1 : exclusive' = [exclusive EXCEPT ![Key(r)] = http1]
      BY <2>5 DEF Shaken
    <3> QED
      BY <3>1, <3>2 DEF IInv, Types
  <2>6. ASSUME NEW j \in Keys, NEW how \in {"closed", "refused"}, Close(j, how)
        PROVE  /\ conn'[k] = (IF j = k THEN how ELSE conn[k])
               /\ UNCHANGED exclusive
    BY <2>6 DEF Close, IInv, Types, poolVars
  <2>7. ASSUME UNCHANGED << conn, exclusive >>
        PROVE  \/ conn'[k] # "closed"
               \/ conn[k] = "closed" /\ conn'[k] = conn[k] /\ exclusive'[k] = exclusive[k]
    BY <2>7
  <2>8. ASSUME NEW r \in Requests,
               Handle(r) \/ Read(r) \/ Cancel(r) \/ FailsAlone(r), ~Shaken(r)
        PROVE  UNCHANGED << conn, exclusive >>
    BY <2>8
    DEF Handle, Rejected, Share, Miss, Connected, Unreached, Send, Refused, Respond, Read,
        ReadFrame, ReadEnd, ReadError, DropBody, Cancel, FailsAlone, poolVars, sessionVars
  <2>9. ASSUME NEW j \in Keys, NEW r \in Requests, Discard(j, r)
        PROVE  UNCHANGED << conn, exclusive >>
    BY <2>9 DEF Discard, poolVars
  <2>10. ASSUME NEW j \in Keys, GiveUp(j) \/ BodyBreaks(j) PROVE Blame(k)'
    <3>1. Close(j, "closed")
      BY <2>10 DEF GiveUp, BodyBreaks
    <3> QED
      BY <2>2, <2>3, <2>4, <2>6, <2>10, <3>1
  <2>11. ASSUME NEW j \in Keys, ServerCloses(j) PROVE Blame(k)'
    <3>1. Close(j, "refused")
      BY <2>11 DEF ServerCloses
    <3> QED
      BY <2>2, <2>4, <2>6, <3>1
  <2> QED
    BY <1>2, <2>2, <2>4, <2>5, <2>7, <2>8, <2>9, <2>10, <2>11 DEF Next, ConnStep
<1> QED
  BY <1>1, <1>2

LEMMA ReasonsHold == Spec => []Reasons
<1>1. Init => Reasons
  BY DEF Init, Reasons, Blame
<1> QED
  BY <1>1, ReasonsNext, Invariance, PTL DEF Spec

-----------------------------------------------------------------------------
\* Every request, session and connection is in one of the states of the model.
THEOREM ClientTypeCorrect == Spec => []TypeOK
<1>1. IInv => TypeOK
  <2> SUFFICES ASSUME IInv PROVE TypeOK
    OBVIOUS
  <2>1. Types /\ \A r \in Requests : got[r] <= total[r]
    BY DEF IInv, ReqInv
  <2> QED
    BY <2>1 DEF Types, TypeOK, Places
<1> QED
  BY <1>1, Invariance, PTL

\* A response helper (src/response_helpers.rs) that ends without an error has read
\* the whole body, however many frames it has.
THEOREM HelpersReadItAll == Spec => []WholeOrError
<1>1. IInv => WholeOrError
  BY DEF IInv, ReqInv, WholeOrError
<1> QED
  BY <1>1, Invariance, PTL

\* A request that has a session fails by what happens at its own authority, whatever
\* becomes of the others in the pool (src/base_service.rs): the server closes the
\* connection, or HTTP/1.1 closes it over a request of that authority which was given
\* up, dropped or in error, or the request fails alone over HTTP/2 or HTTP/3.
THEOREM NoStrangersFault == Spec => []OwnMisfortune
<1>1. ASSUME IInv, Reasons, NEW r \in Requests, pc[r] = "failed", bound[r] # None
      PROVE  LET k == Key(r) IN
             \/ conn[k] = "refused"
             \/ conn[k] = "closed" /\ \E s \in Of(k) : Blamed(s)
             \/ conn[k] = "open" /\ ~exclusive[k]
  <2>1. Key(r) \in Keys /\ ReqInv(r)
    BY <1>1 DEF IInv, ReqInv
  <2> QED
    BY <1>1, <2>1 DEF ReqInv, Reasons, Blame
<1>2. IInv /\ Reasons => OwnMisfortune
  BY <1>1 DEF OwnMisfortune
<1> QED
  BY <1>2, Invariance, ReasonsHold, PTL

\* A request goes to the peer that its URI names, whoever of its authority dialled it,
\* except for a scheme that TokioTransport knows and the pool's key does not
\* (src/base_service.rs, "Extract the authority").
THEOREM RequestsReachTheirPeers == Spec => []OwnPeer
<1>1. ASSUME IInv, NEW r \in Requests, bound[r] # None
      PROVE  LET own == req[r].uri
                 maker == req[bound[r]].uri
                 peer == link[Over(r)] IN
             IF setup.transport = "tokio" /\ own.scheme # maker.scheme
             THEN peer.host = own.host /\ (own.port # None => peer.port = own.port)
             ELSE peer = Peer(own)
  <2> DEFINE own == req[r].uri
             maker == req[bound[r]].uri
  <2>1. Over(r) = Key(r) /\ Key(r) \in Keys /\ bound[r] = pool[Key(r)]
    BY <1>1, OverIsKey DEF IInv, ReqInv
  <2>2. /\ link[Over(r)] = Peer(maker) /\ Peer(maker) # None
        /\ Key(bound[r]) = Key(r) /\ Key(r) # NoKey
    BY <1>1, <2>1 DEF IInv, KeyInv, Dest, Keys
  <2>3. maker.host = own.host /\ maker.port = own.port /\ own.host # None
    BY <2>2 DEF Key, E!Authority
  <2>4. CASE setup.transport = "tokio"
    <3>1. /\ Peer(maker) = [host |-> own.host, port |-> E!DialedPort(maker),
                            tls |-> E!UsesTls(maker)]
          /\ Peer(own) = [host |-> own.host, port |-> E!DialedPort(own),
                          tls |-> E!UsesTls(own)]
      BY <2>3, <2>4 DEF Peer, E!Peer
    <3>2. own.port # None => E!DialedPort(maker) = own.port
      BY <2>3 DEF E!DialedPort
    <3>3. own.scheme = maker.scheme => Peer(maker) = Peer(own)
      BY <2>3, <3>1 DEF E!DialedPort, E!UsesTls
    <3> QED
      BY <2>2, <2>4, <3>1, <3>2, <3>3
  <2>5. CASE setup.transport # "tokio"
    <3>1. Peer(maker) = Peer(own)
      <4>1. E!IrohPeer(maker, PublicKeys) = E!IrohPeer(own, PublicKeys)
        BY <2>3 DEF E!IrohPeer
      <4> HIDE DEF own, maker
      <4>2. CASE setup.transport = "iroh"
        BY <4>1, <4>2 DEF Peer
      <4>3. CASE setup.transport = "mock"
        BY <4>3 DEF Peer
      <4>4. setup.transport \in {"tokio", "iroh", "mock"}
        BY <1>1, ClientAssumption DEF IInv, Types
      <4> QED
        BY <2>5, <4>2, <4>3, <4>4
    <3> QED
      BY <2>2, <2>5, <3>1
  <2> QED
    BY <2>4, <2>5
<1>2. IInv => OwnPeer
  BY <1>1 DEF OwnPeer
<1> QED
  BY <1>2, Invariance, PTL

\* Over HTTP/1.1 nobody is answered after a caller has dropped a request that was
\* on its way: only one exchange is on the connection, and it is that one until
\* hyper closes, after which the pool still hands out the same session.
THEOREM AbandonmentEndsTheAuthority == Spec => AbandonmentIsFinal
<1> DEFINE NotAnswered(r) ==
      (Key(r) \in Keys /\ exclusive[Key(r)] /\ Abandoned(Key(r)) /\ pc[r] # "answered")
        => pc'[r] # "answered"
<1>1. ASSUME IInv, Next, NEW r \in Requests
      PROVE  NotAnswered(r)
  <2> SUFFICES ASSUME Key(r) \in Keys, exclusive[Key(r)], Abandoned(Key(r)),
                      pc[r] # "answered", pc'[r] = "answered"
               PROVE  FALSE
    OBVIOUS
  <2>1. \A s \in Requests : \A from, to :
         Move(s, from, to) => to = "answered" \/ pc'[r] # "answered"
    BY DEF Move, IInv, Types
  <2>2. PICK n \in BodySizes : Respond(r, n)
    <3>1. ASSUME NEW s \in Requests, Handle(s), ~\E n \in BodySizes : Respond(r, n)
          PROVE  FALSE
      <4>1. ASSUME NEW n \in BodySizes, Respond(s, n) PROVE FALSE
        <5>1. s # r
          BY <3>1, <4>1
        <5> QED
          BY <4>1, <5>1 DEF Respond, Move, IInv, Types
      <4> QED
        BY <2>1, <3>1, <4>1
        DEF Handle, Rejected, Share, Miss, Connected, Unreached, Shaken, Send, Refused
    <3>2. ASSUME NEW s \in Requests, Read(s) \/ Cancel(s) \/ FailsAlone(s) PROVE FALSE
      BY <2>1, <3>2
      DEF Read, ReadFrame, ReadEnd, ReadError, DropBody, Cancel, FailsAlone, Outcomes, OnError
    <3>3. ASSUME NEW k \in Keys, ConnStep(k) \/ BodyBreaks(k) \/ ServerCloses(k) PROVE FALSE
      BY <3>3 DEF ConnStep, GiveUp, BodyBreaks, ServerCloses, Discard, Close
    <3> QED
      BY <1>1, <3>1, <3>2, <3>3 DEF Next
  <2>3. pc[r] = "sent" /\ bound[r] # None /\ r \in busy[Key(r)]
    BY <1>1, <2>2 DEF Respond, Move, IInv, ReqInv, Held
  <2>4. conn[Key(r)] = "open"
    BY <1>1, <2>2, <2>3, OverIsKey DEF Respond
  <2>5. PICK s \in Requests : Key(s) = Key(r) /\ pc[s] = "abandoned"
    BY DEF Abandoned, Of
  <2>6. s \in busy[Key(r)]
    BY <1>1, <2>4, <2>5 DEF IInv, ReqInv
  <2>7. s = r
    BY <1>1, <2>3, <2>6 DEF IInv, KeyInv
  <2> QED
    BY <2>3, <2>5, <2>7
<1>2. IInv /\ [Next]_vars => [\A r \in Requests : NotAnswered(r)]_vars
  BY <1>1
<1>3. Spec => [][\A r \in Requests : NotAnswered(r)]_vars
  BY <1>2, Invariance, PTL DEF Spec
<1> QED
  BY <1>3 DEF AbandonmentIsFinal

-----------------------------------------------------------------------------
\* What the callers of one key do, seen from its session.
Phases(k) == [r \in Requests |-> IF r \in Of(k) THEN Phase(r) ELSE "new"]

LEMMA PromiseInit == Init => \A k \in Keys : Promise(k)!SessionInit
<1> SUFFICES ASSUME Init, NEW k \in Keys PROVE Promise(k)!SessionInit
  OBVIOUS
<1>1. Phases(k) = [r \in Requests |-> "new"]
  BY DEF Init, Phases, Phase
<1> QED
  BY <1>1 DEF Init, Phases, Faulty, Promise!SessionInit

\* What a session sees of a step that changes the place of one request.
LEMMA PhaseMoves ==
  ASSUME NEW k \in Keys, NEW r \in Requests, NEW to,
         \A s \in Requests : Key(s)' = Key(s),
         \A s \in Requests : s # r => Phase(s)' = Phase(s),
         Phase(r)' = to
  PROVE  Phases(k)' = IF Key(r) = k THEN [Phases(k) EXCEPT ![r] = to] ELSE Phases(k)
<1>1. \A s \in Requests : Phases(k)[s] = IF Key(s) = k THEN Phase(s) ELSE "new"
  BY DEF Phases, Of
<1>2. Phases(k)' = [s \in Requests |-> IF Key(s) = k THEN Phase(s)' ELSE "new"]
  <2>1. Phases(k)' = [s \in Requests |-> IF s \in Of(k)' THEN Phase(s)' ELSE "new"]
    BY DEF Phases
  <2>2. \A s \in Requests : s \in Of(k)' <=> Key(s) = k
    BY DEF Of
  <2> QED
    BY <2>1, <2>2
<1> QED
  BY <1>1, <1>2 DEF Phases

LEMMA PhasesStay ==
  ASSUME NEW k \in Keys,
         \A s \in Requests : Key(s)' = Key(s) /\ Phase(s)' = Phase(s)
  PROVE  Phases(k)' = Phases(k)
<1>1. \A s \in Requests : s \in Of(k)' <=> s \in Of(k)
  BY DEF Of
<1>2. Phases(k)' = [s \in Requests |-> IF s \in Of(k)' THEN Phase(s)' ELSE "new"]
  BY DEF Phases
<1> QED
  BY <1>1, <1>2 DEF Phases

\* What each step of a request is to the session of its key, and to the others.
LEMMA StepKeepsPromise ==
  ASSUME IInv, NEW k \in Keys, NEW r \in Requests,
         Handle(r) \/ Read(r) \/ Cancel(r) \/ FailsAlone(r)
  PROVE  [Promise(k)!SessionNext]_(Promise(k)!sessionVars)
<1>1. /\ ReqInv(r)
      /\ \A s \in Requests : Key(s)' = Key(s) /\ Dest(s)' = Dest(s)
      /\ Faulty' = Faulty
  <2>1. UNCHANGED fixed
    BY DEF Handle, Rejected, Share, Miss, Connected, Unreached, Shaken, Send, Refused,
           Respond, Read, ReadFrame, ReadEnd, ReadError, DropBody, Cancel, FailsAlone
  <2> QED
    BY <2>1, Fixed DEF IInv
<1>2. NoKey \notin Keys
  BY DEF Keys
<1>3. Phases(k)[r] = IF Key(r) = k THEN Phase(r) ELSE "new"
  BY DEF Phases, Of
<1>4. \A to : pc' = [pc EXCEPT ![r] = to] =>
        pc'[r] = to /\ \A s \in Requests : s # r => pc'[s] = pc[s]
  BY DEF IInv, Types
\* Without a session of its own, a request is nobody's.
<1>5. CASE Rejected(r) \/ Miss(r) \/ Connected(r) \/ Unreached(r)
             \/ (Cancel(r) /\ bound[r] = None)
  <2>1. PICK to : pc' = [pc EXCEPT ![r] = to]
    BY <1>5 DEF Rejected, Miss, Connected, Unreached, Cancel, Move
  <2>2. bound[r] = None /\ UNCHANGED << bound, exclusive, conn, busy >>
    BY <1>1, <1>5
    DEF Rejected, Miss, Connected, Unreached, Cancel, Move, Establishing, ReqInv,
        poolVars, sessionVars
  <2>3. Phase(r) = "new" /\ Phase(r)' = "new"
    BY <2>2 DEF Phase
  <2>4. \A s \in Requests : s # r => Phase(s)' = Phase(s)
    BY <1>4, <2>1, <2>2 DEF Phase
  <2>5. Phases(k)' = Phases(k)
    BY <1>1, <2>3, <2>4, PhasesStay
  <2> QED
    BY <1>1, <2>2, <2>5 DEF Phases, Promise!sessionVars
<1>6. CASE ReadFrame(r)
  <2>1. UNCHANGED << pc, bound, exclusive, conn, busy >>
    BY <1>6 DEF ReadFrame, poolVars, sessionVars
  <2>2. Phases(k)' = Phases(k)
    BY <1>1, <2>1, PhasesStay DEF Phase
  <2> QED
    BY <1>1, <2>1, <2>2 DEF Phases, Promise!sessionVars
\* With a session, what it does is a step of that session.
<1>7. CASE Share(r)
  <2>1. /\ pc[r] = "new" /\ pc' = [pc EXCEPT ![r] = "waiting"]
        /\ Key(r) \in Keys /\ pool[Key(r)] # None
        /\ bound' = [bound EXCEPT ![r] = pool[Key(r)]]
        /\ UNCHANGED << exclusive, conn, busy >>
    BY <1>7 DEF Share, Move, Lookup, sessionVars
  <2>2. bound'[r] # None /\ \A s \in Requests : s # r => bound'[s] = bound[s]
    BY <2>1 DEF IInv, Types
  <2>3. Phase(r) = "new" /\ Phase(r)' = "waiting"
    <3>1. bound[r] = None
      BY <1>1, <2>1 DEF ReqInv
    <3>2. pc'[r] = "waiting"
      BY <1>4, <2>1
    <3> QED
      BY <2>2, <3>1, <3>2 DEF Phase
  <2>4. \A s \in Requests : s # r => Phase(s)' = Phase(s)
    BY <1>4, <2>1, <2>2 DEF Phase
  <2>5. Phases(k)' = IF Key(r) = k THEN [Phases(k) EXCEPT ![r] = "waiting"] ELSE Phases(k)
    BY <1>1, <2>3, <2>4, PhaseMoves
  <2>6. CASE Key(r) = k
    <3>1. Promise(k)!Move(r, {"new"}, "waiting")
      BY <1>1, <1>3, <2>1, <2>3, <2>5, <2>6 DEF Phases, Promise!Move
    <3>2. Promise(k)!Ask(r)
      BY <2>1, <2>6, <3>1 DEF Promise!Ask, IInv, KeyInv
    <3> QED
      BY <3>2 DEF Promise!SessionNext
  <2> QED
    BY <1>1, <2>1, <2>5, <2>6 DEF Phases, Promise!sessionVars
<1>8. CASE Shaken(r)
  <2>1. /\ pc[r] = "shaking" /\ pc' = [pc EXCEPT ![r] = "waiting"]
        /\ bound' = [bound EXCEPT ![r] = r]
        /\ conn' = [conn EXCEPT ![Key(r)] = "open"]
        /\ UNCHANGED busy
    BY <1>8 DEF Shaken, Move, Insert
  <2>2. PICK http1 \in BOOLEAN : exclusive' = [exclusive EXCEPT ![Key(r)] = http1]
    BY <1>8 DEF Shaken, SpeaksHttp1
  <2>3. Key(r) \in Keys /\ bound[r] = None /\ pool[Key(r)] = None
    BY <1>1, <2>1 DEF ReqInv, Establishing
  <2>4. conn[Key(r)] = "none"
    BY <2>3 DEF IInv, KeyInv
  <2>5. bound'[r] # None /\ \A s \in Requests : s # r => bound'[s] = bound[s]
    BY <2>1, ClientAssumption DEF IInv, Types
  <2>6. Phase(r) = "new" /\ Phase(r)' = "waiting"
    BY <1>4, <2>1, <2>3, <2>5 DEF Phase
  <2>7. \A s \in Requests : s # r => Phase(s)' = Phase(s)
    BY <1>4, <2>1, <2>5 DEF Phase
  <2>8. Phases(k)' = IF Key(r) = k THEN [Phases(k) EXCEPT ![r] = "waiting"] ELSE Phases(k)
    BY <1>1, <2>6, <2>7, PhaseMoves
  <2>9. CASE Key(r) = k
    <3>1. conn'[k] = "open" /\ exclusive'[k] \in BOOLEAN
      BY <2>1, <2>2, <2>9 DEF IInv, Types
    <3>2. Promise(k)!Establish(r)
      BY <1>1, <1>3, <2>1, <2>4, <2>6, <2>8, <2>9, <3>1 DEF Phases, Promise!Establish
    <3> QED
      BY <3>2 DEF Promise!SessionNext
  <2>10. CASE Key(r) # k
    <3>1. conn'[k] = conn[k] /\ exclusive'[k] = exclusive[k]
      BY <2>1, <2>2, <2>10 DEF IInv, Types
    <3> QED
      BY <1>1, <2>1, <2>8, <2>10, <3>1 DEF Phases, Promise!sessionVars
  <2> QED
    BY <2>9, <2>10
\* From here on the request keeps the session it has.
<1>9. ASSUME bound[r] # None, UNCHANGED bound,
             NEW to, pc' = [pc EXCEPT ![r] = to], NEW ph, Phase(r)' = ph
      PROVE  Phases(k)' = IF Key(r) = k THEN [Phases(k) EXCEPT ![r] = ph] ELSE Phases(k)
  <2>1. \A s \in Requests : s # r => Phase(s)' = Phase(s)
    BY <1>4, <1>9 DEF Phase
  <2> QED
    BY <1>1, <1>9, <2>1, PhaseMoves
<1>10. bound[r] # None => Over(r) = Key(r) /\ Key(r) \in Keys
  BY OverIsKey
<1>11. ASSUME NEW xs, busy' = [busy EXCEPT ![Key(r)] = xs]
       PROVE  busy'[k] = IF Key(r) = k THEN xs ELSE busy[k]
  BY <1>11 DEF IInv, Types
<1>12. CASE Send(r)
  <2>1. /\ pc[r] = "waiting" /\ pc' = [pc EXCEPT ![r] = "sent"] /\ bound[r] # None
        /\ UNCHANGED << bound, exclusive, conn >>
    BY <1>1, <1>12 DEF Send, Move, ReqInv, Held, poolVars
  <2>2. /\ conn[Key(r)] = "open" /\ (exclusive[Key(r)] => busy[Key(r)] = {})
        /\ busy' = [busy EXCEPT ![Key(r)] = busy[Key(r)] \cup {r}]
    BY <1>10, <1>12, <2>1 DEF Send, Free
  <2>3. Phase(r) = "waiting" /\ Phase(r)' = "sent"
    BY <1>4, <2>1 DEF Phase
  <2>4. Phases(k)' = IF Key(r) = k THEN [Phases(k) EXCEPT ![r] = "sent"] ELSE Phases(k)
    BY <1>9, <2>1, <2>3
  <2>5. busy'[k] = IF Key(r) = k THEN busy[k] \cup {r} ELSE busy[k]
    BY <1>11, <2>2
  <2>6. CASE Key(r) = k
    <3>1. Promise(k)!Move(r, {"waiting"}, "sent")
      BY <1>1, <1>3, <2>1, <2>3, <2>4, <2>6 DEF Phases, Promise!Move
    <3>2. Promise(k)!Send(r)
      BY <2>1, <2>2, <2>5, <2>6, <3>1 DEF Promise!Send
    <3> QED
      BY <3>2 DEF Promise!SessionNext
  <2> QED
    BY <1>1, <2>1, <2>4, <2>5, <2>6 DEF Phases, Promise!sessionVars
<1>13. ASSUME NEW n \in BodySizes, Respond(r, n)
       PROVE  [Promise(k)!SessionNext]_(Promise(k)!sessionVars)
  <2>1. /\ pc[r] = "sent" /\ pc' = [pc EXCEPT ![r] = "answered"] /\ bound[r] # None
        /\ UNCHANGED << bound, exclusive, conn >>
    BY <1>1, <1>13 DEF Respond, Move, ReqInv, Held, poolVars
  <2>2. /\ conn[Key(r)] = "open"
        /\ \/ busy' = [busy EXCEPT ![Key(r)] = busy[Key(r)] \ {r}]
           \/ UNCHANGED busy
    BY <1>10, <1>13, <2>1 DEF Respond, Done
  <2>3. Phase(r) = "sent" /\ Phase(r)' = "answered"
    BY <1>4, <2>1 DEF Phase
  <2>4. Phases(k)' = IF Key(r) = k THEN [Phases(k) EXCEPT ![r] = "answered"] ELSE Phases(k)
    BY <1>9, <2>1, <2>3
  <2>5. \/ busy'[k] = busy[k]
        \/ Key(r) = k /\ busy'[k] = busy[k] \ {r}
    BY <1>11, <2>2
  <2>6. CASE Key(r) = k
    <3>1. Promise(k)!Move(r, {"sent"}, "answered")
      BY <1>1, <1>3, <2>1, <2>3, <2>4, <2>6 DEF Phases, Promise!Move
    <3>2. Promise(k)!Respond(r)
      BY <2>1, <2>2, <2>5, <2>6, <3>1 DEF Promise!Respond
    <3> QED
      BY <3>2 DEF Promise!SessionNext
  <2> QED
    BY <1>1, <2>1, <2>4, <2>5, <2>6 DEF Phases, Promise!sessionVars
<1>14. CASE Refused(r)
  <2>1. /\ pc[r] = "waiting" /\ pc' = [pc EXCEPT ![r] = "failed"] /\ bound[r] # None
        /\ UNCHANGED << bound, exclusive, conn, busy >>
    BY <1>1, <1>14 DEF Refused, Move, ReqInv, Held, poolVars, sessionVars
  <2>2. conn[Key(r)] \in {"closed", "refused"}
    <3>1. conn[Key(r)] # "open" /\ Key(r) \in Keys
      BY <1>10, <1>14, <2>1 DEF Refused
    <3>2. pool[Key(r)] # None
      BY <1>1, <2>1 DEF ReqInv
    <3> QED
      BY <3>1, <3>2 DEF IInv, Types, KeyInv
  <2>3. Phase(r) = "waiting" /\ Phase(r)' = "failed"
    BY <1>4, <2>1 DEF Phase
  <2>4. Phases(k)' = IF Key(r) = k THEN [Phases(k) EXCEPT ![r] = "failed"] ELSE Phases(k)
    BY <1>9, <2>1, <2>3
  <2>5. CASE Key(r) = k
    <3>1. Promise(k)!Move(r, {"waiting"}, "failed")
      BY <1>1, <1>3, <2>1, <2>3, <2>4, <2>5 DEF Phases, Promise!Move
    <3>2. Promise(k)!Refuse(r)
      BY <2>1, <2>2, <2>5, <3>1 DEF Promise!Refuse
    <3> QED
      BY <3>2 DEF Promise!SessionNext
  <2> QED
    BY <1>1, <2>1, <2>4, <2>5 DEF Phases, Promise!sessionVars
<1>15. CASE ReadEnd(r) \/ ReadError(r) \/ DropBody(r)
  <2>1. PICK to \in {"done", "broken", "dropped"} :
          pc[r] = "answered" /\ pc' = [pc EXCEPT ![r] = to]
    BY <1>15 DEF ReadEnd, ReadError, DropBody, Outcomes, OnError, Move
  <2>2. bound[r] # None /\ UNCHANGED << bound, exclusive, conn >>
    BY <1>1, <1>15, <2>1
    DEF ReadEnd, ReadError, DropBody, ReqInv, Held, poolVars, sessionVars
  <2>3. \/ busy' = [busy EXCEPT ![Key(r)] = busy[Key(r)] \ {r}]
        \/ UNCHANGED busy
    BY <1>10, <1>15, <2>2 DEF ReadEnd, ReadError, DropBody, Done, sessionVars
  <2>4. Phase(r) = "answered" /\ Phase(r)' = "over"
    BY <1>4, <2>1, <2>2 DEF Phase
  <2>5. Phases(k)' = IF Key(r) = k THEN [Phases(k) EXCEPT ![r] = "over"] ELSE Phases(k)
    BY <1>9, <2>1, <2>2, <2>4
  <2>6. \/ busy'[k] = busy[k]
        \/ Key(r) = k /\ busy'[k] = busy[k] \ {r}
    BY <1>11, <2>3
  <2>7. CASE Key(r) = k
    <3>1. Promise(k)!Move(r, {"answered"}, "over")
      BY <1>1, <1>3, <2>2, <2>4, <2>5, <2>7 DEF Phases, Promise!Move
    <3>2. Promise(k)!EndResponse(r)
      BY <2>2, <2>6, <3>1 DEF Promise!EndResponse
    <3> QED
      BY <3>2 DEF Promise!SessionNext
  <2> QED
    BY <1>1, <2>2, <2>5, <2>6, <2>7 DEF Phases, Promise!sessionVars
<1>16. CASE Cancel(r) /\ bound[r] # None
  <2>1. PICK to \in {"cancelled", "abandoned"} :
          pc[r] \in {"waiting", "sent"} /\ pc' = [pc EXCEPT ![r] = to]
    BY <1>1, <1>16 DEF Cancel, Move, ReqInv
  <2>2. UNCHANGED << bound, exclusive, conn, busy >>
    BY <1>16 DEF Cancel, poolVars, sessionVars
  <2>3. Phase(r) \in {"waiting", "sent"} /\ Phase(r)' = "cancelled"
    BY <1>4, <1>16, <2>1, <2>2 DEF Phase
  <2>4. Phases(k)' = IF Key(r) = k THEN [Phases(k) EXCEPT ![r] = "cancelled"] ELSE Phases(k)
    BY <1>9, <1>16, <2>1, <2>2, <2>3
  <2>5. CASE Key(r) = k
    <3>1. Promise(k)!Move(r, {"waiting", "sent", "failed"}, "cancelled")
      BY <1>1, <1>3, <2>2, <2>3, <2>4, <2>5 DEF Phases, Promise!Move
    <3>2. Promise(k)!GiveUp(r)
      BY <2>2, <3>1 DEF Promise!GiveUp
    <3> QED
      BY <3>2 DEF Promise!SessionNext
  <2> QED
    BY <1>1, <2>2, <2>4, <2>5 DEF Phases, Promise!sessionVars
<1>17. CASE FailsAlone(r)
  <2>1. /\ pc[r] = "sent" /\ pc' = [pc EXCEPT ![r] = "failed"] /\ bound[r] # None
        /\ UNCHANGED << bound, exclusive, conn >>
    BY <1>1, <1>17 DEF FailsAlone, Move, ReqInv, Held, poolVars
  <2>2. /\ conn[Key(r)] = "open" /\ ~exclusive[Key(r)] /\ r \in busy[Key(r)]
        /\ busy' = [busy EXCEPT ![Key(r)] = busy[Key(r)] \ {r}]
    BY <1>1, <1>10, <1>17, <2>1 DEF FailsAlone, Done, ReqInv
  <2>3. Phase(r) = "sent" /\ Phase(r)' = "failed"
    BY <1>4, <2>1 DEF Phase
  <2>4. Phases(k)' = IF Key(r) = k THEN [Phases(k) EXCEPT ![r] = "failed"] ELSE Phases(k)
    BY <1>9, <2>1, <2>3
  <2>5. busy'[k] = IF Key(r) = k THEN busy[k] \ {r} ELSE busy[k]
    BY <1>11, <2>2
  <2>6. CASE Key(r) = k
    <3>1. Phases(k)[r] = "sent" /\ Phases(k)' = [Phases(k) EXCEPT ![r] = "failed"]
      BY <1>3, <2>3, <2>4, <2>6
    <3>2. Promise(k)!FailAlone(r)
      BY <1>1, <2>1, <2>2, <2>5, <2>6, <3>1 DEF Phases, Promise!FailAlone
    <3> QED
      BY <3>2 DEF Promise!SessionNext
  <2> QED
    BY <1>1, <2>1, <2>4, <2>5, <2>6 DEF Phases, Promise!sessionVars
<1> QED
  BY <1>5, <1>6, <1>7, <1>8, <1>12, <1>13, <1>14, <1>15, <1>16, <1>17 DEF Handle, Read

\* The steps of the connection of one key.
LEMMA ConnKeepsPromise ==
  ASSUME IInv, NEW k \in Keys, NEW j \in Keys, ConnStep(j) \/ BodyBreaks(j) \/ ServerCloses(j)
  PROVE  [Promise(k)!SessionNext]_(Promise(k)!sessionVars)
\* Who has left an exchange that the connection still has.
<1>1. ASSUME NEW r \in busy[j], Left(r)
      PROVE  /\ r \in Requests /\ Key(r) = j /\ Phases(j)[r] = Phase(r)
             /\ \/ Phase(r) = "over"
                \/ Phase(r) = "cancelled" /\ pc[r] = "abandoned"
  <2>1. r \in Requests /\ bound[r] # None /\ Key(r) = j
    BY <1>1 DEF IInv, Types, KeyInv
  <2>2. conn[j] = "open" /\ ReqInv(r)
    BY <1>1, <2>1 DEF IInv, KeyInv
  <2>3. pc[r] \in {"done", "broken", "dropped", "abandoned"}
    BY <1>1, <2>1, <2>2 DEF Left, Ended, ReqInv
  <2> QED
    BY <2>1, <2>3 DEF Phase, Phases, Of
<1>2. ASSUME NEW r \in Requests, Discard(j, r)
      PROVE  [Promise(k)!SessionNext]_(Promise(k)!sessionVars)
  <2>1. /\ r \in busy[j] /\ Left(r) /\ (pc[r] = "abandoned" => ~exclusive[j])
        /\ busy' = [busy EXCEPT ![j] = busy[j] \ {r}]
        /\ UNCHANGED << pc, bound, exclusive, conn, fixed >>
    BY <1>2 DEF Discard, poolVars
  <2>2. Phases(k)' = Phases(k) /\ Faulty' = Faulty
    BY <2>1, Fixed, PhasesStay DEF Phase
  <2>3. busy'[k] = IF j = k THEN busy[k] \ {r} ELSE busy[k]
    BY <2>1 DEF IInv, Types
  <2>4. CASE j = k
    <3>1. Promise(k)!Discardable(r)
      BY <1>1, <2>1, <2>4 DEF Phases, Promise!Discardable
    <3>2. Promise(k)!Discard(r)
      BY <2>1, <2>2, <2>3, <2>4, <3>1 DEF Phases, Promise!Discard
    <3> QED
      BY <3>2 DEF Promise!SessionNext
  <2> QED
    BY <2>1, <2>2, <2>3, <2>4 DEF Phases, Promise!sessionVars
<1>3. ASSUME NEW how \in {"closed", "refused"}, Close(j, how),
             how = "closed" => exclusive[j] /\ \E r \in busy[j] : Left(r) \/ r \in Faulty
      PROVE  [Promise(k)!SessionNext]_(Promise(k)!sessionVars)
  <2>1. /\ conn[j] = "open" /\ conn' = [conn EXCEPT ![j] = how]
        /\ busy' = [busy EXCEPT ![j] = {}]
        /\ UNCHANGED << bound, exclusive, fixed >>
    BY <1>3 DEF Close, poolVars
  <2>2. \A s \in Requests :
          /\ pc'[s] = IF pc[s] = "sent" /\ Over(s) = j THEN "failed" ELSE pc[s]
          /\ pc[s] = "sent" => bound[s] # None /\ Over(s) = Key(s)
    <3>1. \A s \in Requests : pc[s] = "sent" => bound[s] # None
      BY DEF IInv, ReqInv, Held
    <3> QED
      BY <1>3, <3>1, OverIsKey DEF Close
  <2>3. \A s \in Requests :
          Phase(s)' = IF Phase(s) = "sent" /\ Key(s) = j THEN "failed" ELSE Phase(s)
    BY <2>1, <2>2 DEF Phase
  <2>4. (\A s \in Requests : Key(s)' = Key(s)) /\ Faulty' = Faulty
    BY <2>1, Fixed
  <2>5. /\ conn'[k] = IF j = k THEN how ELSE conn[k]
        /\ busy'[k] = IF j = k THEN {} ELSE busy[k]
    BY <2>1 DEF IInv, Types
  <2>6. Phases(k)' = [s \in Requests |-> IF Key(s) = k THEN Phase(s)' ELSE "new"]
    <3>1. Phases(k)' = [s \in Requests |-> IF s \in Of(k)' THEN Phase(s)' ELSE "new"]
      BY DEF Phases
    <3>2. \A s \in Requests : s \in Of(k)' <=> Key(s) = k
      BY <2>4 DEF Of
    <3> QED
      BY <3>1, <3>2
  <2>7. Phases(k) = [s \in Requests |-> IF Key(s) = k THEN Phase(s) ELSE "new"]
    BY DEF Phases, Of
  <2>8. CASE j = k
    <3>1. Phases(k)' = [s \in Requests |-> IF Phases(k)[s] = "sent" THEN "failed" ELSE Phases(k)[s]]
      BY <2>3, <2>6, <2>7, <2>8
    <3>2. how = "closed" => \E r \in busy[k] : Promise(k)!Unfinishable(r)
      BY <1>1, <1>3, <2>8 DEF Phases, Promise!Unfinishable
    <3>3. Promise(k)!Close(how)
      BY <1>3, <2>1, <2>4, <2>5, <2>8, <3>1, <3>2 DEF Phases, Promise!Close
    <3> QED
      BY <3>3 DEF Promise!SessionNext
  <2>9. CASE j # k
    <3>1. Phases(k)' = Phases(k)
      BY <2>3, <2>6, <2>7, <2>9
    <3> QED
      BY <2>1, <2>4, <2>5, <2>9, <3>1 DEF Phases, Promise!sessionVars
  <2> QED
    BY <2>8, <2>9
<1> QED
  BY <1>2, <1>3 DEF ConnStep, GiveUp, BodyBreaks, ServerCloses

\* Whatever builders, helpers, transports and applications its requests go through,
\* and whatever other authorities do, the session of an authority keeps the promise
\* of the trait Session (src/application.rs) to them.
THEOREM EverySessionKeepsItsPromise == Spec => ImplementsOneSession
<1> DEFINE Keeps == \A k \in Keys : [Promise(k)!SessionNext]_(Promise(k)!sessionVars)
<1>1. IInv /\ Next => Keeps
  BY StepKeepsPromise, ConnKeepsPromise DEF Next
<1>2. IInv /\ [Next]_vars => [Keeps]_vars
  BY <1>1
<1>3. Spec => [][Keeps]_vars
  <2> HIDE DEF Keeps
  <2> QED
    BY <1>2, Invariance, PTL DEF Spec
<1>4. Spec => \A k \in Keys : Promise(k)!SessionInit
  BY PromiseInit DEF Spec
<1> QED
  BY <1>3, <1>4 DEF ImplementsOneSession

-----------------------------------------------------------------------------
(***************************************************************************)
(* The pool of a client keeps the promise of SharedSession.                *)
(***************************************************************************)
Authorities == [r \in Requests |-> Key(r)]
Standings == [r \in Requests |-> Standing(r)]

LEMMA PooledInit == Init => Pooled!AbstractInit
  BY DEF Init, Pooled!AbstractInit, Standing

LEMMA AuthoritiesStay ==
  ASSUME UNCHANGED fixed
  PROVE  Authorities' = Authorities
BY Fixed DEF Authorities

\* A step that the pool does not see.
LEMMA StandingsStay ==
  ASSUME UNCHANGED fixed, UNCHANGED << bound, pool >>,
         \A s \in Requests : Standing(s)' = Standing(s)
  PROVE  UNCHANGED Pooled!abstractVars
BY AuthoritiesStay DEF Pooled!abstractVars, Authorities

\* Some requests come to nothing, and their sessions stay.
LEMMA RequestsFail ==
  ASSUME UNCHANGED fixed, UNCHANGED << bound, pool >>,
         NEW failing \in SUBSET Requests,
         \A s \in failing : Standing(s) \in {"waiting", "bound"},
         \A s \in Requests : Standing(s)' = IF s \in failing THEN "failed" ELSE Standing(s)
  PROVE  Pooled!AbstractNext
<1>1. Standings' = [s \in Requests |-> IF s \in failing THEN "failed" ELSE Standings[s]]
  BY DEF Standings
<1>2. \A s \in failing : Standings[s] \in {"waiting", "bound"}
  BY DEF Standings
<1>3. Pooled!Fail(failing)
  BY <1>1, <1>2, AuthoritiesStay DEF Pooled!Fail, Standings, Authorities
<1> QED
  BY <1>3, Zenon DEF Pooled!AbstractNext

\* A step of one request, from its place to another.
LEMMA RequestKeepsPool ==
  ASSUME IInv, NEW r \in Requests, Handle(r) \/ Read(r) \/ Cancel(r) \/ FailsAlone(r)
  PROVE  [Pooled!AbstractNext]_(Pooled!abstractVars)
<1>1. UNCHANGED fixed /\ Authorities' = Authorities
  <2>1. UNCHANGED fixed
    BY DEF Handle, Rejected, Share, Miss, Connected, Unreached, Shaken, Send, Refused,
           Respond, Read, ReadFrame, ReadEnd, ReadError, DropBody, Cancel, FailsAlone
  <2> QED
    BY <2>1, AuthoritiesStay
<1>2. Authorities[r] = Key(r) /\ Standings[r] = Standing(r)
  BY DEF Authorities, Standings
<1>3. ASSUME NEW to, pc' = [pc EXCEPT ![r] = to]
      PROVE  \A s \in Requests : s # r => Standing(s)' = Standing(s)
  BY <1>3 DEF IInv, Types, Standing
<1>4. ASSUME NEW from, NEW to, Move(r, from, to), UNCHANGED << bound, pool >>,
             to \in {"failed", "cancelled", "abandoned"},
             from \subseteq {"new", "waiting", "sent"} \cup Establishing
      PROVE  Pooled!AbstractNext
  <2>1. Standing(r) \in {"waiting", "bound"} /\ Standing(r)' = "failed"
    BY <1>4 DEF Move, IInv, Types, Standing, Establishing
  <2>2. \A s \in Requests : s # r => Standing(s)' = Standing(s)
    BY <1>3, <1>4 DEF Move
  <2>3. {r} \in SUBSET Requests
    OBVIOUS
  <2> QED
    BY <1>1, <1>4, <2>1, <2>2, <2>3, RequestsFail
<1>5. ASSUME NEW from, NEW to, Move(r, from, to), UNCHANGED << bound, pool >>,
             \/ from \cup {to} \subseteq {"new"} \cup Establishing
             \/ from \cup {to} \subseteq {"waiting", "sent"}
             \/ from \cup {to} \subseteq {"answered", "done", "broken", "dropped"}
      PROVE  UNCHANGED Pooled!abstractVars
  <2>1. Standing(r)' = Standing(r)
    <3>1. pc[r] \in from /\ pc'[r] = to
      BY <1>5 DEF Move, IInv, Types
    <3> QED
      BY <1>5, <3>1 DEF Standing, Establishing
  <2>2. \A s \in Requests : s # r => Standing(s)' = Standing(s)
    BY <1>3, <1>5 DEF Move
  <2> QED
    BY <1>1, <1>5, <2>1, <2>2, StandingsStay
<1>6. ASSUME Rejected(r) \/ Unreached(r) \/ Refused(r) \/ Cancel(r) \/ FailsAlone(r)
      PROVE  Pooled!AbstractNext
  <2>1. UNCHANGED << bound, pool >>
    BY <1>6 DEF Rejected, Unreached, Refused, Cancel, FailsAlone, poolVars
  <2>2. CASE Rejected(r)
    BY <2>1, <2>2, <1>4 DEF Rejected
  <2>3. CASE Unreached(r)
    BY <2>1, <2>3, <1>4 DEF Unreached
  <2>4. CASE Refused(r)
    BY <2>1, <2>4, <1>4 DEF Refused
  <2>5. CASE Cancel(r)
    BY <2>1, <2>5, <1>4 DEF Cancel
  <2>6. CASE FailsAlone(r)
    BY <2>1, <2>6, <1>4 DEF FailsAlone
  <2> QED
    BY <1>6, <2>2, <2>3, <2>4, <2>5, <2>6
<1>7. ASSUME \/ Miss(r) \/ Connected(r) \/ Send(r)
             \/ ReadEnd(r) \/ ReadError(r) \/ DropBody(r)
      PROVE  UNCHANGED Pooled!abstractVars
  <2>1. UNCHANGED << bound, pool >>
    BY <1>7 DEF Miss, Connected, Send, ReadEnd, ReadError, DropBody, poolVars
  <2>2. CASE Miss(r) \/ Connected(r)
    BY <2>1, <2>2, <1>5 DEF Miss, Connected, Establishing
  <2>3. CASE Send(r)
    BY <2>1, <2>3, <1>5 DEF Send
  <2>4. CASE ReadEnd(r)
    BY <2>1, <2>4, <1>5 DEF ReadEnd, Outcomes
  <2>5. CASE ReadError(r)
    BY <2>1, <2>5, <1>5 DEF ReadError, OnError
  <2>6. CASE DropBody(r)
    BY <2>1, <2>6, <1>5 DEF DropBody
  <2> QED
    BY <1>7, <2>2, <2>3, <2>4, <2>5, <2>6
<1>8. ASSUME ReadFrame(r)
      PROVE  UNCHANGED Pooled!abstractVars
  <2>1. UNCHANGED << pc, bound, pool >>
    BY <1>8 DEF ReadFrame, poolVars
  <2> QED
    BY <1>1, <2>1, StandingsStay DEF Standing
<1>9. ASSUME NEW n \in BodySizes, Respond(r, n)
      PROVE  Pooled!AbstractNext
  <2>1. Move(r, {"sent"}, "answered") /\ UNCHANGED << bound, pool >>
    BY <1>9 DEF Respond, poolVars
  <2>2. Standing(r) = "bound" /\ Standing(r)' = "served"
    BY <2>1 DEF Move, IInv, Types, Standing
  <2>3. Standings' = [Standings EXCEPT ![r] = "served"]
    BY <1>3, <2>1, <2>2 DEF Move, Standings
  <2>4. Pooled!Serve(r)
    BY <1>1, <1>2, <2>1, <2>2, <2>3 DEF Pooled!Serve, Standings, Authorities
  <2> QED
    BY <2>4, Zenon DEF Pooled!AbstractNext
\* A session is found, or made where there was none.
<1>10. ASSUME Move(r, {"new", "shaking"}, "waiting")
       PROVE  Standings[r] = "waiting" /\ Standings' = [Standings EXCEPT ![r] = "bound"]
  <2>1. Standing(r) = "waiting" /\ Standing(r)' = "bound"
    BY <1>10 DEF Move, IInv, Types, Standing
  <2> QED
    BY <1>2, <1>3, <1>10, <2>1 DEF Move, Standings
<1>11. ASSUME Share(r)
       PROVE  Pooled!AbstractNext
  <2>1. Standings[r] = "waiting" /\ Standings' = [Standings EXCEPT ![r] = "bound"]
    BY <1>10, <1>11 DEF Share, Move
  <2>2. /\ Authorities[r] \in Keys /\ pool[Authorities[r]] # None
        /\ bound' = [bound EXCEPT ![r] = pool[Authorities[r]]] /\ pool' = pool
    BY <1>2, <1>11 DEF Share, Lookup
  <2>3. Pooled!Share(r)
    BY <1>1, <2>1, <2>2 DEF Pooled!Share, Standings, Authorities
  <2> QED
    BY <2>3, Zenon DEF Pooled!AbstractNext
<1>12. ASSUME Shaken(r)
       PROVE  Pooled!AbstractNext
  <2>1. Standings[r] = "waiting" /\ Standings' = [Standings EXCEPT ![r] = "bound"]
    BY <1>10, <1>12 DEF Shaken, Move
  <2>2. Key(r) \in Keys /\ pool[Key(r)] = None
    <3>1. pc[r] \in Establishing
      BY <1>12 DEF Shaken, Move, Establishing
    <3> QED
      BY <3>1 DEF IInv, ReqInv
  <2>3. bound' = [bound EXCEPT ![r] = r] /\ pool' = [pool EXCEPT ![Authorities[r]] = r]
    BY <1>2, <1>12 DEF Shaken, Insert
  <2>4. Pooled!Establish(r)
    BY <1>1, <1>2, <2>1, <2>2, <2>3 DEF Pooled!Establish, Standings, Authorities
  <2> QED
    BY <2>4, Zenon DEF Pooled!AbstractNext
<1> QED
  BY <1>6, <1>7, <1>8, <1>9, <1>11, <1>12 DEF Handle, Read

\* A step of a connection: its end fails all the requests on their way over it.
LEMMA ConnKeepsPool ==
  ASSUME IInv, NEW k \in Keys, ConnStep(k) \/ BodyBreaks(k) \/ ServerCloses(k)
  PROVE  [Pooled!AbstractNext]_(Pooled!abstractVars)
<1>1. ASSUME NEW r \in Requests, Discard(k, r)
      PROVE  UNCHANGED Pooled!abstractVars
  <2>1. UNCHANGED << pc, bound, pool, fixed >>
    BY <1>1 DEF Discard, poolVars
  <2> QED
    BY <2>1, StandingsStay DEF Standing
<1>2. ASSUME NEW how, Close(k, how)
      PROVE  Pooled!AbstractNext
  <2> DEFINE lost == {s \in Requests : pc[s] = "sent" /\ Over(s) = k}
  <2>1. UNCHANGED fixed /\ UNCHANGED << bound, pool >>
    BY <1>2 DEF Close, poolVars
  <2>2. \A s \in Requests : pc'[s] = IF s \in lost THEN "failed" ELSE pc[s]
    BY <1>2 DEF Close
  <2>3. \A s \in lost : Standing(s) = "bound"
    BY DEF Standing
  <2>4. \A s \in Requests : Standing(s)' = IF s \in lost THEN "failed" ELSE Standing(s)
    BY <2>2 DEF Standing
  <2>5. lost \in SUBSET Requests
    OBVIOUS
  <2> HIDE DEF lost
  <2> QED
    BY <2>1, <2>3, <2>4, <2>5, RequestsFail
<1> QED
  BY <1>1, <1>2 DEF ConnStep, GiveUp, BodyBreaks, ServerCloses

\* What the requests of a client see of its pool is what SessionPool implements: one
\* session per authority, made once, whatever fails before it or closes after it
\* (BaseService, src/base_service.rs).
THEOREM ClientSharesSessions == Spec => ImplementsSharedSession
<1>1. IInv /\ [Next]_vars => [Pooled!AbstractNext]_(Pooled!abstractVars)
  <2> SUFFICES ASSUME IInv, [Next]_vars
               PROVE  [Pooled!AbstractNext]_(Pooled!abstractVars)
    OBVIOUS
  <2>1. CASE UNCHANGED vars
    <3>1. UNCHANGED << fixed, pc, bound, pool >>
      BY <2>1 DEF vars, poolVars
    <3> QED
      BY <3>1, StandingsStay DEF Standing
  <2> QED
    BY <2>1, RequestKeepsPool, ConnKeepsPool DEF Next
<1> QED
  BY <1>1, Invariance, PooledInit, PTL
  DEF Spec, ImplementsSharedSession, Pooled!AbstractSpec

-----------------------------------------------------------------------------
(***************************************************************************)
(* What the builder makes of a call's headers and its body.                *)
(***************************************************************************)

\* BuiltFrom, in the words of SequenceFolds.
LEMMA HeadersIs ==
  \A uri, values, kind :
    B!BuiltFrom(uri, values, kind) = B!Attach(Headers!Fold(B!NewRequest(uri), values), kind)
  BY Zenon DEF B!BuiltFrom, Headers!Fold, B!FoldLeft, Headers!FoldLeft,
               B!MapThenFoldSet, Headers!MapThenFoldSet, Headers!Max, B!Max

\* The builders of a request, with Content-Types of H.
Builders(uri, H) == [uri : {uri}, error : BOOLEAN, types : Seq(H)]

\* Without an error, the Content-Types in the builder are those among the headers.
Carries(b, values) == ~b.error => ToSet(b.types) = ContentTypes(values)

\* What a sequence with one more element has.
LEMMA SetOfAppend ==
  ASSUME NEW H, NEW s \in Seq(H), NEW e \in H
  PROVE  ToSet(Append(s, e)) = ToSet(s) \cup {e}
<1>1. /\ Append(s, e) \in Seq(H) /\ Len(Append(s, e)) = Len(s) + 1
      /\ Append(s, e)[Len(s) + 1] = e
      /\ \A i \in 1..Len(s) : Append(s, e)[i] = s[i]
  OBVIOUS
<1> DEFINE t == Append(s, e)
<1>2. Len(s) \in Nat /\ DOMAIN s = 1..Len(s) /\ DOMAIN t = 1..(Len(s) + 1)
  BY <1>1
<1> HIDE DEF t
<1>3. /\ t[Len(s) + 1] = e /\ \A i \in 1..Len(s) : t[i] = s[i]
  BY <1>1 DEF t
<1>4. \A i \in 1..(Len(s) + 1) : i \in 1..Len(s) \/ i = Len(s) + 1
  BY <1>2
<1>5. 1..Len(s) \subseteq 1..(Len(s) + 1) /\ Len(s) + 1 \in 1..(Len(s) + 1)
  BY <1>2
<1>6. {t[i] : i \in DOMAIN t} = {s[i] : i \in DOMAIN s} \cup {e}
  BY <1>2, <1>3, <1>4, <1>5, Zenon
<1> QED
  BY <1>6 DEF t, ToSet

\* header(), case by case.
LEMMA HeaderIs ==
  ASSUME NEW uri, NEW H, NEW b \in Builders(uri, H), NEW value
  PROVE  /\ b.error => B!Header(b, value) = b
         /\ ~b.error /\ value = Malformed => B!Header(b, value).error
         /\ value = "other" /\ ~B!Header(b, value).error => B!Header(b, value) = b
         /\ ~B!Header(b, value).error /\ value # "other" =>
              B!Header(b, value) = [b EXCEPT !.types = Append(@, value)]
         /\ value \in H => B!Header(b, value) \in Builders(uri, H)
<1>1. b.error => [b EXCEPT !.error = TRUE] = b
  BY DEF Builders
<1>2. /\ b.error => B!Header(b, value) = b
      /\ ~b.error /\ value = Malformed => B!Header(b, value) = [b EXCEPT !.error = TRUE]
      /\ ~b.error /\ value # Malformed /\ value = "other" => B!Header(b, value) = b
      /\ ~b.error /\ value # Malformed /\ value # "other" =>
           B!Header(b, value) = [b EXCEPT !.types = Append(@, value)]
  BY <1>1, ClientAssumption, Zenon DEF B!Header
<1>3. /\ [b EXCEPT !.error = TRUE] \in Builders(uri, H)
      /\ [b EXCEPT !.error = TRUE].error = TRUE
  BY DEF Builders
<1>4. value \in H => [b EXCEPT !.types = Append(@, value)] \in Builders(uri, H)
  BY DEF Builders
<1> QED
  BY <1>2, <1>3, <1>4, Zenon

\* One more header, in the builder as among the headers.
LEMMA HeaderCarries ==
  ASSUME NEW uri, NEW H, NEW b \in Builders(uri, H), NEW values \in Seq(H),
         NEW value \in H, Carries(b, values)
  PROVE  /\ B!Header(b, value) \in Builders(uri, H)
         /\ Carries(B!Header(b, value), Append(values, value))
<1> DEFINE c == B!Header(b, value)
<1>1. c \in Builders(uri, H)
  BY HeaderIs
<1>2. ToSet(Append(values, value)) = ToSet(values) \cup {value}
  BY SetOfAppend
<1>3. ASSUME ~c.error PROVE ToSet(c.types) = ContentTypes(Append(values, value))
  <2>1. ~b.error /\ ToSet(b.types) = ContentTypes(values) /\ b.types \in Seq(H)
    <3>1. ~b.error
      BY <1>3, HeaderIs, Zenon
    <3> QED
      BY <3>1 DEF Carries, Builders
  <2>2. CASE value = "other"
    <3>1. c = b
      BY <1>3, <2>2, HeaderIs
    <3> QED
      BY <1>2, <2>1, <2>2, <3>1 DEF ContentTypes
  <2>3. CASE value # "other"
    <3>1. c = [b EXCEPT !.types = Append(@, value)]
      BY <1>3, <2>3, HeaderIs
    <3>2. c.types = Append(b.types, value)
      BY <3>1 DEF Builders
    <3>3. ToSet(Append(b.types, value)) = ToSet(b.types) \cup {value}
      BY <2>1, SetOfAppend
    <3> QED
      BY <1>2, <2>1, <2>3, <3>2, <3>3 DEF ContentTypes
  <2> QED
    BY <2>2, <2>3
<1> QED
  BY <1>1, <1>3 DEF Carries

\* However many headers, by induction over them.
LEMMA HeadersCarry ==
  ASSUME NEW uri, NEW H, NEW values \in Seq(H)
  PROVE  /\ Headers!Fold(B!NewRequest(uri), values) \in Builders(uri, H)
         /\ Carries(Headers!Fold(B!NewRequest(uri), values), values)
<1> DEFINE new == B!NewRequest(uri)
           P == {s \in Seq(H) : /\ Headers!Fold(new, s) \in Builders(uri, H)
                                /\ Carries(Headers!Fold(new, s), s)}
<1>1. << >> \in P
  <2>1. new \in Builders(uri, H) /\ Carries(new, << >>)
    BY DEF B!NewRequest, Builders, Carries, ContentTypes, ToSet
  <2>2. << >> \in Seq(H)
    OBVIOUS
  <2> HIDE DEF new
  <2>3. Headers!Fold(new, << >>) = new
    BY Headers!FoldOfEmpty, Zenon
  <2> QED
    BY <2>1, <2>2, <2>3, Zenon
<1> HIDE DEF new
<1>2. ASSUME NEW s \in Seq(H), NEW value \in H, s \in P PROVE Append(s, value) \in P
  <2> DEFINE b == Headers!Fold(new, s)
  <2>1. b \in Builders(uri, H) /\ Carries(b, s)
    BY <1>2, Zenon
  <2>2. Headers!Fold(new, Append(s, value)) = B!Header(b, value)
    BY Headers!FoldOfAppend
  <2> HIDE DEF b
  <2>3. B!Header(b, value) \in Builders(uri, H) /\ Carries(B!Header(b, value), Append(s, value))
    BY <2>1, HeaderCarries
  <2>4. Append(s, value) \in Seq(H)
    OBVIOUS
  <2> QED
    BY <2>2, <2>3, <2>4, Zenon
<1> HIDE DEF P
<1>3. values \in P
  BY <1>1, <1>2, Headers!SequencesByInduction
<1> QED
  BY <1>3, Zenon DEF P, new

LEMMA EmptyIffNoElements ==
  ASSUME NEW H, NEW s \in Seq(H)
  PROVE  s = << >> <=> ToSet(s) = {}
<1>1. s = << >> <=> DOMAIN s = {}
  OBVIOUS
<1>2. ToSet(s) = {} <=> DOMAIN s = {}
  BY DEF ToSet
<1> QED
  BY <1>1, <1>2

\* The Content-Type that a body brings is one only if the headers have none.
LEMMA AttachKeeps ==
  ASSUME NEW uri, NEW H, NEW b \in Builders(uri, H), NEW values, Carries(b, values),
         NEW kind, ~B!Attach(b, kind).error
  PROVE  /\ ContentTypes(values) # {} =>
              ToSet(B!Attach(b, kind).types) = ContentTypes(values)
         /\ ContentTypes(values) = {} /\ kind \in DOMAIN B!TypeOfBody =>
              B!Attach(b, kind).types = << B!TypeOfBody[kind] >>
<1> DEFINE c == B!Attach(b, kind)
           value == B!TypeOfBody[kind]
<1>1. b.types \in Seq(H) /\ (b.types = << >> <=> ToSet(b.types) = {})
  <2>1. b.types \in Seq(H)
    BY DEF Builders
  <2> QED
    BY <2>1, EmptyIffNoElements
<1>2. CASE kind \notin DOMAIN B!TypeOfBody
  <2>1. c = b
    BY <1>2, Zenon DEF B!Attach
  <2> QED
    BY <1>2, <2>1, Zenon DEF Carries
<1>3. CASE kind \in DOMAIN B!TypeOfBody
  <2>1. value # "other"
    BY <1>3 DEF B!TypeOfBody
  <2>2. /\ b.error \/ b.types = << >> => c = B!Header(b, value)
        /\ ~(b.error \/ b.types = << >>) => c = b
    BY <1>3, Zenon DEF B!Attach, B!EnsureContentType
  <2>3. ~b.error
    BY <2>2, HeaderIs, Zenon
  <2>4. ToSet(b.types) = ContentTypes(values)
    BY <2>3 DEF Carries
  <2>5. CASE b.types # << >>
    BY <1>1, <2>2, <2>3, <2>4, <2>5, Zenon
  <2>6. CASE b.types = << >>
    <3>1. c = B!Header(b, value) /\ ContentTypes(values) = {}
      BY <1>1, <2>2, <2>4, <2>6
    <3> HIDE DEF value
    <3>2. B!Header(b, value) = [b EXCEPT !.types = Append(@, value)]
      BY <2>1, <3>1, HeaderIs
    <3>3. [b EXCEPT !.types = Append(@, value)].types = Append(<< >>, value)
      BY <2>6 DEF Builders
    <3>4. Append(<< >>, value) = << value >>
      OBVIOUS
    <3> QED
      BY <3>1, <3>2, <3>3, <3>4, Zenon DEF value
  <2> QED
    BY <2>5, <2>6
<1> QED
  BY <1>2, <1>3

\* What BoundRequestBuilder (src/bound_request.rs) gives to send() is what the caller
\* asked for: a request whose URI or header did not convert reaches no session, a
\* Content-Type of the caller's stands, and a typed body has its own if there was none.
THEOREM RequestsAreAsAsked == Spec => []SentAsAsked
<1> DEFINE SameRequests == ask \in Workloads /\ req = [r \in Requests |-> Built(ask[r])]
<1>1. Init => SameRequests
  BY DEF Init
<1>2. SameRequests /\ [Next]_vars => SameRequests'
  <2>1. [Next]_vars => UNCHANGED fixed
    BY DEF Next, Handle, Read, Cancel, FailsAlone, ConnStep, Rejected, Share, Miss, Connected,
           Unreached, Shaken, Send, Refused, Respond, ReadFrame, ReadEnd, ReadError, DropBody,
           GiveUp, BodyBreaks, Discard, ServerCloses, Close, vars
  <2> QED
    BY <2>1 DEF fixed, Built
<1>3. ASSUME IInv, SameRequests, NEW r \in Requests, bound[r] # None
      PROVE  LET own == ContentTypes(ask[r].headers)
                 sent == req[r].types
                 kind == ask[r].kind IN
             /\ ~req[r].error
             /\ own # {} => ToSet(sent) = own
             /\ own = {} /\ kind \in DOMAIN B!TypeOfBody => sent = << B!TypeOfBody[kind] >>
  <2> DEFINE a == ask[r]
             H == ToSet(a.headers)
             b == Headers!Fold(B!NewRequest(a.uri), a.headers)
  <2>1. a \in Asks /\ req[r] = Built(a)
    BY <1>3, ClientAssumption
  <2>2. a.headers \in Seq(H)
    BY <2>1, ClientAssumption
  <2>3. req[r] = B!Attach(b, a.kind)
    BY <2>1, HeadersIs, Zenon DEF Built
  <2>4. ~req[r].error
    <3>1. Key(r) \in Keys
      BY <1>3 DEF IInv, ReqInv
    <3> QED
      BY <3>1 DEF Key, Keys
  <2>5. b \in Builders(a.uri, H) /\ Carries(b, a.headers)
    <3> DEFINE values == a.headers
    <3> HIDE DEF H
    <3> HIDE DEF a
    <3>1. values \in Seq(H)
      BY <2>2
    <3> HIDE DEF values
    <3>2. \A uri : /\ Headers!Fold(B!NewRequest(uri), values) \in Builders(uri, H)
                   /\ Carries(Headers!Fold(B!NewRequest(uri), values), values)
      BY <3>1, HeadersCarry
    <3> QED
      BY <3>2, Zenon DEF values
  <2> HIDE DEF a, b, H
  <2>6. ~B!Attach(b, a.kind).error
    BY <2>3, <2>4
  <2>7. /\ ContentTypes(a.headers) # {} =>
             ToSet(B!Attach(b, a.kind).types) = ContentTypes(a.headers)
        /\ ContentTypes(a.headers) = {} /\ a.kind \in DOMAIN B!TypeOfBody =>
             B!Attach(b, a.kind).types = << B!TypeOfBody[a.kind] >>
    BY <2>5, <2>6, AttachKeeps
  <2> QED
    BY <2>3, <2>4, <2>7, Zenon DEF a
<1>4. IInv /\ SameRequests => SentAsAsked
  BY <1>3, Zenon DEF SentAsAsked
<1> QED
  BY <1>1, <1>2, <1>4, Invariance, PTL DEF Spec
=============================================================================
