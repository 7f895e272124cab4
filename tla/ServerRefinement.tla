-------------------------- MODULE ServerRefinement --------------------------
(***************************************************************************)
(* The server implements Gateway: each of its steps is one for at most one *)
(* client, the beginning of the shutdown, its end, or none.                *)
(***************************************************************************)
EXTENDS ServerSafety

-----------------------------------------------------------------------------
(* The refinement mapping, client by client.                               *)

(* The worker has answered for the stream, to keep it or to close it.      *)
Kept(c) ==
  \E w \in Worker, tk \in DOMAIN processing :
    processing[tk] = c /\ (<<tk, TRUE>> \in unix_back[w] \/ tk \in stream_tks[w])
Shut(c) ==
  \E w \in Worker, tk \in DOMAIN processing :
    processing[tk] = c /\ (<<tk, FALSE>> \in unix_back[w] \/ tk \in stream_close_tks[w])

(* The verdict on a client, in terms of the answers.                       *)
LEMMA VerdictIs ==
  ASSUME NEW c
  PROVE  Verdict(c) = IF Kept(c) THEN "keep" ELSE IF Shut(c) THEN "close" ELSE "none"
BY DEF Verdict, Kept, Shut

(* The same after a step.                                                  *)
LEMMA VerdictIsNext ==
  ASSUME NEW c
  PROVE  Verdict(c)' = IF Kept(c)' THEN "keep" ELSE IF Shut(c)' THEN "close" ELSE "none"
BY DEF Verdict, Kept, Shut

(* The state of a client for Gateway, in terms of the maps.                *)
LEMMA ConnIs ==
  ASSUME IInv, NEW c \in Client
  PROVE  Conn(c) = IF Has(reading, c) THEN "idle" ELSE IF Has(processing, c) THEN "busy" ELSE client[c]
<1>1. Once(c)
  BY DEF IInv, OnceInv
<1>2. c \in Streams(reading) <=> Has(reading, c)
  BY DEF Streams, Has
<1> QED
  BY <1>1, <1>2 DEF Once, Conn

(* The same after a step.                                                  *)
LEMMA ConnIsNext ==
  ASSUME IInv', NEW c \in Client
  PROVE  Conn(c)' = IF Has(reading', c) THEN "idle"
                    ELSE IF Has(processing', c) THEN "busy" ELSE client'[c]
<1>1. Once(c)'
  BY DEF IInv, OnceInv
<1>2. c \in Streams(reading') <=> Has(reading', c)
  BY DEF Streams, Has
<1> QED
  BY <1>1, <1>2 DEF Once, Conn, Has, Streams

(* A step that puts the clients of S into a state of Gateway.              *)
Puts(S, state) == \A c \in Client : Conn(c)' = IF c \in S THEN state ELSE Conn(c)
SameConn == \A c \in Client : Conn(c)' = Conn(c)
SameVerdict == \A c \in Client : Verdict(c)' = Verdict(c)

(* What the moves of the maps are for Gateway.                             *)
LEMMA ConnStep ==
  ASSUME IInv, IInv'
  PROVE  /\ Quiet => SameConn
         /\ GivesUpIdle => Puts({c \in Client : Conn(c) = "idle"}, "closed")
         /\ GivesUpBusy => Puts({c \in Client : Conn(c) = "busy"}, "closed")
<1>1. ASSUME Quiet PROVE SameConn
  BY <1>1, ConnIs, ConnIsNext DEF Quiet, SameConn, Has
<1>o. \A c \in Client : Once(c)
  BY DEF IInv, OnceInv
<1>2. ASSUME GivesUpIdle, NEW c \in Client
      PROVE  Conn(c)' = IF Conn(c) = "idle" THEN "closed" ELSE Conn(c)
  <2>1. client'[c] = IF Has(reading, c) THEN "closed" ELSE client[c]
    BY <1>2 DEF GivesUpIdle, Close, Streams, Has
  <2>2. ~Has(reading', c) /\ (Has(processing', c) <=> Has(processing, c))
    BY <1>2, EmptyIs DEF GivesUpIdle, Has
  <2>3. client[c] # "idle"
    BY DEF IInv, TypeOK
  <2> QED
    BY <1>o, <2>1, <2>2, <2>3, ConnIs, ConnIsNext DEF Once
<1>3. ASSUME GivesUpBusy, NEW c \in Client
      PROVE  Conn(c)' = IF Conn(c) = "busy" THEN "closed" ELSE Conn(c)
  <2>1. client'[c] = IF Has(processing, c) THEN "closed" ELSE client[c]
    BY <1>3 DEF GivesUpBusy, Close, Streams, Has
  <2>2. ~Has(processing', c) /\ (Has(reading', c) <=> Has(reading, c))
    BY <1>3, EmptyIs DEF GivesUpBusy, Has
  <2>3. client[c] # "busy"
    BY DEF IInv, TypeOK
  <2> QED
    BY <1>o, <2>1, <2>2, <2>3, ConnIs, ConnIsNext DEF Once
<1> QED
  BY <1>1, <1>2, <1>3 DEF Puts

(* The moves of a client that has no token yet.                            *)
LEMMA ConnOfOne ==
  ASSUME IInv, IInv', NEW c \in Client
  PROVE  /\ Arrives(c) => Conn(c) = "new" /\ Puts({c}, "backlog")
         /\ Refused(c) => Conn(c) = "backlog" /\ Puts({c}, "closed")
         /\ \A tk : Taken(c, tk) => Conn(c) = "backlog" /\ Puts({c}, "idle")
<1>o. \A d \in Client : Once(d)
  BY DEF IInv, OnceInv
<1>c. client \in [Client -> {"new", "backlog", "open", "closed"}]
  BY DEF IInv, TypeOK
<1>1. ASSUME Arrives(c) PROVE Conn(c) = "new" /\ Puts({c}, "backlog")
  <2>1. client[c] = "new" /\ ~Has(reading, c) /\ ~Has(processing, c)
    BY <1>1, <1>o DEF Arrives, Once
  <2>2. ASSUME NEW d \in Client PROVE Conn(d)' = IF d = c THEN "backlog" ELSE Conn(d)
    <3>1. client'[d] = IF d = c THEN "backlog" ELSE client[d]
      BY <1>1, <1>c DEF Arrives
    <3>2. (Has(reading', d) <=> Has(reading, d)) /\ (Has(processing', d) <=> Has(processing, d))
      BY <1>1 DEF Arrives, Has
    <3> QED
      BY <2>1, <3>1, <3>2, ConnIs, ConnIsNext
  <2> QED
    BY <2>1, <2>2, ConnIs DEF Puts
<1>2. ASSUME Refused(c) PROVE Conn(c) = "backlog" /\ Puts({c}, "closed")
  <2>1. client[c] = "backlog" /\ ~Has(reading, c) /\ ~Has(processing, c)
    BY <1>2, <1>o DEF Refused, Once
  <2>2. ASSUME NEW d \in Client PROVE Conn(d)' = IF d = c THEN "closed" ELSE Conn(d)
    <3>1. client'[d] = IF d = c THEN "closed" ELSE client[d]
      BY <1>2 DEF Refused, Close
    <3>2. (Has(reading', d) <=> Has(reading, d)) /\ (Has(processing', d) <=> Has(processing, d))
      BY <1>2 DEF Refused, Has
    <3> QED
      BY <2>1, <3>1, <3>2, ConnIs, ConnIsNext
  <2> QED
    BY <2>1, <2>2, ConnIs DEF Puts
<1>3. ASSUME NEW tk, Taken(c, tk) PROVE Conn(c) = "backlog" /\ Puts({c}, "idle")
  <2>1. client[c] = "backlog" /\ ~Has(reading, c) /\ ~Has(processing, c)
    BY <1>3, <1>o DEF Taken, Once
  <2>2. ASSUME NEW d \in Client PROVE Conn(d)' = IF d = c THEN "idle" ELSE Conn(d)
    <3>1. client'[d] = IF d = c THEN "open" ELSE client[d]
      BY <1>3, <1>c DEF Taken
    <3>2. Has(reading', d) <=> Has(reading, d) \/ d = c
      BY <1>3 DEF Taken, Has, Insert
    <3>3. Has(processing', d) <=> Has(processing, d)
      BY <1>3 DEF Taken, Has
    <3> QED
      BY <2>1, <3>1, <3>2, <3>3, ConnIs, ConnIsNext
  <2> QED
    BY <2>1, <2>2, ConnIs DEF Puts
<1> QED
  BY <1>1, <1>2, <1>3

(* The moves of a stream by its token.                                     *)
LEMMA ConnOfToken ==
  ASSUME IInv, IInv', NEW tk
  PROVE  /\ DropsIdle(tk) => Conn(reading[tk]) = "idle" /\ Puts({reading[tk]}, "closed")
         /\ DropsBusy(tk) => Conn(processing[tk]) = "busy" /\ Puts({processing[tk]}, "closed")
         /\ GoesBusy(tk) => Conn(reading[tk]) = "idle" /\ Puts({reading[tk]}, "busy")
         /\ \A new_tk : GoesIdle(tk, new_tk) =>
              Conn(processing[tk]) = "busy" /\ Puts({processing[tk]}, "idle")
<1>o. \A d \in Client : Once(d)
  BY DEF IInv, OnceInv
<1>h. /\ \A k \in DOMAIN reading : reading[k] \in Client
      /\ \A k \in DOMAIN processing : processing[k] \in Client
  BY HeldAreOpen DEF IInv
<1>1. ASSUME DropsIdle(tk) PROVE Conn(reading[tk]) = "idle" /\ Puts({reading[tk]}, "closed")
  <2>1. tk \in DOMAIN reading /\ reading[tk] \in Client /\ Has(reading, reading[tk])
    BY <1>1, <1>h DEF DropsIdle, Has
  <2>2. ASSUME NEW d \in Client PROVE Conn(d)' = IF d = reading[tk] THEN "closed" ELSE Conn(d)
    <3>1. client'[d] = IF d = reading[tk] THEN "closed" ELSE client[d]
      BY <1>1 DEF DropsIdle, Close
    <3>2. Has(reading', d) <=> Has(reading, d) /\ d # reading[tk]
      BY <1>1, <1>o, <2>1 DEF DropsIdle, Has, Remove, Once
    <3>3. Has(processing', d) <=> Has(processing, d)
      BY <1>1 DEF DropsIdle, Has
    <3> QED
      BY <1>o, <2>1, <3>1, <3>2, <3>3, ConnIs, ConnIsNext DEF Once
  <2> QED
    BY <2>1, <2>2, ConnIs DEF Puts
<1>2. ASSUME DropsBusy(tk) PROVE Conn(processing[tk]) = "busy" /\ Puts({processing[tk]}, "closed")
  <2>1. tk \in DOMAIN processing /\ processing[tk] \in Client /\ Has(processing, processing[tk])
    BY <1>2, <1>h DEF DropsBusy, Has
  <2>2. ASSUME NEW d \in Client PROVE Conn(d)' = IF d = processing[tk] THEN "closed" ELSE Conn(d)
    <3>1. client'[d] = IF d = processing[tk] THEN "closed" ELSE client[d]
      BY <1>2 DEF DropsBusy, Close
    <3>2. Has(processing', d) <=> Has(processing, d) /\ d # processing[tk]
      BY <1>2, <1>o, <2>1 DEF DropsBusy, Has, Remove, Once
    <3>3. Has(reading', d) <=> Has(reading, d)
      BY <1>2 DEF DropsBusy, Has
    <3> QED
      BY <1>o, <2>1, <3>1, <3>2, <3>3, ConnIs, ConnIsNext DEF Once
  <2> QED
    BY <1>o, <2>1, <2>2, ConnIs DEF Puts, Once
<1>3. ASSUME GoesBusy(tk) PROVE Conn(reading[tk]) = "idle" /\ Puts({reading[tk]}, "busy")
  <2>1. tk \in DOMAIN reading /\ reading[tk] \in Client /\ Has(reading, reading[tk])
    BY <1>3, <1>h DEF GoesBusy, Has
  <2>2. ASSUME NEW d \in Client PROVE Conn(d)' = IF d = reading[tk] THEN "busy" ELSE Conn(d)
    <3>1. client'[d] = client[d]
      BY <1>3 DEF GoesBusy
    <3>2. Has(reading', d) <=> Has(reading, d) /\ d # reading[tk]
      BY <1>3, <1>o, <2>1 DEF GoesBusy, Has, Remove, Once
    <3>3. Has(processing', d) <=> Has(processing, d) \/ d = reading[tk]
      BY <1>3 DEF GoesBusy, Has, Insert
    <3> QED
      BY <2>1, <3>1, <3>2, <3>3, ConnIs, ConnIsNext
  <2> QED
    BY <2>1, <2>2, ConnIs DEF Puts
<1>4. ASSUME NEW new_tk, GoesIdle(tk, new_tk)
      PROVE  Conn(processing[tk]) = "busy" /\ Puts({processing[tk]}, "idle")
  <2>1. tk \in DOMAIN processing /\ processing[tk] \in Client /\ Has(processing, processing[tk])
    BY <1>4, <1>h DEF GoesIdle, Has
  <2>2. ASSUME NEW d \in Client PROVE Conn(d)' = IF d = processing[tk] THEN "idle" ELSE Conn(d)
    <3>1. client'[d] = client[d]
      BY <1>4 DEF GoesIdle
    <3>2. Has(processing', d) <=> Has(processing, d) /\ d # processing[tk]
      BY <1>4, <1>o, <2>1 DEF GoesIdle, Has, Remove, Once
    <3>3. Has(reading', d) <=> Has(reading, d) \/ d = processing[tk]
      BY <1>4 DEF GoesIdle, Has, Insert
    <3> QED
      BY <2>1, <3>1, <3>2, <3>3, ConnIs, ConnIsNext
  <2> QED
    BY <1>o, <2>1, <2>2, ConnIs DEF Puts, Once
<1> QED
  BY <1>1, <1>2, <1>3, <1>4

-----------------------------------------------------------------------------
(* The verdicts.                                                           *)

(* Verdicts only change with the answers and the requests they are for.    *)
LEMMA VerdictsStay ==
  ASSUME UNCHANGED <<processing, unix_back, stream_tks, stream_close_tks>>
  PROVE  SameVerdict
BY VerdictIs, VerdictIsNext DEF SameVerdict, Kept, Shut

(* A stream that is not with a worker has no verdict, one that waits for   *)
(* its answer has none yet.                                                *)
LEMMA NoVerdict ==
  ASSUME IInv, NEW c \in Client
  PROVE  /\ Conn(c) # "busy" => Verdict(c) = "none"
         /\ Up => \A w \in Worker : \A tk \in held[w] :
              tk \in DOMAIN processing /\ processing[tk] = c => Verdict(c) = "none"
<1>o. Once(c)
  BY DEF IInv, OnceInv
<1>t. TypeOK /\ WorkInv
  BY DEF IInv
<1>1. ASSUME Conn(c) # "busy" PROVE Verdict(c) = "none"
  <2>1. ~Has(processing, c)
    BY <1>1, <1>o, ConnIs DEF Once
  <2> QED
    BY <2>1, VerdictIs DEF Has, Kept, Shut
<1>2. ASSUME Up, NEW w \in Worker, NEW tk \in held[w], tk \in DOMAIN processing, processing[tk] = c
      PROVE  Verdict(c) = "none"
  <2>1. tk \in StreamToken /\ IsWith(tk, w)
    BY <1>t DEF TypeOK, IsWith
  <2>2. OneStage(tk, w) /\ \A v \in Worker : IsWith(tk, v) => v = w
    BY <1>t, <1>2, <2>1 DEF WorkInv
  <2>3. \A k \in DOMAIN processing : processing[k] = c => k = tk
    BY <1>o, <1>2 DEF Once
  <2>4. \A v \in Worker : /\ <<tk, TRUE>> \notin unix_back[v] /\ <<tk, FALSE>> \notin unix_back[v]
                          /\ tk \notin stream_tks[v] /\ tk \notin stream_close_tks[v]
    BY <2>2 DEF OneStage, Answered, IsWith
  <2>5. ~Kept(c) /\ ~Shut(c)
    BY <2>3, <2>4 DEF Kept, Shut
  <2> QED
    BY <2>5, VerdictIs
<1> QED
  BY <1>1, <1>2

(* The server takes the answer for the stream of tk.                       *)
LEMMA Forgets ==
  ASSUME IInv, NEW tk \in DOMAIN processing, processing' = Remove(processing, tk),
         UNCHANGED unix_back,
         \A w \in Worker : \A k :
           k # tk => /\ k \in stream_tks'[w] <=> k \in stream_tks[w]
                     /\ k \in stream_close_tks'[w] <=> k \in stream_close_tks[w]
  PROVE  \A d \in Client : Verdict(d)' = IF d = processing[tk] THEN "none" ELSE Verdict(d)
<1> SUFFICES ASSUME NEW d \in Client
             PROVE  Verdict(d)' = IF d = processing[tk] THEN "none" ELSE Verdict(d)
  OBVIOUS
<1>o. Once(d)
  BY DEF IInv, OnceInv
<1>1. DOMAIN processing' = DOMAIN processing \ {tk}
        /\ \A k \in DOMAIN processing' : processing'[k] = processing[k]
  BY RemoveIs
<1>2. CASE d = processing[tk]
  <2>1. \A k \in DOMAIN processing' : processing'[k] # d
    BY <1>o, <1>1, <1>2 DEF Once
  <2> QED
    BY <1>2, <2>1, VerdictIsNext DEF Kept, Shut
<1>3. CASE d # processing[tk]
  <2>0. \A k : k \in DOMAIN processing' /\ processing'[k] = d
                 <=> k \in DOMAIN processing /\ processing[k] = d
    BY <1>1, <1>3
  <2>k. \A k : k \in DOMAIN processing /\ processing[k] = d => k # tk
    BY <1>3
  <2>1. ASSUME NEW w \in Worker, NEW k, k \in DOMAIN processing, processing[k] = d
        PROVE  /\ (<<k, TRUE>> \in unix_back'[w] \/ k \in stream_tks'[w])
                    <=> (<<k, TRUE>> \in unix_back[w] \/ k \in stream_tks[w])
               /\ (<<k, FALSE>> \in unix_back'[w] \/ k \in stream_close_tks'[w])
                    <=> (<<k, FALSE>> \in unix_back[w] \/ k \in stream_close_tks[w])
    BY <2>k, <2>1
  <2>2. Kept(d)' <=> Kept(d)
    BY <2>0, <2>1 DEF Kept
  <2>3. Shut(d)' <=> Shut(d)
    BY <2>0, <2>1 DEF Shut
  <2> QED
    BY <1>3, <2>2, <2>3, VerdictIs, VerdictIsNext
<1> QED
  BY <1>2, <1>3

(* Reading the answers of a worker changes no verdict                      *)
(* (unixstreams.rs:49-94).                                                 *)
LEMMA TakenAnswers ==
  ASSUME IInv, NEW w \in Worker, NEW ready, UnixStream(w, ready)
  PROVE  SameVerdict
<1>t. TypeOK
  BY DEF IInv
<1>1. PICK got \in AtMost(ReadMax, IF "readable" \in ready THEN unix_back[w] ELSE {}) :
        /\ unix_back' = [unix_back EXCEPT ![w] = @ \ got]
        /\ stream_tks' = [stream_tks EXCEPT ![w] = @ \cup {a[1] : a \in {b \in got : b[2]}}]
        /\ stream_close_tks' = [stream_close_tks EXCEPT
                                 ![w] = @ \cup {a[1] : a \in {b \in got : ~b[2]}}]
  BY DEF UnixStream
<1>2. got \subseteq unix_back[w] /\ got \subseteq StreamToken \X BOOLEAN
  BY <1>t, AtMostSubset DEF TypeOK
<1>3. processing' = processing
  BY DEF UnixStream, mapVars
<1>4. \A k : /\ k \in {a[1] : a \in {b \in got : b[2]}} <=> <<k, TRUE>> \in got
             /\ k \in {a[1] : a \in {b \in got : ~b[2]}} <=> <<k, FALSE>> \in got
  BY <1>2, KindsOf
<1>5. ASSUME NEW v \in Worker, NEW k
      PROVE  /\ <<k, TRUE>> \in unix_back'[v] \/ k \in stream_tks'[v]
                  <=> <<k, TRUE>> \in unix_back[v] \/ k \in stream_tks[v]
             /\ <<k, FALSE>> \in unix_back'[v] \/ k \in stream_close_tks'[v]
                  <=> <<k, FALSE>> \in unix_back[v] \/ k \in stream_close_tks[v]
  <2>1. CASE v = w
    BY <1>t, <1>1, <1>2, <1>4, <2>1 DEF TypeOK
  <2>2. CASE v # w
    BY <1>t, <1>1, <2>2 DEF TypeOK
  <2> QED
    BY <2>1, <2>2
<1>6. ASSUME NEW c PROVE (Kept(c)' <=> Kept(c)) /\ (Shut(c)' <=> Shut(c))
  BY <1>3, <1>5 DEF Kept, Shut
<1> QED
  BY <1>6, VerdictIs, VerdictIsNext DEF SameVerdict

(* An answer of a worker gives a verdict on a busy stream that had none.   *)
LEMMA Judges ==
  ASSUME IInv, NEW w \in Worker, NEW tk \in held[w], NEW keep_alive \in BOOLEAN,
         WorkerAnswers(w, tk, keep_alive)
  PROVE  /\ tk \in DOMAIN processing /\ processing[tk] \in Client
         /\ Conn(processing[tk]) = "busy" /\ Verdict(processing[tk]) = "none"
         /\ \A d \in Client : Verdict(d)' =
              IF d = processing[tk] THEN IF keep_alive THEN "keep" ELSE "close" ELSE Verdict(d)
<1>t. TypeOK /\ WorkInv /\ Up
  BY DEF IInv, WorkerAnswers
<1>o. \A d \in Client : Once(d)
  BY DEF IInv, OnceInv
<1>1. tk \in StreamToken /\ IsWith(tk, w)
  BY <1>t DEF TypeOK, IsWith
<1>2. tk \in DOMAIN processing /\ processing[tk] \in Client
  BY <1>t, <1>1 DEF WorkInv, TypeOK
<1>3. Conn(processing[tk]) = "busy"
  BY <1>o, <1>2, ConnIs DEF Once, Has
<1>4. Verdict(processing[tk]) = "none"
  BY <1>t, <1>2, NoVerdict
<1>5. ~Kept(processing[tk]) /\ ~Shut(processing[tk])
  BY <1>4, VerdictIs
<1>6. /\ unix_back' = [unix_back EXCEPT ![w] = @ \cup {<<tk, keep_alive>>}]
      /\ UNCHANGED <<processing, stream_tks, stream_close_tks>>
  BY DEF WorkerAnswers, mapVars, unixVars
<1>7. \A v \in Worker : \A k :
        /\ <<k, TRUE>> \in unix_back'[v]
             <=> <<k, TRUE>> \in unix_back[v] \/ (v = w /\ k = tk /\ keep_alive)
        /\ <<k, FALSE>> \in unix_back'[v]
             <=> <<k, FALSE>> \in unix_back[v] \/ (v = w /\ k = tk /\ ~keep_alive)
  BY <1>t, <1>6 DEF TypeOK
<1>8. ASSUME NEW d \in Client
      PROVE  Verdict(d)' =
               IF d = processing[tk] THEN IF keep_alive THEN "keep" ELSE "close" ELSE Verdict(d)
  <2>1. CASE d = processing[tk]
    <3>1. Kept(d)' <=> keep_alive
      BY <1>2, <1>5, <1>6, <1>7, <2>1 DEF Kept
    <3>2. Shut(d)' <=> ~keep_alive
      BY <1>2, <1>5, <1>6, <1>7, <2>1 DEF Shut
    <3> QED
      BY <2>1, <3>1, <3>2, VerdictIsNext
  <2>2. CASE d # processing[tk]
    <3>1. (Kept(d)' <=> Kept(d)) /\ (Shut(d)' <=> Shut(d))
      BY <1>6, <1>7, <2>2 DEF Kept, Shut
    <3> QED
      BY <2>2, <3>1, VerdictIs, VerdictIsNext
  <2> QED
    BY <2>1, <2>2
<1> QED
  BY <1>2, <1>3, <1>4, <1>8

-----------------------------------------------------------------------------
(* The steps of Gateway, from what a step does to each client.             *)

(* A step that changes no client is none of Gateway's.                     *)
LEMMA Stutters ==
  ASSUME SameConn, SameVerdict, UNCHANGED <<run_shutdown, expired>>
  PROVE  UNCHANGED Abstract!vars
BY DEF SameConn, SameVerdict, Abstract!vars

(* Puts is what Gateway calls Put.                                         *)
LEMMA GatewayPut ==
  ASSUME NEW S, NEW state, Puts(S, state)
  PROVE  Abstract!Put(S, state)
BY DEF Puts, Abstract!Put

(* SameVerdict is what Gateway sees of verdicts that stay.                 *)
LEMMA GatewayVerdicts ==
  ASSUME SameVerdict
  PROVE  UNCHANGED [c \in Client |-> Verdict(c)]
BY DEF SameVerdict

(* A verdict that is gone is one that Gateway forgets.                     *)
LEMMA GatewayForget ==
  ASSUME NEW c \in Client,
         \A d \in Client : Verdict(d)' = IF d = c THEN "none" ELSE Verdict(d)
  PROVE  Abstract!Forget(c)
BY DEF Abstract!Forget

(* Gateway counts as the server does.                                      *)
LEMMA SameCount ==
  ASSUME NEW S
  PROVE  Abstract!Cardinality(S) = Cardinality(S)
BY DEF Abstract!Cardinality, Cardinality

(* A newcomer is let in while there is room for it.                        *)
LEMMA Room ==
  ASSUME IInv, Cardinality(DOMAIN reading) + Cardinality(DOMAIN processing) < MaxConns
  PROVE  Cardinality(Abstract!In("idle") \cup Abstract!In("busy")) < MaxConns
<1>1. Abstract!In("idle") \cup Abstract!In("busy") = {c \in Client : client[c] = "open"}
  <2>1. ASSUME NEW c \in Client
        PROVE  Conn(c) = "idle" \/ Conn(c) = "busy" <=> client[c] = "open"
    <3>1. Once(c) /\ client[c] \in {"new", "backlog", "open", "closed"}
      BY DEF IInv, OnceInv, TypeOK
    <3> QED
      BY <3>1, ConnIs DEF Once
  <2> QED
    BY <2>1 DEF Abstract!In
<1>2. Cardinality({c \in Client : client[c] = "open"})
        <= Cardinality(DOMAIN reading) + Cardinality(DOMAIN processing)
  BY OpenCount
<1>3. Cardinality({c \in Client : client[c] = "open"}) \in Nat
  <2>1. IsFiniteSet({c \in Client : client[c] = "open"})
    BY FS_Subset, ServerAssumption
  <2> QED
    BY <2>1, FS_CardinalityType
<1>4. Cardinality(DOMAIN reading) \in Nat /\ Cardinality(DOMAIN processing) \in Nat
  BY FS_CardinalityType DEF IInv, LimitInv
<1> QED
  BY <1>1, <1>2, <1>3, <1>4, ServerAssumption

(* Every step of the server is a step of Gateway or none.                  *)
LEMMA GatewayStep ==
  ASSUME IInv, IInv', [Next]_vars
  PROVE  [Abstract!Next]_(Abstract!vars)
<1>t. TypeOK /\ Up \in BOOLEAN
  BY DEF IInv, Up
<1> USE DEF clientVars, mapVars, unixVars, workerVars, sigVars
<1>u. ASSUME UNCHANGED <<client, stream_count, reading, processing, unix_back, stream_tks,
                         stream_close_tks, run_shutdown, expired>>
      PROVE  UNCHANGED Abstract!vars
  BY <1>u, ConnStep, VerdictsStay, Stutters DEF Quiet
<1>0. CASE UNCHANGED vars
  BY <1>u, <1>0 DEF vars
<1>1. CASE Exit
  <2>1. CASE UNCHANGED <<client, processing>>
    BY <1>u, <1>1, <2>1 DEF Exit
  <2>2. CASE TimeUp /\ ~expired /\ Close(Streams(processing)) /\ processing' = << >>
    <3>1. processing = << >> /\ processing' = << >>
      BY <2>2 DEF TimeUp
    <3>2. Streams(processing) = {}
      BY <3>1, EmptyIs DEF Streams
    <3>3. client' = client
      BY <1>t, <2>2, <3>2 DEF Close, TypeOK
    <3> QED
      BY <1>u, <1>1, <3>1, <3>3 DEF Exit
  <2>3. CASE TimeUp /\ expired /\ Close(Streams(processing)) /\ processing' = << >>
    <3>1. GivesUpBusy
      BY <1>1, <2>3 DEF Exit, GivesUpBusy
    <3>2. Abstract!Put(Abstract!In("busy"), "closed")
      <4>1. Abstract!In("busy") = {c \in Client : Conn(c) = "busy"}
        BY DEF Abstract!In
      <4> QED
        BY <3>1, <4>1, ConnStep, GatewayPut
    <3>3. \A c \in Client : Verdict(c)' = "none"
      BY <2>3, EmptyIs, VerdictIsNext DEF Kept, Shut
    <3>4. Abstract!Halt
      BY <1>1, <2>3, <3>2, <3>3 DEF Exit, TimeUp, Abstract!Halt
    <3> QED
      BY <3>4 DEF Abstract!Next
  <2> QED
    BY <1>1, <2>1, <2>2, <2>3 DEF Exit
<1>2. CASE Reregister \/ StartPoll \/ AcceptFails \/ EndRound
  BY <1>u, <1>2 DEF Reregister, StartPoll, AcceptFails, EndRound, TakeEvent
<1>4. CASE Accept
  <2>1. SameVerdict /\ UNCHANGED <<run_shutdown, expired>>
    BY <1>4, VerdictsStay DEF Accept, TakeEvent
  <2>2. PICK c \in Client : Refused(c) \/ \E tk \in StreamToken : Taken(c, tk)
    BY <1>4, AcceptMap
  <2>3. CASE Refused(c)
    <3>1. Abstract!TurnAway(c)
      BY <2>1, <2>3, ConnOfOne, GatewayPut, GatewayVerdicts DEF Abstract!TurnAway
    <3> QED
      BY <3>1 DEF Abstract!Next
  <2>4. ASSUME NEW tk \in StreamToken, Taken(c, tk) PROVE Abstract!Next
    <3>1. Conn(c) = "backlog" /\ Abstract!Put({c}, "idle")
      BY <2>4, ConnOfOne, GatewayPut
    <3>2. Cardinality(Abstract!In("idle") \cup Abstract!In("busy")) < MaxConns
      BY <2>4, Room DEF Taken
    <3>3. UNCHANGED <<[d \in Client |-> Verdict(d)], run_shutdown, expired>>
      BY <2>1, GatewayVerdicts
    <3>4. [d \in Client |-> Conn(d)][c] = "backlog"
      BY <2>2, <3>1
    <3>5. Abstract!Admit(c)
      BY <3>1, <3>2, <3>3, <3>4, SameCount DEF Abstract!Admit
    <3> QED
      BY <2>2, <3>5 DEF Abstract!Next
  <2> QED
    BY <2>2, <2>3, <2>4
<1>7. ASSUME NEW w \in Worker, NEW tk \in stream_tks[w], KeepAlive(w, tk) PROVE Abstract!Next
  <2> DEFINE c == processing[tk]
  <2>1. tk \in DOMAIN processing /\ c \in Client
    BY <1>t, <1>7 DEF KeepAlive, TypeOK
  <2>2. Kept(c) /\ Verdict(c) = "keep"
    BY <2>1, VerdictIs DEF Kept
  <2>3. \A d \in Client : Verdict(d)' = IF d = c THEN "none" ELSE Verdict(d)
    <3>1. \A v \in Worker : \A k : k # tk => (k \in stream_tks'[v] <=> k \in stream_tks[v])
      BY <1>t, <1>7 DEF KeepAlive, TypeOK
    <3>2. processing' = Remove(processing, tk) /\ UNCHANGED <<unix_back, stream_close_tks>>
      BY <1>7 DEF KeepAlive
    <3> QED
      BY <2>1, <3>1, <3>2, Forgets
  <2>4. UNCHANGED <<run_shutdown, expired>>
    BY <1>7 DEF KeepAlive
  <2>5. CASE DropsBusy(tk)
    <3>1. Conn(c) = "busy" /\ Abstract!Put({c}, "closed")
      BY <2>5, ConnOfToken, GatewayPut
    <3>2. Abstract!Close(c)
      BY <2>1, <2>2, <2>3, <2>4, <3>1, GatewayForget DEF Abstract!Close
    <3> QED
      BY <2>1, <3>2 DEF Abstract!Next
  <2>6. ASSUME ~run_shutdown, NEW new_tk, GoesIdle(tk, new_tk) PROVE Abstract!Next
    <3>1. Conn(c) = "busy" /\ Abstract!Put({c}, "idle")
      BY <2>6, ConnOfToken, GatewayPut
    <3>2. Abstract!Keep(c)
      BY <2>1, <2>2, <2>3, <2>4, <2>6, <3>1, GatewayForget DEF Abstract!Keep
    <3> QED
      BY <2>1, <3>2 DEF Abstract!Next
  <2> QED
    BY <1>7, <2>5, <2>6, KeepAliveMap
<1>8. ASSUME NEW w \in Worker, NEW tk \in stream_close_tks[w], CloseStream(w, tk) PROVE Abstract!Next
  <2> DEFINE c == processing[tk]
  <2>1. tk \in DOMAIN processing /\ c \in Client
    BY <1>t, <1>8 DEF CloseStream, TypeOK
  <2>2. Shut(c) /\ Verdict(c) # "none"
    BY <2>1, VerdictIs DEF Shut
  <2>3. \A d \in Client : Verdict(d)' = IF d = c THEN "none" ELSE Verdict(d)
    <3>1. \A v \in Worker : \A k : k # tk => (k \in stream_close_tks'[v] <=> k \in stream_close_tks[v])
      BY <1>t, <1>8 DEF CloseStream, TypeOK
    <3>2. processing' = Remove(processing, tk) /\ UNCHANGED <<unix_back, stream_tks>>
      BY <1>8 DEF CloseStream
    <3> QED
      BY <2>1, <3>1, <3>2, Forgets
  <2>4. DropsBusy(tk) /\ UNCHANGED <<run_shutdown, expired>>
    BY <1>8 DEF CloseStream, DropsBusy
  <2>5. Conn(c) = "busy" /\ Abstract!Put({c}, "closed")
    BY <2>4, ConnOfToken, GatewayPut
  <2>6. Abstract!Close(c)
    BY <2>1, <2>2, <2>3, <2>4, <2>5, GatewayForget DEF Abstract!Close
  <2> QED
    BY <2>1, <2>6 DEF Abstract!Next
<1>9. ASSUME NEW tk, Dispatch(tk) PROVE Abstract!Next
  <2> DEFINE c == reading[tk]
  <2>1. UNCHANGED <<unix_back, stream_tks, stream_close_tks, run_shutdown, expired>> /\ Up
    BY <1>9 DEF Dispatch, TakeEvent, Up, Stopped
  <2>2. tk \in StreamToken /\ tk \in DOMAIN reading /\ c \in Client
    BY <1>t, <1>9 DEF Dispatch, TypeOK
  <2>3. CASE DropsIdle(tk)
    <3>1. SameVerdict
      BY <2>1, <2>3, VerdictsStay DEF DropsIdle
    <3>2. Conn(c) = "idle" /\ Abstract!Put({c}, "closed")
      BY <2>3, ConnOfToken, GatewayPut
    <3>3. Abstract!Drop(c)
      BY <2>1, <2>2, <3>1, <3>2, GatewayVerdicts DEF Abstract!Drop
    <3> QED
      BY <2>2, <3>3 DEF Abstract!Next
  <2>4. CASE GoesBusy(tk)
    <3>1. \A v \in Worker : ~IsWith(tk, v)
      BY <2>1, <2>2, <2>4 DEF GoesBusy, IInv, WorkInv
    <3>2. \A v \in Worker : /\ <<tk, TRUE>> \notin unix_back[v] /\ <<tk, FALSE>> \notin unix_back[v]
                            /\ tk \notin stream_tks[v] /\ tk \notin stream_close_tks[v]
      BY <3>1 DEF IsWith, Answered
    <3>3. \A k : k # tk => (k \in DOMAIN processing' <=> k \in DOMAIN processing)
      BY <2>4 DEF GoesBusy, Insert
    <3>4. \A k \in DOMAIN processing : k # tk => processing'[k] = processing[k]
      BY <2>4 DEF GoesBusy, Insert
    <3>5. tk \notin DOMAIN processing
      BY <2>4 DEF GoesBusy
    <3>6. ASSUME NEW d \in Client PROVE (Kept(d)' <=> Kept(d)) /\ (Shut(d)' <=> Shut(d))
      <4>1. Kept(d)' <=> Kept(d)
        BY <2>1, <3>2, <3>3, <3>4, <3>5 DEF Kept
      <4>2. Shut(d)' <=> Shut(d)
        BY <2>1, <3>2, <3>3, <3>4, <3>5 DEF Shut
      <4> QED
        BY <4>1, <4>2
    <3>7. SameVerdict
      BY <3>6, VerdictIs, VerdictIsNext DEF SameVerdict
    <3>8. Conn(c) = "idle" /\ Abstract!Put({c}, "busy")
      BY <2>4, ConnOfToken, GatewayPut
    <3>9. Abstract!GiveAway(c)
      BY <2>1, <2>2, <3>7, <3>8, GatewayVerdicts DEF Abstract!GiveAway
    <3> QED
      BY <2>2, <3>9 DEF Abstract!Next
  <2> QED
    BY <1>9, <2>3, <2>4, DispatchMap
<1>10. ASSUME NEW ev, UnknownToken(ev) PROVE UNCHANGED Abstract!vars
  BY <1>u, <1>10 DEF UnknownToken
<1>11. ASSUME NEW w \in Worker, NEW ready, UnixStream(w, ready) PROVE UNCHANGED Abstract!vars
  <2>1. Quiet /\ UNCHANGED <<run_shutdown, expired>>
    BY <1>11 DEF UnixStream, TakeEvent, Quiet
  <2> QED
    BY <1>11, <2>1, ConnStep, TakenAnswers, Stutters
<1>12. ASSUME NEW reported, NEW fails, Poll(reported, fails) PROVE [Abstract!Next]_(Abstract!vars)
  <2>1. SameVerdict
    BY <1>12, VerdictsStay DEF Poll
  <2>2. CASE ~Shutdown \/ run_shutdown
    <3>1. UNCHANGED <<client, reading, run_shutdown, expired>>
      BY <1>t, <1>12, <2>2 DEF Poll, TypeOK
    <3> QED
      BY <1>u, <1>12, <3>1 DEF Poll
  <2>3. CASE Shutdown /\ ~run_shutdown
    <3>1. GivesUpIdle
      BY <1>12, <2>3 DEF Poll, Shutdown, GivesUpIdle
    <3>2. Abstract!Put(Abstract!In("idle"), "closed")
      <4>1. Abstract!In("idle") = {c \in Client : Conn(c) = "idle"}
        BY DEF Abstract!In
      <4> QED
        BY <3>1, <4>1, ConnStep, GatewayPut
    <3>3. Abstract!ShutDown
      BY <1>12, <2>1, <2>3, <3>2, GatewayVerdicts DEF Poll, Shutdown, Abstract!ShutDown
    <3> QED
      BY <3>3 DEF Abstract!Next
  <2> QED
    BY <2>2, <2>3
<1>13. CASE Polling
  BY <1>12, <1>13 DEF Polling, PollReports, PollTimesOut, PollFails
<1>14. CASE Sigint \/ CtrlcHandler
  BY <1>u, <1>14 DEF Sigint, CtrlcHandler
<1>15. CASE WaitExpires
  <2>1. SameConn /\ SameVerdict
    BY <1>15, ConnStep, VerdictsStay DEF WaitExpires, Quiet
  <2>2. UNCHANGED [c \in Client |-> Conn(c)]
    BY <2>1 DEF SameConn
  <2>3. Abstract!WaitEnds
    BY <1>15, <2>1, <2>2, GatewayVerdicts DEF WaitExpires, Abstract!WaitEnds
  <2> QED
    BY <2>3 DEF Abstract!Next
<1>16. ASSUME NEW c \in Client, Connect(c) PROVE Abstract!Next
  <2>1. Arrives(c) /\ UNCHANGED <<processing, unix_back, stream_tks, stream_close_tks, run_shutdown,
                                   expired>>
    BY <1>16 DEF Connect, Arrives
  <2>2. Abstract!Connect(c)
    BY <2>1, ConnOfOne, GatewayPut, VerdictsStay, GatewayVerdicts DEF Abstract!Connect
  <2> QED
    BY <2>2 DEF Abstract!Next
<1>17. ASSUME NEW c \in Client, Send(c) PROVE UNCHANGED Abstract!vars
  BY <1>u, <1>17 DEF Send
<1>18. ASSUME NEW w \in Worker, WorkerReads(w) \/ WorkerDies(w) PROVE UNCHANGED Abstract!vars
  BY <1>u, <1>18 DEF WorkerReads, WorkerDies
<1>19. ASSUME NEW w \in Worker, NEW tk \in held[w], NEW keep_alive \in BOOLEAN,
              WorkerAnswers(w, tk, keep_alive)
       PROVE  Abstract!Next
  <2> DEFINE c == processing[tk]
             v == IF keep_alive THEN "keep" ELSE "close"
  <2>1. /\ c \in Client /\ Conn(c) = "busy" /\ Verdict(c) = "none"
        /\ \A d \in Client : Verdict(d)' = IF d = c THEN v ELSE Verdict(d)
    BY <1>19, Judges
  <2>2. SameConn /\ UNCHANGED <<run_shutdown, expired>>
    BY <1>19, ConnStep DEF WorkerAnswers, Quiet
  <2>3. [d \in Client |-> Verdict(d)]' = [[d \in Client |-> Verdict(d)] EXCEPT ![c] = v]
    BY <2>1
  <2>4. UNCHANGED [d \in Client |-> Conn(d)]
    BY <2>2 DEF SameConn
  <2>5. v \in {"keep", "close"}
    OBVIOUS
  <2> HIDE DEF v
  <2>6. Abstract!Judge(c, v)
    BY <2>1, <2>2, <2>3, <2>4, <2>5 DEF Abstract!Judge
  <2> QED
    BY <2>1, <2>5, <2>6 DEF Abstract!Next
<1>20. CASE Stop
  BY <1>0, <1>20 DEF Stop
<1> QED
  BY <1>0, <1>1, <1>2, <1>4, <1>7, <1>8, <1>9, <1>10, <1>11, <1>13, <1>14, <1>15, <1>16, <1>17, <1>18,
     <1>19, <1>20 DEF Next, Loop, Environment

(* A stream leaves its worker only with the worker's answer and becomes    *)
(* what that says, newcomers are let in while there is room, and a         *)
(* shutdown gives up the idle streams only, until ctrlc_wait_time has      *)
(* passed; then it may give up those that are with workers                 *)
(* (server/mod.rs:64-233).                                                 *)
THEOREM ServerServes == Spec => ServesClients
<1>1. Init => Abstract!Init
  <2> SUFFICES ASSUME Init PROVE Abstract!Init
    OBVIOUS
  <2>1. \A c \in Client : Conn(c) = "new"
    BY DEF Init, Conn
  <2>2. \A c \in Client : Verdict(c) = "none"
    BY EmptyIs, VerdictIs DEF Init, Kept, Shut
  <2> QED
    BY <2>1, <2>2 DEF Init, Abstract!Init
<1>2. IInv /\ IInv' /\ [Next]_vars => [Abstract!Next]_(Abstract!vars)
  BY GatewayStep
<1> QED
  BY ServerInvariant, <1>1, <1>2, PTL DEF Spec, ServesClients, Abstract!Spec
=============================================================================
