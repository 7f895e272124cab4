------------------------------ MODULE ServerInv ------------------------------
(***************************************************************************)
(* The inductive invariant behind the safety properties of Server: what    *)
(* is true between any two steps, told token by token.                     *)
(***************************************************************************)
EXTENDS Server

(* The token a stream has after it was kept alive r times, and the stream  *)
(* of a token, counted from the first.                                     *)
TokenOf(s, r) == s * NEW_STREAM_COUNT_INC + r * KEEP_ALIVE_COUNT_INC
Number(tk) == tk \div NEW_STREAM_COUNT_INC

Tokens == DOMAIN reading \cup DOMAIN processing

(* A stream has one token, in one of the maps, and the tokens of the next  *)
(* stream are all free.                                                    *)
TokenInv ==
  /\ DOMAIN reading \cap DOMAIN processing = {}
  /\ \A j, k \in Tokens : Number(j) = Number(k) => j = k
  /\ \A k \in Tokens : Number(k) <= stream_count

(* Each stream that has been accepted was counted, once.                   *)
Accepted == {c \in Client : client[c] \in {"open", "closed"}}
AcceptInv == stream_count = Cardinality(Accepted)

(* EachStreamOnce for one client, and without the condition that the       *)
(* server is up.                                                           *)
Has(map, c) == \E k \in DOMAIN map : map[k] = c
Once(c) ==
  /\ client[c] = "open" <=> Has(reading, c) \/ Has(processing, c)
  /\ ~(Has(reading, c) /\ Has(processing, c))
  /\ \A map \in {reading, processing} :
       \A j, k \in DOMAIN map : map[j] = c /\ map[k] = c => j = k
OnceInv == \A c \in Client : Once(c)

(* The limit, in terms of the maps whose sizes the code compares with it.  *)
LimitInv ==
  /\ IsFiniteSet(DOMAIN reading) /\ IsFiniteSet(DOMAIN processing)
  /\ Cardinality(DOMAIN reading) + Cardinality(DOMAIN processing) <= MaxConns

-----------------------------------------------------------------------------
(* ProcessingIsWithWorkers for one token.  An answer on the way is a pair, *)
(* and of one kind.                                                        *)
Answered(tk, w) == <<tk, TRUE>> \in unix_back[w] \/ <<tk, FALSE>> \in unix_back[w]

IsWith(tk, w) ==
  \/ tk \in to_send[w] \/ tk \in unix_out[w] \/ tk \in held[w] \/ Answered(tk, w)
  \/ tk \in stream_tks[w] \/ tk \in stream_close_tks[w]

(* The stages before the one named exclude it and those after it.          *)
OneStage(tk, w) ==
  /\ tk \in to_send[w] => tk \notin unix_out[w] /\ tk \notin held[w] /\ ~Answered(tk, w)
                          /\ tk \notin stream_tks[w] /\ tk \notin stream_close_tks[w]
  /\ tk \in unix_out[w] => tk \notin held[w] /\ ~Answered(tk, w)
                           /\ tk \notin stream_tks[w] /\ tk \notin stream_close_tks[w]
  /\ tk \in held[w] => ~Answered(tk, w) /\ tk \notin stream_tks[w] /\ tk \notin stream_close_tks[w]
  /\ Answered(tk, w) => tk \notin stream_tks[w] /\ tk \notin stream_close_tks[w]
  /\ ~(tk \in stream_tks[w] /\ tk \in stream_close_tks[w])
  /\ ~(<<tk, TRUE>> \in unix_back[w] /\ <<tk, FALSE>> \in unix_back[w])

WorkInv ==
  Up =>
    /\ \A tk \in DOMAIN processing : \E w \in Worker : IsWith(tk, w)
    /\ \A w \in Worker, tk \in StreamToken : IsWith(tk, w) =>
         /\ tk \in DOMAIN processing
         /\ OneStage(tk, w)
         /\ \A v \in Worker : IsWith(tk, v) => v = w

(* A stream that its worker keeps alive has a token left.                  *)
KeepInv ==
  \A w \in Worker, tk \in StreamToken :
    tk \in stream_tks[w] \/ <<tk, TRUE>> \in unix_back[w] => Round(tk) < KeepAliveBound

IInv ==
  /\ TypeOK /\ TokenInv /\ AcceptInv /\ OnceInv /\ LimitInv
  /\ WorkInv /\ KeepInv /\ LoadCounted
=============================================================================
