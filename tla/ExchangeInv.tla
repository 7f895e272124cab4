---------------------------- MODULE ExchangeInv ----------------------------
(***************************************************************************)
(* The inductive invariant behind the safety properties of Exchange: where *)
(* the bytes of each request and of each response are between two steps.   *)
(***************************************************************************)
EXTENDS Exchange

Cell    == Request \X Nat
OutCell == Request \X {"header", "body"} \X Nat

Reader  == [have : Request \cup {NONE}, bytes : Seq(Cell), size : Nat]
Writer  == [buffer : Seq(OutCell), resp_body : BOOLEAN]

TypeInv ==
  /\ \A r \in Request :
       /\ stream[r] \in Stream /\ kind[r].length \in Nat
       /\ kind[r].valid \in BOOLEAN /\ kind[r].keep_alive \in BOOLEAN
  /\ sent \in [Stream -> Nat] /\ taken \in [Stream -> Nat]
  /\ eof \cup given_up \subseteq Stream
  /\ stage \in [Stream -> {"idle", "reading", "waiting", "writing", "closed"}]
  /\ reader \in [Stream -> Reader] /\ writer \in [Stream -> Writer]
  /\ serving \in [Stream -> Request \cup {NONE}]
  /\ req_recv \in Seq([req : Request, body : Seq(Cell)])
  /\ chan \in [Request -> Seq(Seq(OutCell))] /\ receiving \subseteq Request
  /\ due \in [Request -> Nat] /\ yielded \in [Request -> Nat]
  /\ out \in [Request -> Seq(OutCell)]
  /\ calls \in [starts : Nat, chunks : Nat, raises : Nat]

-----------------------------------------------------------------------------
(* Requests.                                                               *)

All(s) == Through(s, NumRequests)
End(r) == Len(Through(stream[r], r))

(* The buffer of the reader has what was taken since the end of a request. *)
HeaderSlice(s) ==
  \E p \in 0 .. NumRequests :
    /\ taken[s] = Len(Through(s, p)) + Len(reader[s].bytes)
    /\ reader[s].bytes = SubSeq(All(s), Len(Through(s, p)) + 1, taken[s])

ReadsHeader(s) ==
  /\ HeaderSlice(s)
  /\ serving[s] = IF reader[s].bytes = << >> THEN NONE ELSE reader[s].bytes[1][1]
  /\ reader[s].size \in Nat \ {0}
  /\ Len(reader[s].bytes) < HeaderSize /\ Len(reader[s].bytes) <= reader[s].size

ReadsBody(s) ==
  LET r == reader[s].have
  IN /\ r = serving[s] /\ r # NONE
     /\ Len(reader[s].bytes) < kind[r].length
     /\ reader[s].bytes = First(Body(r), Len(reader[s].bytes))
     /\ taken[s] + kind[r].length = End(r) + Len(reader[s].bytes)

StreamInv(s) ==
  /\ sent[s] <= Len(All(s)) /\ taken[s] <= sent[s]
  /\ serving[s] # NONE => stream[serving[s]] = s
  /\ stage[s] # "reading" => reader[s] = NewReader
  /\ stage[s] # "writing" => writer[s] = NewWriter
  /\ stage[s] \in {"waiting", "writing"} => serving[s] # NONE
  /\ stage[s] \in {"idle", "waiting", "writing"} =>
       taken[s] = IF serving[s] = NONE THEN 0 ELSE End(serving[s])
  /\ stage[s] = "reading" => IF reader[s].have = NONE THEN ReadsHeader(s) ELSE ReadsBody(s)
  /\ stage[s] = "closed" /\ s \notin eof \cup given_up =>
       /\ serving[s] # NONE
       /\ \/ ~kind[serving[s]].valid
          \/ ~kind[serving[s]].keep_alive /\ out[serving[s]] # << >>
          \/ taken[s] > End(serving[s])

(* All bytes of the request have been taken from its stream.               *)
AllTaken(r) == r \in Request /\ taken[stream[r]] >= End(r)

QueueInv ==
  \A i \in DOMAIN req_recv :
    /\ AllTaken(req_recv[i].req) /\ req_recv[i].body = Body(req_recv[i].req)
    /\ req_recv[i].req # cur
    /\ \A j \in DOMAIN req_recv : req_recv[i].req = req_recv[j].req => i = j

-----------------------------------------------------------------------------
(* The python thread.                                                      *)

(* Bytes x + 1 to y of a response body.                                    *)
Part(r, x, y) == [i \in 1 .. y - x |-> <<r, "body", x + i>>]

(* A slot that may hold a header.                                          *)
Slot(h) ==
  \/ h = << >>
  \/ /\ h[1].req \in Request /\ h[1].start \in Nat
     /\ h = <<[req |-> h[1].req, start |-> h[1].start]>>

(* Only the application's code is ever in readlines.                       *)
ReadLinesInv ==
  /\ in_readlines \in BOOLEAN
  /\ in_readlines => thr \in {"call", "first", "stream"}

ThreadInv ==
  /\ thr \in {"recv", "call", "first", "stream", "memory"}
  /\ IF thr = "recv" THEN cur = NONE /\ sending = {} ELSE AllTaken(cur) /\ sending = {cur}
  /\ context \in Request \cup {NONE} /\ Slot(response_header)
  /\ SlotsOwn
  /\ thr = "call" /\ response_header # << >> => response_header[1].start = calls.starts
  /\ header = IF thr = "first" THEN <<[req |-> cur, start |-> due[cur]]>> ELSE << >>
  /\ input = IF thr = "recv" THEN << >> ELSE Body(cur)
  /\ pos \in 0 .. Len(input) /\ ReadLinesInv
  /\ thr \in {"recv", "call", "first"} => next_val = << >>
  /\ thr = "memory" => next_val # << >>
  /\ next_val # << >> => \E x \in 0 .. yielded[cur] : next_val = <<Part(cur, x, yielded[cur])>>

-----------------------------------------------------------------------------
(* Responses.                                                              *)

(* The thread may still add to the response.                               *)
Queued(r)   == \E i \in DOMAIN req_recv : req_recv[i].req = r
Preparing(r) == Queued(r) \/ (cur = r /\ thr \in {"call", "first"})
Pending(r)  == cur = r /\ next_val # << >>
Writing(r)  == stage[stream[r]] = "writing" /\ serving[stream[r]] = r

(* Chunk by chunk q has the bytes k + 1 to m of a response body.           *)
InChunks(q, r, k, m) ==
  \E a \in [0 .. Len(q) -> 0 .. m] :
    /\ a[0] = k /\ a[Len(q)] = m
    /\ \A i \in 1 .. Len(q) : a[i - 1] <= a[i] /\ q[i] = Part(r, a[i - 1], a[i])

(* The channel has the bytes after the first k, the chunk in next_val the  *)
(* rest of them.                                                           *)
Chunked(r, k) ==
  \E m \in 0 .. yielded[r] :
    /\ InChunks(chan[r], r, k, m)
    /\ IF Pending(r) THEN next_val = <<Part(r, m, yielded[r])>> ELSE m = yielded[r]

Piped(r) ==
  LET w == writer[stream[r]]
      all == out[r] \o w.buffer
  IN /\ Len(all) \in 1 .. yielded[r] + 1 /\ all = First(Due(r), Len(all))
     /\ IF w.resp_body THEN Chunked(r, Len(all) - 1)
        ELSE Len(all) = yielded[r] + 1 /\ r \notin sending

ResponseInv(r) ==
  /\ Preparing(r) \/ ~AllTaken(r) => out[r] = << >> /\ yielded[r] = 0 /\ ~Writing(r)
  /\ r \in receiving <=> Writing(r) /\ writer[stream[r]].resp_body
  /\ r \notin receiving => chan[r] = << >>
  /\ Writing(r) => Piped(r)
  /\ Len(out[r]) <= yielded[r] + 1 /\ out[r] = First(Due(r), Len(out[r]))
  /\ ~Writing(r) /\ serving[stream[r]] = r /\ stream[r] \notin given_up /\ out[r] # << >> =>
       Len(out[r]) = yielded[r] + 1 /\ r # cur

IInv ==
  /\ TypeInv /\ QueueInv /\ ThreadInv
  /\ \A s \in Stream : StreamInv(s)
  /\ \A r \in Request : ResponseInv(r)
=============================================================================
