------------------------------ MODULE Exchange ------------------------------
(***************************************************************************)
(* Requests and responses, byte by byte, from a client stream to a python  *)
(* application and back: the reader of a request, a python thread with its *)
(* thread-local slots and the WSGI call, and the writer of the response.   *)
(*                                                                         *)
(* The loop of the worker, which decides when each of them runs, is in the *)
(* module Worker; here they run in any order.  What Worker calls the       *)
(* outcome of a read or of a write is computed here.                       *)
(***************************************************************************)
EXTENDS Naturals, Sequences, FiniteSets

CONSTANTS
  NumRequests,     (* bound: requests, numbered in the order they are sent  *)
  NumStreams,      (* bound: client streams                                 *)
  Load,            (* what clients send: the stream of each request and its *)
                   (* kind, [length, valid, keep_alive]                     *)
  HeaderSize,      (* bytes of a request's header                           *)
  BufferSize,      (* 2048: the reader's buffer, which is doubled when less *)
  HeaderRoom,      (* than 1024 bytes of it are free                        *)
  Newlines,        (* which bytes of a body are newlines                    *)
  MaxStarts,       (* bound: calls of start_response for one request        *)
  MaxYields,       (* bound: bytes of a response body                       *)
  MaxChunks,       (* bound: chunks of it                                   *)
  MaxRaises        (* bound: exceptions out of one body iterator            *)

Request == 1 .. NumRequests
Stream  == 1 .. NumStreams

ASSUME ExchangeAssumption ==
  /\ \A k \in {NumRequests, NumStreams, HeaderSize, BufferSize} : k \in Nat \ {0}
  /\ HeaderRoom \in 1 .. BufferSize
  /\ \A l \in Load, r \in Request :
       /\ l.stream[r] \in Stream /\ l.kind[r].length \in Nat
       /\ {l.kind[r].valid, l.kind[r].keep_alive} \subseteq BOOLEAN
  /\ \A k \in {MaxStarts, MaxYields, MaxChunks, MaxRaises} : k \in Nat

NONE == 0          (* no request, no header *)

VARIABLES
  (* the clients                                                           *)
  stream, kind,    (* which stream each request is sent on, and what it is  *)
  sent, eof,       (* bytes each client has sent; clients that have closed  *)
  given_up,        (* streams that failed, or whose request timed out       *)
  (* a stream in the server and the worker                                 *)
  stage,           (* "idle" (server), "reading", "waiting", "writing", "closed" *)
  taken,           (* bytes of it that have been read                       *)
  reader, writer,
  serving,         (* the request it is about, or was                       *)
  (* the python thread                                                     *)
  req_recv,        (* requests queued for it: [req, body]                   *)
  thr,             (* where it is: "recv", "call", "first", "stream", "memory" *)
  cur, context, response_header,
  header,          (* what execute has taken out of response_header         *)
  next_val, ended, (* of BytesIter; whether its iterator is at its end      *)
  input, pos,      (* WsgiInput                                             *)
  in_readlines,    (* whether the application is in a readlines for ever    *)
  calls,           (* of the application: starts, chunks, raises            *)
  (* the body channels, and history of each request                        *)
  chan, sending, receiving,
  due,             (* the header the application has decided on; 0: the 500 *)
  yielded,         (* bytes of body it has handed over                      *)
  out              (* bytes written to the client                           *)

clientVars == <<stream, kind, sent, eof, given_up>>
streamVars == <<stage, taken, reader, writer, serving>>
slotVars   == <<context, response_header>>
inputVars  == <<input, pos, in_readlines>>
appVars    == <<header, next_val, ended, inputVars, calls>>
threadVars == <<thr, cur, slotVars, appVars>>
chanVars   == <<chan, sending, receiving>>
doneVars   == <<due, yielded, out>>
vars == <<clientVars, streamVars, req_recv, threadVars, chanVars, doneVars>>

Least(a, b) == IF a < b THEN a ELSE b
First(s, n) == SubSeq(s, 1, n)
Rest(s, n)  == SubSeq(s, n + 1, Len(s))

-----------------------------------------------------------------------------
(* What the clients send.  A byte is <<request, place>>; a client sends    *)
(* its requests one after the other, and need not wait for an answer.      *)

Bytes(r) == [i \in 1 .. HeaderSize + kind[r].length |-> <<r, i>>]
Body(r)  == Rest(Bytes(r), HeaderSize)

(* All bytes of a stream, up to and with those of request r.               *)
Through(s, r) ==
  LET f[n \in 0 .. r] ==
        IF n = 0 THEN << >>
        ELSE IF stream[n] = s THEN f[n - 1] \o Bytes(n) ELSE f[n - 1]
  IN f[r]
Available(s) == Rest(First(Through(s, NumRequests), sent[s]), taken[s])

NewReader == [have |-> NONE, bytes |-> << >>, size |-> BufferSize]
NewWriter == [buffer |-> << >>, resp_body |-> FALSE]
NoCalls   == [starts |-> 0, chunks |-> 0, raises |-> 0]

Init ==
  /\ \E l \in Load : stream = l.stream /\ kind = l.kind
  /\ sent = [s \in Stream |-> 0] /\ eof = {} /\ given_up = {}
  /\ stage = [s \in Stream |-> "idle"] /\ taken = [s \in Stream |-> 0]
  /\ reader = [s \in Stream |-> NewReader] /\ writer = [s \in Stream |-> NewWriter]
  /\ serving = [s \in Stream |-> NONE]
  /\ req_recv = << >>
  /\ thr = "recv" /\ cur = NONE /\ context = NONE /\ response_header = << >>
  /\ header = << >> /\ next_val = << >> /\ ended = TRUE
  /\ input = << >> /\ pos = 0 /\ in_readlines = FALSE /\ calls = NoCalls
  /\ chan = [r \in Request |-> << >>] /\ sending = {} /\ receiving = {}
  /\ due = [r \in Request |-> NONE] /\ yielded = [r \in Request |-> 0]
  /\ out = [r \in Request |-> << >>]

(* What a client does while its stream is not read, it may as well do      *)
(* after; and having sent a whole request, it may as well wait for the     *)
(* answer before it closes.                                                *)
Send(s) ==
  /\ s \notin eof /\ stage[s] \in {"idle", "reading"}
  /\ \E n \in sent[s] + 1 .. Len(Through(s, NumRequests)) : sent' = [sent EXCEPT ![s] = n]
  /\ UNCHANGED <<stream, kind, eof, given_up, streamVars, req_recv, threadVars, chanVars, doneVars>>

AtBoundary(s) == \E r \in 0 .. NumRequests : sent[s] = Len(Through(s, r))
CloseWrite(s) ==
  /\ s \notin eof
  /\ IF AtBoundary(s) THEN stage[s] = "idle" /\ Available(s) = << >> ELSE stage[s] = "reading"
  /\ eof' = eof \cup {s}
  /\ UNCHANGED <<stream, kind, sent, given_up, streamVars, req_recv, threadVars, chanVars, doneVars>>

-----------------------------------------------------------------------------
(* The reader.                                                             *)

Readable(s) == Available(s) # << >> \/ s \in eof

(* The server has seen the first byte, or the end, of a request; the       *)
(* worker takes the stream on with a new reader.                           *)
TakeOn(s) ==
  /\ stage[s] = "idle" /\ Readable(s)
  /\ stage' = [stage EXCEPT ![s] = "reading"]
  /\ reader' = [reader EXCEPT ![s] = NewReader]
  /\ serving' = [serving EXCEPT ![s] = NONE]
  /\ UNCHANGED <<clientVars, taken, writer, req_recv, threadVars, chanVars, doneVars>>

(* The end of a stream, by StreamEOF or an HttpError.                      *)
Closes(s) ==
  /\ stage' = [stage EXCEPT ![s] = "closed"]
  /\ reader' = [reader EXCEPT ![s] = NewReader]
  /\ UNCHANGED req_recv

Partial(s, r, bytes, size) ==
  /\ reader' = [reader EXCEPT ![s] = [have |-> r, bytes |-> bytes, size |-> size]]
  /\ UNCHANGED <<stage, req_recv>>

(* ServerReadDone: the request is queued for the python threads.           *)
Complete(s, r, body) ==
  /\ req_recv' = Append(req_recv, [req |-> r, body |-> body])
  /\ stage' = [stage EXCEPT ![s] = "waiting"]
  /\ reader' = [reader EXCEPT ![s] = NewReader]

(* Mutant: the buffer keeps its size.                                      *)
Grown_Never(size, used) == size

Grown(size, used) == IF size - used < HeaderRoom THEN 2 * size ELSE size

(* httparse: the header of a request ends with its HeaderSize-th byte, and *)
(* starts where the buffer does.                                           *)
Parsed(bytes) ==
  /\ \A i \in 1 .. HeaderSize : bytes[i] = <<bytes[1][1], i>>
  /\ kind[bytes[1][1]].valid

(* Mutant: bytes beyond the content length are cut off by resize.          *)
TakeBody_Cut(s, r, body) ==
  IF Len(body) >= kind[r].length
  THEN Complete(s, r, First(body, kind[r].length))
  ELSE Partial(s, r, body, 0)

(* Mutant: a body that is complete counts as too long.                     *)
TakeBody_Strict(s, r, body) ==
  IF Len(body) >= kind[r].length THEN Closes(s) ELSE Partial(s, r, body, 0)

(* take_body and what read_header makes of it.                             *)
TakeBody(s, r, body) ==
  IF Len(body) > kind[r].length THEN Closes(s)
  ELSE IF Len(body) = kind[r].length THEN Complete(s, r, body)
  ELSE Partial(s, r, body, 0)

ReadHeader(s) ==
  /\ stage[s] = "reading" /\ reader[s].have = NONE /\ Readable(s)
  /\ LET size  == Grown(reader[s].size, Len(reader[s].bytes))
         n     == Least(size - Len(reader[s].bytes), Len(Available(s)))
         bytes == reader[s].bytes \o First(Available(s), n)
     IN /\ taken' = [taken EXCEPT ![s] = @ + n]
        /\ serving' = [serving EXCEPT ![s] = IF bytes # << >> THEN bytes[1][1] ELSE NONE]
        /\ IF n = 0 THEN Closes(s)
           ELSE IF Len(bytes) < HeaderSize THEN Partial(s, NONE, bytes, size)
           ELSE IF ~Parsed(bytes) THEN Closes(s)
           ELSE TakeBody(s, bytes[1][1], Rest(bytes, HeaderSize))
  /\ UNCHANGED <<clientVars, writer, threadVars, chanVars, doneVars>>

ReadBody(s) ==
  /\ stage[s] = "reading" /\ reader[s].have # NONE /\ Readable(s)
  /\ LET r    == reader[s].have
         n    == Least(kind[r].length - Len(reader[s].bytes), Len(Available(s)))
         body == reader[s].bytes \o First(Available(s), n)
     IN /\ taken' = [taken EXCEPT ![s] = @ + n]
        /\ IF n = 0 THEN Closes(s) ELSE TakeBody(s, r, body)
  /\ UNCHANGED <<clientVars, writer, serving, threadVars, chanVars, doneVars>>

(* A read or write that fails, a registry call that fails, a 408, 503 or   *)
(* 504: what becomes of the stream is in Worker.  What was received of the *)
(* response, or comes later, is dropped with its channel, and what nobody  *)
(* has read of the stream is lost.                                         *)
GiveUp(s) ==
  /\ stage[s] \in {"reading", "waiting", "writing"}
  /\ stage' = [stage EXCEPT ![s] = "closed"]
  /\ given_up' = given_up \cup {s}
  /\ sent' = [sent EXCEPT ![s] = taken[s]]
  /\ reader' = [reader EXCEPT ![s] = NewReader]
  /\ writer' = [writer EXCEPT ![s] = NewWriter]
  /\ receiving' = receiving \ {serving[s]}
  /\ chan' = [r \in Request |-> IF r = serving[s] THEN << >> ELSE chan[r]]
  /\ UNCHANGED <<stream, kind, eof, taken, serving, req_recv, threadVars, sending, doneVars>>

-----------------------------------------------------------------------------
(* The python thread.  From "call" to "first" the application's callable   *)
(* runs, in "first" the iterator is asked for its first chunk, in "stream" *)
(* for the others; "memory" sends the body of a 500.                       *)

(* Mutant: the slots are cleared after the context has been set.           *)
InitReqThread_Last(r) == context' = NONE /\ response_header' = << >>

(* Mutant: the slots are cleared at the first request only.                *)
InitReqThread_Once(r) ==
  context' = r /\ response_header' = IF context = NONE THEN << >> ELSE response_header

(* init_req_thread, then set_context.                                      *)
InitReqThread(r) == context' = r /\ response_header' = << >>

(* The next request: slots, WsgiInput and channel of its own.              *)
Take ==
  /\ thr = "recv" /\ req_recv # << >>
  /\ req_recv' = Tail(req_recv)
  /\ thr' = "call"
  /\ cur' = Head(req_recv).req
  /\ InitReqThread(cur')
  /\ input' = Head(req_recv).body /\ pos' = 0
  /\ calls' = NoCalls /\ ended' = FALSE
  /\ sending' = sending \cup {cur'}
  /\ UNCHANGED <<clientVars, streamVars, header, next_val, in_readlines, chan, receiving, doneVars>>

(* The application's code runs, in its callable or in its iterator.        *)
AppRuns == thr \in {"call", "first", "stream"} /\ ~ended /\ ~in_readlines

(* start_response, with arguments it accepts: the slot has the last one.   *)
StartResponse ==
  /\ AppRuns /\ calls.starts < MaxStarts
  /\ calls' = [calls EXCEPT !.starts = @ + 1]
  /\ response_header' = <<[req |-> cur, start |-> calls.starts + 1]>>
  /\ UNCHANGED <<clientVars, streamVars, req_recv, thr, cur, context, header, next_val, ended,
                 inputVars, chanVars, doneVars>>

Remaining == Len(input) - pos

(* read(n), read() and the next byte of the iterator.                      *)
Read ==
  /\ AppRuns
  /\ \E n \in 1 .. Remaining : pos' = pos + n
  /\ UNCHANGED <<clientVars, streamVars, req_recv, thr, cur, slotVars, header, next_val, ended,
                 input, in_readlines, calls, chanVars, doneVars>>

IsNewline(i) == input[i][2] - HeaderSize \in Newlines

(* What is before the next newline, which is neither given nor passed.     *)
LineEnd == CHOOSE n \in 0 .. Remaining :
             /\ \A k \in pos + 1 .. pos + n : ~IsNewline(k)
             /\ n < Remaining => IsNewline(pos + n + 1)

(* readline; a readlines with a limit, of one or more, is as many of them. *)
ReadLine ==
  /\ AppRuns
  /\ pos' = pos + LineEnd
  /\ UNCHANGED <<clientVars, streamVars, req_recv, thr, cur, slotVars, header, next_val, ended,
                 input, in_readlines, calls, chanVars, doneVars>>

(* readlines without a limit, or with a limit of 0.                        *)
ReadLines ==
  /\ AppRuns
  /\ in_readlines' = TRUE
  /\ UNCHANGED <<clientVars, streamVars, req_recv, thr, cur, slotVars, header, next_val, ended,
                 input, pos, calls, chanVars, doneVars>>

(* A turn of its loop, which nothing but a limit ends.                     *)
ReadLinesTurn ==
  /\ in_readlines
  /\ pos' = pos + LineEnd
  /\ UNCHANGED <<clientVars, streamVars, req_recv, thr, cur, slotVars, header, next_val, ended,
                 input, in_readlines, calls, chanVars, doneVars>>

(* resp_send.send: the loop of the worker takes the response, and makes a  *)
(* writer of it if it still waits for it.                                  *)
Respond(h) ==
  LET s == stream[cur]
  IN IF stage[s] = "waiting" /\ serving[s] = cur
     THEN /\ stage' = [stage EXCEPT ![s] = "writing"]
          /\ writer' = [writer EXCEPT ![s] =
                          [buffer |-> <<<<h.req, "header", h.start>>>>, resp_body |-> TRUE]]
          /\ receiving' = receiving \cup {cur}
     ELSE UNCHANGED <<stage, writer, receiving>>

Chunk(n) == [i \in 1 .. n |-> <<cur, "body", yielded[cur] + i>>]

(* execute has returned an error: 500, with the traceback as its body or   *)
(* with none, as configured.                                               *)
Fails ==
  /\ thr' = "memory" /\ ended' = TRUE
  /\ Respond([req |-> cur, start |-> NONE])
  /\ due' = [due EXCEPT ![cur] = NONE]
  /\ \E n \in {0, 1} : next_val' = <<Chunk(n)>> /\ yielded' = [yielded EXCEPT ![cur] = n]
  /\ header' = << >>
  /\ UNCHANGED <<clientVars, taken, reader, serving, req_recv, cur, context, inputVars,
                 calls, chan, sending, out>>

CallRaises == thr = "call" /\ AppRuns /\ Fails /\ UNCHANGED response_header

(* take_response_header finds nothing.                                     *)
NotStarted == thr = "call" /\ AppRuns /\ response_header = << >> /\ Fails /\ UNCHANGED response_header

(* The callable has returned an iterable, having called start_response.    *)
CallReturns ==
  /\ thr = "call" /\ AppRuns /\ response_header # << >>
  /\ header' = response_header /\ response_header' = << >>
  /\ due' = [due EXCEPT ![cur] = calls.starts]
  /\ thr' = "first"
  /\ UNCHANGED <<clientVars, streamVars, req_recv, cur, context, next_val, ended, inputVars,
                 calls, chanVars, yielded, out>>

(* What next_body_chunk finds: a chunk of n bytes, or the end.             *)
Yields(n) ==
  /\ ~ended /\ calls.chunks < MaxChunks /\ yielded[cur] + n <= MaxYields
  /\ calls' = [calls EXCEPT !.chunks = @ + 1]
  /\ next_val' = <<Chunk(n)>>
  /\ yielded' = [yielded EXCEPT ![cur] = @ + n]
  /\ UNCHANGED ended
Ends ==
  /\ ended' = TRUE /\ next_val' = << >>
  /\ UNCHANGED <<calls, yielded>>

(* BytesIter::new: the first chunk is there before the header is sent.     *)
FirstChunk ==
  /\ thr = "first" /\ AppRuns
  /\ Ends \/ \E n \in 0 .. MaxYields : Yields(n)
  /\ Respond(header[1])
  /\ thr' = "stream" /\ header' = << >>
  /\ UNCHANGED <<clientVars, taken, reader, serving, req_recv, cur, slotVars, inputVars,
                 chan, sending, due, out>>
FirstRaises == thr = "first" /\ AppRuns /\ Fails /\ UNCHANGED response_header

(* The end of a turn of run: all it had is dropped, the sender of the body *)
(* too; the thread-local slots stay.                                       *)
TurnEnds ==
  /\ thr' = "recv" /\ cur' = NONE
  /\ sending' = sending \ {cur}
  /\ next_val' = << >> /\ ended' = TRUE /\ calls' = NoCalls
  /\ input' = << >> /\ pos' = 0
  /\ UNCHANGED <<clientVars, streamVars, req_recv, slotVars, header, in_readlines, receiving,
                 doneVars>>

(* Mutant: a channel that holds one chunk.                                 *)
SendChunk_Bounded(chunk) ==
  /\ cur \in receiving => chan[cur] = << >>
  /\ chan' = IF cur \in receiving THEN [chan EXCEPT ![cur] = Append(@, chunk)] ELSE chan

(* body_send.send, whose failure is ignored.                               *)
SendChunk(chunk) ==
  chan' = IF cur \in receiving THEN [chan EXCEPT ![cur] = Append(@, chunk)] ELSE chan

(* BytesIter::next asks for the chunk after next and gives the one before. *)
NextChunk ==
  /\ thr = "stream" /\ next_val # << >> /\ ~in_readlines
  /\ Ends \/ \E n \in 0 .. MaxYields : Yields(n)
  /\ SendChunk(next_val[1])
  /\ UNCHANGED <<clientVars, streamVars, req_recv, thr, cur, slotVars, header, inputVars,
                 sending, receiving, due, out>>

(* Asked at its end, the iterator has nothing, and nothing is left.        *)
NoMore ==
  thr = "stream" /\ next_val = << >> /\ ~in_readlines /\ TurnEnds /\ UNCHANGED chan

(* Mutant: the chunk to give is taken before the iterator is asked.        *)
NextRaises_Takes ==
  /\ thr = "stream" /\ AppRuns /\ calls.raises < MaxRaises
  /\ calls' = [calls EXCEPT !.raises = @ + 1]
  /\ ended' \in BOOLEAN
  /\ next_val' = << >>
  /\ UNCHANGED <<clientVars, streamVars, req_recv, thr, cur, slotVars, header, inputVars,
                 chanVars, doneVars>>

(* The iterator raises, and may (an object) or may not (a generator) go on *)
(* after that; the chunk before it is still to be given.                   *)
NextRaises ==
  /\ thr = "stream" /\ AppRuns /\ calls.raises < MaxRaises
  /\ calls' = [calls EXCEPT !.raises = @ + 1]
  /\ ended' \in BOOLEAN
  /\ UNCHANGED <<clientVars, streamVars, req_recv, thr, cur, slotVars, header, next_val,
                 inputVars, chanVars, doneVars>>

(* RespBody::Memory.                                                       *)
SendMemory == thr = "memory" /\ SendChunk(next_val[1]) /\ TurnEnds

-----------------------------------------------------------------------------
(* The writer.                                                             *)

(* Mutant: a dropped sender is taken for one that has nothing to say.      *)
StillBody_Always(s) == writer[s].resp_body

(* Whether resp_body is still there after try_recv.                        *)
StillBody(s) ==
  writer[s].resp_body /\ (chan[serving[s]] # << >> \/ serving[s] \in sending)

(* One chunk, if there is one, into the buffer; one write of the buffer,   *)
(* which takes any part of it.                                             *)
WriteStream(s) ==
  /\ stage[s] = "writing"
  /\ LET r      == serving[s]
         part   == writer[s].resp_body /\ chan[r] # << >>
         buffer == writer[s].buffer \o (IF part THEN Head(chan[r]) ELSE << >>)
     IN \E n \in IF buffer = << >> THEN {0} ELSE 1 .. Len(buffer) :
          /\ out' = [out EXCEPT ![r] = @ \o First(buffer, n)]
          /\ chan' = IF part THEN [chan EXCEPT ![r] = Tail(@)] ELSE chan
          /\ receiving' = IF StillBody(s) THEN receiving ELSE receiving \ {r}
          /\ IF n = Len(buffer) /\ ~StillBody(s)
             THEN /\ stage' = [stage EXCEPT ![s] = IF kind[r].keep_alive THEN "idle" ELSE "closed"]
                  /\ writer' = [writer EXCEPT ![s] = NewWriter]
             ELSE /\ writer' = [writer EXCEPT ![s] =
                                  [buffer |-> Rest(buffer, n), resp_body |-> StillBody(s)]]
                  /\ UNCHANGED stage
  /\ UNCHANGED <<clientVars, taken, reader, serving, req_recv, threadVars, sending, due, yielded>>

-----------------------------------------------------------------------------
(* Nothing is under way, and the clients have no more to send.             *)
Quiet ==
  /\ thr = "recv" /\ req_recv = << >>
  /\ \A s \in Stream : stage[s] = "closed" \/ (stage[s] = "idle" /\ ~Readable(s))
  /\ UNCHANGED vars

App    == StartResponse \/ Read \/ ReadLine \/ ReadLines \/ ReadLinesTurn
Thread == \/ Take \/ App \/ CallRaises \/ NotStarted \/ CallReturns \/ FirstChunk \/ FirstRaises
          \/ NextChunk \/ NextRaises \/ NoMore \/ SendMemory

Next ==
  \/ Thread \/ Quiet
  \/ \E s \in Stream : \/ Send(s) \/ CloseWrite(s) \/ GiveUp(s) \/ TakeOn(s)
                       \/ ReadHeader(s) \/ ReadBody(s) \/ WriteStream(s)

Spec == Init /\ [][Next]_vars

(* Applications return, unless readlines does not, and their iterators end,*)
(* raising at most MaxRaises times; clients need do nothing.               *)
FairSpec == Spec /\ WF_vars(Thread)

(***************************************************************************)
(* Properties.                                                             *)
(***************************************************************************)

(* Every variable keeps its type, and a read is never made into an empty   *)
(* slice, which would look like the end of the stream.                     *)
TypeOK ==
  /\ \A s \in Stream : sent[s] \in Nat /\ taken[s] \in 0 .. sent[s]
  /\ eof \cup given_up \subseteq Stream /\ serving \in [Stream -> Request \cup {NONE}]
  /\ stage \in [Stream -> {"idle", "reading", "waiting", "writing", "closed"}]
  /\ \A s \in Stream :
       IF reader[s].have = NONE
       THEN Len(reader[s].bytes) < Grown(reader[s].size, Len(reader[s].bytes))
       ELSE Len(reader[s].bytes) < kind[reader[s].have].length
  /\ thr \in {"recv", "call", "first", "stream", "memory"}
  /\ cur \in Request \cup {NONE} /\ (cur = NONE <=> thr = "recv")
  /\ context \in Request \cup {NONE} /\ Len(response_header) <= 1 /\ Len(next_val) <= 1
  /\ Len(header) = (IF thr = "first" THEN 1 ELSE 0)
  /\ pos \in 0 .. Len(input) /\ in_readlines \in BOOLEAN
  /\ sending \subseteq Request /\ receiving \subseteq Request
  /\ due \in [Request -> Nat] /\ yielded \in [Request -> Nat]

(* What the application has decided that the client shall get.             *)
Due(r) == <<<<r, "header", due[r]>>>> \o [i \in 1 .. yielded[r] |-> <<r, "body", i>>]

(* What a client gets is the response of its own request, from the         *)
(* beginning, with nothing left out and nothing twice: the header given to *)
(* start_response last before the callable returned, or the 500, and each  *)
(* chunk yielded, those after an exception included; all of it when the    *)
(* stream is handed back (wsgi.rs:31-51, 121-141, pythonexec/mod.rs:91-131, *)
(* serverwriter.rs:33-67).                                                 *)
WholeResponses ==
  \A r \in Request :
    /\ out[r] # << >> => out[r] = First(Due(r), Len(out[r]))
    /\ \A s \in Stream :
         stage[s] \in {"idle", "closed"} /\ serving[s] = r /\ out[r] # << >> /\ s \notin given_up
           => out[r] = Due(r)

(* Each request that is executed has its own body, whole, and when a       *)
(* stream waits for its next request nothing of that has been taken: bytes *)
(* that come too early are an error and never lost (serverreader.rs:156-188). *)
RequestsFramed ==
  /\ \A i \in DOMAIN req_recv : req_recv[i].body = Body(req_recv[i].req)
  /\ thr # "recv" => input = Body(cur)
  /\ \A s \in Stream : stage[s] \in {"idle", "waiting", "writing"} =>
       taken[s] = IF serving[s] = NONE THEN 0 ELSE Len(Through(s, serving[s]))

(* While the application's code runs, the thread-local slots are those of  *)
(* its request: log lines carry its trace id, and no header of another     *)
(* request, one given too late for it included, is found                   *)
(* (reqlocal.rs:10-29, pythonexec/mod.rs:76-78, logger.rs:46).             *)
SlotsOwn ==
  thr # "recv" =>
    /\ context = cur
    /\ \A i \in DOMAIN response_header : response_header[i].req = cur

(* A client that has neither closed nor failed keeps its stream, unless it *)
(* asked for the end and has its whole response, or its request was not    *)
(* valid, or it sent more before the response.                             *)
NotCutOff ==
  \A s \in Stream : stage[s] = "closed" /\ s \notin eof \cup given_up =>
    LET r == serving[s]
    IN /\ r # NONE
       /\ \/ ~kind[r].valid
          \/ ~kind[r].keep_alive /\ out[r] = Due(r)
          \/ taken[s] > Len(Through(s, r))

(* A client that is slow or gone, and an iterator that raises now and then,*)
(* do not keep the thread from its next request (pythonexec/mod.rs:112-131).*)
(* Two things do keep it.  An iterator that raises for ever, which the loop *)
(* never leaves, is left out by MaxRaises; a readlines without a limit,    *)
(* which never returns, whatever doc/implementation.rst:46-47 says, by the *)
(* condition (wsgi.rs:314-330).                                            *)
CodeComesBack   == [](~in_readlines)
ThreadComesBack == CodeComesBack => []<>(thr = "recv")

(* A response ends once its client takes it, whether the sender of the     *)
(* body is dropped with the last chunk, later, or without any: the writer  *)
(* is not left waiting (serverwriter.rs:34-47, 60).  One of an application *)
(* that never comes back has no end.                                       *)
WritersGoOn == \A s \in Stream : WF_vars(WriteStream(s))
ResponsesEnd == CodeComesBack /\ WritersGoOn => []<>(\A s \in Stream : stage[s] # "writing")
=============================================================================
