------------------------------- MODULE Worker -------------------------------
(***************************************************************************)
(* One casket worker process: the event loop of src/worker/mod.rs, its     *)
(* poller (worker/poller.rs), its side of the unix stream (the             *)
(* WorkerMsgBuffer of msgs/mod.rs), and the python threads it hands        *)
(* requests to (worker/pythonthreads.rs, pythonexec/mod.rs).               *)
(*                                                                         *)
(* A token names one HTTP request of one client stream; the server never   *)
(* sends the same token twice.  A stream is identified with its token.     *)
(* Bytes, headers and bodies are left out: a read or a write of a client   *)
(* stream has one of the outcomes the code tells apart.                    *)
(***************************************************************************)
EXTENDS Integers, FiniteSets

CONSTANTS
  Token,              (* the requests the server may send to this worker     *)
  Thread,             (* python threads, CASKET_NUM_THREADS of them          *)
  MaxRequests,        (* cfg.max_requests                                    *)
  Faults,             (* what may go wrong, see FaultKinds                   *)
  NO_TOKEN,           (* Token(1) in the code: an event about no stream      *)
  UNIX_STREAM_TOKEN   (* Token(0) in the code                                *)

(* "client": a client stream fails, ends early or carries bad HTTP;        *)
(* "sigint": a signal interrupts the poll; "thread": a python thread       *)
(* panics; "registry": a mio register, reregister or deregister call       *)
(* fails; "io": poll or the unix stream fails.                             *)
FaultKinds == {"client", "sigint", "thread", "registry", "io"}

ASSUME TokenAssumption ==
  /\ NO_TOKEN \notin Token
  /\ UNIX_STREAM_TOKEN \notin Token
  /\ NO_TOKEN # UNIX_STREAM_TOKEN
  /\ IsFiniteSet(Token)
ASSUME ConfigAssumption == MaxRequests \in Nat /\ Faults \subseteq FaultKinds

VARIABLES
  (* the unix stream, and the server at its other end                      *)
  requested,       (* tokens the server has sent so far                      *)
  unix_in,         (* requests sent and not yet read by the worker           *)
  answered,        (* requests whose response the worker has written         *)
  (* run_worker                                                            *)
  loc,             (* where the loop is                                      *)
  closing,
  events,          (* events_buf                                             *)
  timeouts,        (* events_timeout_buf                                     *)
  results,         (* worker_results                                         *)
  reading,         (* server_reading_streams                                 *)
  pending,         (* server_pending_streams                                 *)
  writing,         (* server_writing_streams                                 *)
  casket,          (* server_casket_responses                                *)
  (* WorkerMsgBuffer                                                       *)
  stream_fds,      (* stream_fds paired with stream_msgs                     *)
  server_fds,
  write_buffer,
  (* Poller                                                                *)
  interest,        (* what epoll watches each client stream for              *)
  unix_writable,   (* whether the unix stream is watched for writing too     *)
  reg_read,        (* tokens with an entry in events_reg_read                *)
  reg_write,       (* the event events_reg_write holds for a token           *)
  timerq,
  (* PythonThreads                                                         *)
  queued_reqs,
  num_pending_reqs,
  timed_out_reqs,
  (* the python threads and the channels to and from them                  *)
  req_recv,        (* requests sent to each thread                           *)
  thread,          (* what each thread does                                  *)
  current,         (* the request it does it for                             *)
  code_start,      (* python_code_start_recv                                 *)
  resp             (* resp_recv                                              *)

unixVars   == <<requested, unix_in, answered>>
streamVars == <<reading, pending, writing, casket>>
msgVars    == <<stream_fds, server_fds, write_buffer>>
pollVars   == <<interest, unix_writable, reg_read, reg_write, timerq>>
queueVars  == <<queued_reqs, num_pending_reqs, timed_out_reqs>>
threadVars == <<req_recv, thread, current, code_start, resp>>
loopVars   == <<loc, closing, events, timeouts, results>>
vars == <<unixVars, loopVars, streamVars, msgVars, pollVars, queueVars, threadVars>>

-----------------------------------------------------------------------------
(* Events, results and timeouts are pairs <<token, kind>>.                 *)

Timer == {"RequestReadTimeout", "PythonCodeTimeout"}
StreamWrite == {"ServerStreamWrite", "CasketResponseWrite"}

(* events_buf is drained in order; Rank is the order the kinds are pushed  *)
(* in.  "TakeHttpResponses" is the second loop of take_responses.          *)
Rank == [NewStreamFd |-> 0, PollPythonResponses |-> 1, TakeHttpResponses |-> 2,
         QueuedRequests |-> 3, RequestReadTimeout |-> 4, PythonCodeTimeout |-> 4,
         CtrlC |-> 5, UnixStreamRead |-> 5, UnixStreamWrite |-> 5,
         ServerStreamRead |-> 5, ServerStreamWrite |-> 5, CasketResponseWrite |-> 5]

EventKind ==
  {"NewStreamFd", "PollPythonResponses", "TakeHttpResponses", "QueuedRequests", "CtrlC",
   "UnixStreamRead", "UnixStreamWrite", "ServerStreamRead"} \cup Timer \cup StreamWrite

ActionKind ==
  {"NewServerRequest", "ServerContinueRead", "ServerReadDone", "ServerStreamEOF",
   "ServerNewResponse", "ServerContinueWrite", "ServerDoneWrite",
   "ServerCasketResponseNew", "ServerCasketResponseContinue",
   "ServerCasketResponseDone", "ServerPythonCodeTimeoutNew", "Error"}

AnyToken == Token \cup {NO_TOKEN, UNIX_STREAM_TOKEN}
Response == [token : Token, keep_alive : BOOLEAN]
Stopped  == {"exited", "failed"}
Running  == loc \notin Stopped

(* Tokens named by the pairs of S that have one of these kinds.            *)
Of(S, kinds) == {tk \in Token : \E k \in kinds : <<tk, k>> \in S}

-----------------------------------------------------------------------------
Init ==
  /\ requested = {} /\ unix_in = {} /\ answered = {}
  /\ loc = "top" /\ closing = FALSE
  /\ events = {} /\ timeouts = {} /\ results = {}
  /\ reading = {} /\ pending = {} /\ writing = {} /\ casket = {}
  /\ stream_fds = {} /\ server_fds = {} /\ write_buffer = {}
  /\ interest = [tk \in Token |-> "none"] /\ unix_writable = FALSE
  /\ reg_read = {} /\ reg_write = [tk \in Token |-> "none"] /\ timerq = {}
  /\ queued_reqs = {} /\ num_pending_reqs = 0 /\ timed_out_reqs = {}
  /\ req_recv = [t \in Thread |-> {}]
  /\ thread = [t \in Thread |-> "recv"] /\ current = [t \in Thread |-> NO_TOKEN]
  /\ code_start = {} /\ resp = {}

-----------------------------------------------------------------------------
(* The server sends a request: token and descriptor.                       *)
Dispatch(tk) ==
  /\ Running
  /\ tk \notin requested
  /\ requested' = requested \cup {tk}
  /\ unix_in' = unix_in \cup {tk}
  /\ UNCHANGED <<answered, loopVars, streamVars, msgVars, pollVars, queueVars, threadVars>>

(* The loop moves to another place and does nothing else.                  *)
Goto(place) ==
  /\ loc' = place
  /\ UNCHANGED <<unixVars, closing, events, timeouts, results, streamVars, msgVars,
                 pollVars, queueVars, threadVars>>

-----------------------------------------------------------------------------
(* The top of the loop.                                                    *)

(* Mutant: the pending requests are not looked at.                         *)
MayExit_NoPending == closing /\ write_buffer = {} /\ queued_reqs = {} /\ writing = {}

MayExit ==
  /\ closing
  /\ write_buffer = {}
  /\ num_pending_reqs = 0
  /\ queued_reqs = {}
  /\ writing = {}

Exit == loc = "top" /\ MayExit /\ Goto("exited")

(* What the loop itself puts in events_buf before it polls.                *)
Gathered ==
  {<<tk, "NewStreamFd">> : tk \in stream_fds}
    \cup (IF num_pending_reqs > 0 THEN {<<NO_TOKEN, "PollPythonResponses">>} ELSE {})
    \cup (IF queued_reqs # {} THEN {<<NO_TOKEN, "QueuedRequests">>} ELSE {})

Watched == {tk \in Token : interest[tk] # "none"}

(* Those of them whose readiness has an event filed for it.                *)
Filed == {tk \in Watched : IF interest[tk] = "read" THEN tk \in reg_read
                                                   ELSE reg_write[tk] # "none"}

(* The event a readiness report of a client stream is looked up as.        *)
Fired(tk) == <<tk, IF interest[tk] = "read" THEN "ServerStreamRead" ELSE reg_write[tk]>>

UnixReady ==
  (IF unix_in # {} THEN {<<UNIX_STREAM_TOKEN, "UnixStreamRead">>} ELSE {})
    \cup (IF unix_writable THEN {<<UNIX_STREAM_TOKEN, "UnixStreamWrite">>} ELSE {})

(* One tick of the poller: the timers in expired are popped, then poll     *)
(* reports the client streams in ready and the events in others.  It       *)
(* blocks while there is no event at all.                                  *)
Gather(expired, ready, others) ==
  /\ loc = "top" /\ ~MayExit /\ loc' = "events"
  /\ events' = Gathered \cup expired \cup {Fired(tk) : tk \in ready} \cup others
  /\ events' # {}
  /\ server_fds' = server_fds \cup stream_fds
  /\ stream_fds' = {}
  /\ timerq' = timerq \ expired
  /\ reg_read' = {tk \in reg_read : ~(tk \in ready /\ interest[tk] = "read")}
  /\ reg_write' = [tk \in Token |-> IF tk \in ready /\ interest[tk] = "write"
                                    THEN "none" ELSE reg_write[tk]]
  /\ UNCHANGED <<unixVars, closing, timeouts, results, streamVars, write_buffer,
                 interest, unix_writable, queueVars, threadVars>>

Tick ==
  \E expired \in SUBSET timerq, ready \in SUBSET Filed, unix \in SUBSET UnixReady :
    Gather(expired, ready, unix)

(* A signal interrupts poll, which then reports nothing else.              *)
Interrupt ==
  /\ "sigint" \in Faults
  /\ \E expired \in SUBSET timerq : Gather(expired, {}, {<<UNIX_STREAM_TOKEN, "CtrlC">>})

PollFails == "io" \in Faults /\ loc = "top" /\ ~MayExit /\ Goto("failed")

-----------------------------------------------------------------------------
(* Draining events_buf.                                                    *)

First(tk, kind) ==
  /\ loc = "events"
  /\ <<tk, kind>> \in events
  /\ \A e \in events : Rank[kind] <= Rank[e[2]]

(* The loop takes the next event; what few handlers touch stays.           *)
Take(tk, kind) ==
  /\ First(tk, kind)
  /\ events' = events \ {<<tk, kind>>}
  /\ UNCHANGED <<requested, loc, server_fds, pollVars, thread, current>>

(* An event about one client stream.                                       *)
TakeStream(tk, kind) ==
  /\ Take(tk, kind)
  /\ UNCHANGED <<unix_in, answered, closing, stream_fds, write_buffer, queueVars,
                 req_recv, code_start, resp>>

(* A new stream is refused when too many requests are with the threads.    *)
NewStreamFd(tk) ==
  /\ TakeStream(tk, "NewStreamFd")
  /\ results' = results \cup
       {<<tk, IF num_pending_reqs >= MaxRequests
              THEN "ServerCasketResponseNew" ELSE "NewServerRequest">>}
  /\ UNCHANGED <<timeouts, streamVars>>

Outcome(tk, act) ==
  /\ act \in {"ServerStreamEOF", "Error"} => "client" \in Faults
  /\ results' = results \cup {<<tk, act>>}

ServerStreamRead(tk) ==
  /\ TakeStream(tk, "ServerStreamRead")
  /\ tk \in reading
  /\ reading' = reading \ {tk}
  /\ \E act \in {"ServerContinueRead", "ServerReadDone", "ServerStreamEOF", "Error"} :
       Outcome(tk, act)
  /\ UNCHANGED <<timeouts, pending, writing, casket>>

(* The writer is done only when the sender of the body has been dropped:   *)
(* no thread is at work on the request any more.                           *)
ServerStreamWrite(tk) ==
  /\ TakeStream(tk, "ServerStreamWrite")
  /\ tk \in writing
  /\ writing' = writing \ {tk}
  /\ \E act \in {"ServerContinueWrite", "ServerDoneWrite", "Error"} :
       /\ act = "ServerDoneWrite" => \A t \in Thread : current[t] # tk
       /\ Outcome(tk, act)
  /\ UNCHANGED <<timeouts, reading, pending, casket>>

CasketResponseWrite(tk) ==
  /\ TakeStream(tk, "CasketResponseWrite")
  /\ tk \in casket
  /\ casket' = casket \ {tk}
  /\ \E act \in {"ServerCasketResponseContinue", "ServerCasketResponseDone", "Error"} :
       Outcome(tk, act)
  /\ UNCHANGED <<timeouts, reading, pending, writing>>

(* A timer is set aside until the other results have been acted on.        *)
TimerEvent(tk, timer) ==
  /\ TakeStream(tk, timer)
  /\ timeouts' = timeouts \cup {<<tk, timer>>}
  /\ UNCHANGED <<results, streamVars>>

CtrlC ==
  /\ Take(UNIX_STREAM_TOKEN, "CtrlC")
  /\ closing' = TRUE
  /\ UNCHANGED <<unix_in, answered, timeouts, results, streamVars, stream_fds,
                 write_buffer, queueVars, req_recv, code_start, resp>>

(* One read takes some of the requests that have arrived.                  *)
UnixStreamRead ==
  /\ Take(UNIX_STREAM_TOKEN, "UnixStreamRead")
  /\ \E got \in SUBSET unix_in \ {{}} :
       /\ unix_in' = unix_in \ got
       /\ stream_fds' = stream_fds \cup got
  /\ UNCHANGED <<answered, closing, timeouts, results, streamVars, write_buffer,
                 queueVars, req_recv, code_start, resp>>

(* Mutant: the bytes that were written stay in the buffer.                 *)
UnixStreamWrite_NoTruncate ==
  /\ Take(UNIX_STREAM_TOKEN, "UnixStreamWrite")
  /\ answered' = answered \cup {r.token : r \in write_buffer}
  /\ UNCHANGED <<unix_in, closing, timeouts, results, streamVars, stream_fds, write_buffer,
                 queueVars, req_recv, code_start, resp>>

(* One write sends some of the buffered responses.                         *)
UnixStreamWrite ==
  /\ Take(UNIX_STREAM_TOKEN, "UnixStreamWrite")
  /\ \E sent \in SUBSET write_buffer \ {{}} :
       /\ write_buffer' = write_buffer \ sent
       /\ answered' = answered \cup {r.token : r \in sent}
  /\ UNCHANGED <<unix_in, closing, timeouts, results, streamVars, stream_fds,
                 queueVars, req_recv, code_start, resp>>

(* An i/o error on the unix stream ends the worker.                        *)
UnixStreamFails ==
  /\ "io" \in Faults
  /\ \E kind \in {"UnixStreamRead", "UnixStreamWrite"} : First(UNIX_STREAM_TOKEN, kind)
  /\ Goto("failed")

(* Mutant: the 504 timer is asked for when the request is queued for the   *)
(* thread, not when its code starts.                                       *)
SendQueuedRequest_StartsTimer(tk, t) ==
  /\ First(NO_TOKEN, "QueuedRequests")
  /\ tk \in queued_reqs
  /\ thread[t] # "dead"
  /\ queued_reqs' = queued_reqs \ {tk}
  /\ req_recv' = [req_recv EXCEPT ![t] = @ \cup {tk}]
  /\ num_pending_reqs' = num_pending_reqs + 1
  /\ code_start' = code_start \cup {tk}
  /\ events' = IF queued_reqs' = {} THEN events \ {<<NO_TOKEN, "QueuedRequests">>} ELSE events
  /\ UNCHANGED <<unixVars, loc, closing, timeouts, results, streamVars, msgVars, pollVars,
                 timed_out_reqs, thread, current, resp>>

(* The loop of send_queued_requests, one request at a time: it goes to a   *)
(* thread whose receiver still exists.                                     *)
SendQueuedRequest(tk, t) ==
  /\ First(NO_TOKEN, "QueuedRequests")
  /\ tk \in queued_reqs
  /\ thread[t] # "dead"
  /\ queued_reqs' = queued_reqs \ {tk}
  /\ req_recv' = [req_recv EXCEPT ![t] = @ \cup {tk}]
  /\ num_pending_reqs' = num_pending_reqs + 1
  /\ events' = IF queued_reqs' = {} THEN events \ {<<NO_TOKEN, "QueuedRequests">>} ELSE events
  /\ UNCHANGED <<unixVars, loc, closing, timeouts, results, streamVars, msgVars, pollVars,
                 timed_out_reqs, thread, current, code_start, resp>>

ThreadsDead == \A t \in Thread : thread[t] = "dead"

(* take_responses, first loop.  With every thread dead the channel is      *)
(* disconnected.                                                           *)
TakeCodeStarts ==
  /\ First(NO_TOKEN, "PollPythonResponses")
  /\ ~ThreadsDead
  /\ events' = (events \ {<<NO_TOKEN, "PollPythonResponses">>})
                 \cup {<<NO_TOKEN, "TakeHttpResponses">>}
  /\ results' = results \cup {<<tk, "ServerPythonCodeTimeoutNew">> : tk \in code_start}
  /\ code_start' = {}
  /\ UNCHANGED <<unixVars, loc, closing, timeouts, streamVars, msgVars, pollVars, queueVars,
                 req_recv, thread, current, resp>>

(* Mutant: only a response that is passed on lowers the count.             *)
TakeHttpResponses_LateNotCounted ==
  /\ Take(NO_TOKEN, "TakeHttpResponses")
  /\ ~ThreadsDead
  /\ results' = results \cup {<<tk, "ServerNewResponse">> : tk \in resp \ timed_out_reqs}
  /\ timed_out_reqs' = timed_out_reqs \ resp
  /\ num_pending_reqs' = num_pending_reqs - Cardinality(resp \ timed_out_reqs)
  /\ resp' = {}
  /\ UNCHANGED <<unix_in, answered, closing, timeouts, streamVars, stream_fds,
                 write_buffer, queued_reqs, req_recv, code_start>>

(* take_responses, second loop: the responses to requests that were        *)
(* answered with a 504 are thrown away.                                    *)
TakeHttpResponses ==
  /\ Take(NO_TOKEN, "TakeHttpResponses")
  /\ ~ThreadsDead
  /\ results' = results \cup {<<tk, "ServerNewResponse">> : tk \in resp \ timed_out_reqs}
  /\ timed_out_reqs' = timed_out_reqs \ resp
  /\ num_pending_reqs' = num_pending_reqs - Cardinality(resp)
  /\ resp' = {}
  /\ UNCHANGED <<unix_in, answered, closing, timeouts, streamVars, stream_fds,
                 write_buffer, queued_reqs, req_recv, code_start>>

(* RuntimeError::PythonThreadsDied, from either function.                  *)
PythonThreadsDied ==
  /\ \E kind \in {"PollPythonResponses", "TakeHttpResponses", "QueuedRequests"} :
       First(NO_TOKEN, kind)
  /\ ThreadsDead
  /\ Goto("failed")

-----------------------------------------------------------------------------
(* handle_action and handle_error, for the results of the events and then  *)
(* for those of the timeouts.                                              *)

TakeResult(tk, act) ==
  /\ loc \in {"results", "timeoutResults"}
  /\ <<tk, act>> \in results
  /\ results' = results \ {<<tk, act>>}
  /\ UNCHANGED <<unixVars, loc, closing, events, timeouts, stream_fds, unix_writable,
                 num_pending_reqs, timed_out_reqs, threadVars>>

(* The resp_ functions: the server gets its descriptor back.               *)
Answer(tk, keep_alive) ==
  /\ tk \in server_fds
  /\ server_fds' = server_fds \ {tk}
  /\ write_buffer' = write_buffer \cup {[token |-> tk, keep_alive |-> keep_alive]}

NoAnswer == UNCHANGED <<server_fds, write_buffer>>

Watch(tk, for) == interest' = [interest EXCEPT ![tk] = for]

(* A call of the mio registry: it succeeds, and epoll watches the stream   *)
(* for something; or it fails, which leaves the stream unwatched and the   *)
(* request answered with an error.                                         *)
Registry(tk, for, ok) ==
  IF ok THEN Watch(tk, for) /\ NoAnswer
        ELSE "registry" \in Faults /\ Watch(tk, "none") /\ Answer(tk, FALSE)

AddIf(ok, S, e) == IF ok THEN S \cup {e} ELSE S

(* Mutant: the stream is registered and its event is not filed.            *)
RegisterRead_NotFiled(tk, ok) ==
  /\ Registry(tk, "read", ok)
  /\ UNCHANGED <<reg_read, reg_write, pending, writing, casket, queued_reqs>>

(* register_read, reregister_read, and the write ones: the event is filed  *)
(* before the call that may fail.                                          *)
RegisterRead(tk, ok) ==
  /\ reg_read' = reg_read \cup {tk}
  /\ Registry(tk, "read", ok)
  /\ UNCHANGED <<reg_write, pending, writing, casket, queued_reqs>>

(* Mutant: the event of the read map is filed.                             *)
RegisterWrite_ReadEvent(tk, event, ok) ==
  /\ reg_write' = [reg_write EXCEPT ![tk] = "ServerStreamRead"]
  /\ Registry(tk, "write", ok)
  /\ UNCHANGED <<reg_read, timerq, reading, queued_reqs>>

RegisterWrite(tk, event, ok) ==
  /\ reg_write' = [reg_write EXCEPT ![tk] = event]
  /\ Registry(tk, "write", ok)
  /\ UNCHANGED <<reg_read, timerq, reading, queued_reqs>>

NewServerRequest(tk) ==
  /\ TakeResult(tk, "NewServerRequest")
  /\ \E ok \in BOOLEAN :
       /\ RegisterRead(tk, ok)
       /\ timerq' = AddIf(ok, timerq, <<tk, "RequestReadTimeout">>)
       /\ reading' = AddIf(ok, reading, tk)

(* Mutant: the return after the failed call is missing.                    *)
ServerContinueRead_NoReturn(tk) ==
  /\ TakeResult(tk, "ServerContinueRead")
  /\ \E ok \in BOOLEAN : RegisterRead(tk, ok) /\ reading' = reading \cup {tk}
  /\ UNCHANGED timerq

ServerContinueRead(tk) ==
  /\ TakeResult(tk, "ServerContinueRead")
  /\ \E ok \in BOOLEAN : RegisterRead(tk, ok) /\ reading' = AddIf(ok, reading, tk)
  /\ UNCHANGED timerq

(* The whole request has arrived: queue it for the threads.                *)
ServerReadDone(tk) ==
  /\ TakeResult(tk, "ServerReadDone")
  /\ \E ok \in BOOLEAN :
       /\ Registry(tk, "none", ok)
       /\ queued_reqs' = AddIf(ok, queued_reqs, tk)
       /\ pending' = AddIf(ok, pending, tk)
  /\ UNCHANGED <<reg_read, reg_write, timerq, reading, writing, casket>>

ServerNewResponse(tk) ==
  /\ TakeResult(tk, "ServerNewResponse")
  /\ tk \in pending
  /\ pending' = pending \ {tk}
  /\ \E ok \in BOOLEAN :
       RegisterWrite(tk, "ServerStreamWrite", ok) /\ writing' = AddIf(ok, writing, tk)
  /\ UNCHANGED casket

ServerContinueWrite(tk) ==
  /\ TakeResult(tk, "ServerContinueWrite")
  /\ \E ok \in BOOLEAN :
       RegisterWrite(tk, "ServerStreamWrite", ok) /\ writing' = AddIf(ok, writing, tk)
  /\ UNCHANGED <<pending, casket>>

(* An answer casket writes itself: 408, 503 or 504.                        *)
CasketResponse(tk, act) ==
  /\ TakeResult(tk, act)
  /\ \E ok \in BOOLEAN :
       RegisterWrite(tk, "CasketResponseWrite", ok) /\ casket' = AddIf(ok, casket, tk)
  /\ UNCHANGED <<pending, writing>>

ServerCasketResponseNew(tk) == CasketResponse(tk, "ServerCasketResponseNew")
ServerCasketResponseContinue(tk) == CasketResponse(tk, "ServerCasketResponseContinue")

(* The stream is deregistered and handed back; if that fails it is handed  *)
(* back as an error, which never keeps the connection alive.               *)
HandBack(tk, act, keep_alive) ==
  /\ TakeResult(tk, act)
  /\ Answer(tk, keep_alive)
  /\ Watch(tk, "none")
  /\ UNCHANGED <<streamVars, reg_read, reg_write, timerq, queued_reqs>>

ServerStreamEOF(tk) == HandBack(tk, "ServerStreamEOF", FALSE)
ServerDoneWrite(tk) == \E keep_alive \in BOOLEAN : HandBack(tk, "ServerDoneWrite", keep_alive)
ServerCasketResponseDone(tk) == HandBack(tk, "ServerCasketResponseDone", FALSE)
HandleError(tk) == HandBack(tk, "Error", FALSE)

(* Mutant: the timer raises the event of the other timeout.                *)
ServerPythonCodeTimeoutNew_ReadTimer(tk) ==
  /\ TakeResult(tk, "ServerPythonCodeTimeoutNew")
  /\ timerq' = timerq \cup {<<tk, "RequestReadTimeout">>}
  /\ UNCHANGED <<streamVars, server_fds, write_buffer, interest, reg_read, reg_write,
                 queued_reqs>>

ServerPythonCodeTimeoutNew(tk) ==
  /\ TakeResult(tk, "ServerPythonCodeTimeoutNew")
  /\ timerq' = timerq \cup {<<tk, "PythonCodeTimeout">>}
  /\ UNCHANGED <<streamVars, server_fds, write_buffer, interest, reg_read, reg_write,
                 queued_reqs>>

-----------------------------------------------------------------------------
(* The timeouts, after the results of the same round.                      *)

TakeTimeout(tk, timer) ==
  /\ loc = "timeouts"
  /\ <<tk, timer>> \in timeouts
  /\ timeouts' = timeouts \ {<<tk, timer>>}
  /\ UNCHANGED <<unixVars, loc, closing, events, writing, casket, msgVars, unix_writable,
                 reg_read, reg_write, timerq, queued_reqs, num_pending_reqs, threadVars>>

(* A timer whose request has moved on does nothing.                        *)
TimeoutIgnored(tk, timer) ==
  /\ TakeTimeout(tk, timer)
  /\ tk \notin (IF timer = "RequestReadTimeout" THEN reading ELSE pending)
  /\ UNCHANGED <<results, reading, pending, interest, timed_out_reqs>>

RequestReadTimeout(tk) ==
  /\ TakeTimeout(tk, "RequestReadTimeout")
  /\ tk \in reading
  /\ reading' = reading \ {tk}
  /\ Watch(tk, "none")
  /\ results' = results \cup {<<tk, "ServerCasketResponseNew">>}
  /\ UNCHANGED <<pending, timed_out_reqs>>

(* Mutant: timeout_request is not called.                                  *)
PythonCodeTimeout_NotRemembered(tk) ==
  /\ TakeTimeout(tk, "PythonCodeTimeout")
  /\ tk \in pending
  /\ pending' = pending \ {tk}
  /\ results' = results \cup {<<tk, "ServerCasketResponseNew">>}
  /\ UNCHANGED <<reading, timed_out_reqs, interest>>

PythonCodeTimeout(tk) ==
  /\ TakeTimeout(tk, "PythonCodeTimeout")
  /\ tk \in pending
  /\ pending' = pending \ {tk}
  /\ timed_out_reqs' = timed_out_reqs \cup {tk}
  /\ results' = results \cup {<<tk, "ServerCasketResponseNew">>}
  /\ UNCHANGED <<reading, interest>>

-----------------------------------------------------------------------------
(* Mutant: the timeouts are handled before the results.                    *)
NextPhase_TimeoutsFirst ==
  \/ loc = "events" /\ events = {} /\ Goto("timeouts")
  \/ loc = "timeouts" /\ timeouts = {} /\ Goto("results")
  \/ loc = "results" /\ results = {} /\ Goto("timeoutResults")

(* The loop moves on when a buffer has been drained.                       *)
NextPhase ==
  \/ loc = "events" /\ events = {} /\ Goto("results")
  \/ loc = "results" /\ results = {} /\ Goto("timeouts")
  \/ loc = "timeouts" /\ timeouts = {} /\ Goto("timeoutResults")

(* Mutant: the unix stream is never watched for writing.                   *)
EndRound_ReadOnly ==
  /\ loc = "timeoutResults" /\ results = {}
  /\ loc' = "top"
  /\ UNCHANGED <<unixVars, closing, events, timeouts, results, streamVars, msgVars,
                 interest, unix_writable, reg_read, reg_write, timerq, queueVars, threadVars>>

(* End of the round: watch the unix stream for reading, and for writing if *)
(* there is something to write.                                            *)
EndRound ==
  /\ loc = "timeoutResults" /\ results = {}
  /\ loc' = "top"
  /\ unix_writable' = (write_buffer # {})
  /\ UNCHANGED <<unixVars, closing, events, timeouts, results, streamVars, msgVars,
                 interest, reg_read, reg_write, timerq, queueVars, threadVars>>

(* The two registry calls whose failure ends the worker: deregister on a   *)
(* read timeout, and the one on the unix stream.                           *)
RegistryFails ==
  /\ "registry" \in Faults
  /\ \/ loc = "timeouts"
        /\ \E tk \in reading : <<tk, "RequestReadTimeout">> \in timeouts
     \/ loc = "timeoutResults" /\ results = {}
  /\ Goto("failed")

-----------------------------------------------------------------------------
(* A python thread: the loop of pythonexec::run.                           *)

ThreadStep(t, from, to) ==
  /\ Running
  /\ thread[t] = from
  /\ thread' = [thread EXCEPT ![t] = to]
  /\ UNCHANGED <<unixVars, loopVars, streamVars, msgVars, pollVars, queueVars>>

(* Take a request and announce that its code starts.                       *)
CodeStart(t, tk) ==
  /\ ThreadStep(t, "recv", "execute")
  /\ tk \in req_recv[t]
  /\ req_recv' = [req_recv EXCEPT ![t] = @ \ {tk}]
  /\ current' = [current EXCEPT ![t] = tk]
  /\ code_start' = code_start \cup {tk}
  /\ UNCHANGED resp

(* The application has returned, or raised: send the response header.      *)
SendResponse(t) ==
  /\ ThreadStep(t, "execute", "stream")
  /\ resp' = resp \cup {current[t]}
  /\ UNCHANGED <<req_recv, current, code_start>>

(* The body has been streamed and its sender is dropped.                   *)
BodyDone(t) ==
  /\ ThreadStep(t, "stream", "recv")
  /\ current' = [current EXCEPT ![t] = NO_TOKEN]
  /\ UNCHANGED <<req_recv, code_start, resp>>

(* A panic drops the thread's receiver with the requests in it.            *)
ThreadDies(t) ==
  /\ "thread" \in Faults
  /\ \E from \in {"execute", "stream"} : ThreadStep(t, from, "dead")
  /\ current' = [current EXCEPT ![t] = NO_TOKEN]
  /\ req_recv' = [req_recv EXCEPT ![t] = {}]
  /\ UNCHANGED <<code_start, resp>>

-----------------------------------------------------------------------------
(* The worker has stopped, or every request there can be has been answered *)
(* and it blocks in poll: nothing else may stop it.                        *)
Stop ==
  /\ ~Running \/ (loc = "top" /\ answered = Token)
  /\ UNCHANGED vars

Poll == Tick \/ Interrupt

OnEvent ==
  \/ CtrlC \/ UnixStreamRead \/ UnixStreamWrite \/ UnixStreamFails
  \/ TakeCodeStarts \/ TakeHttpResponses \/ PythonThreadsDied
  \/ \E tk \in Token, t \in Thread : SendQueuedRequest(tk, t)
  \/ \E tk \in Token :
       \/ NewStreamFd(tk) \/ ServerStreamRead(tk) \/ ServerStreamWrite(tk)
       \/ CasketResponseWrite(tk)
       \/ \E timer \in Timer : TimerEvent(tk, timer)

OnResult ==
  \E tk \in Token :
    \/ NewServerRequest(tk) \/ ServerContinueRead(tk) \/ ServerReadDone(tk)
    \/ ServerStreamEOF(tk) \/ ServerNewResponse(tk) \/ ServerContinueWrite(tk)
    \/ ServerDoneWrite(tk) \/ ServerCasketResponseNew(tk)
    \/ ServerCasketResponseContinue(tk) \/ ServerCasketResponseDone(tk)
    \/ ServerPythonCodeTimeoutNew(tk) \/ HandleError(tk)

OnTimeout ==
  \E tk \in Token :
    \/ RequestReadTimeout(tk) \/ PythonCodeTimeout(tk)
    \/ \E timer \in Timer : TimeoutIgnored(tk, timer)

Loop ==
  \/ Exit \/ Poll \/ PollFails \/ OnEvent \/ OnResult \/ OnTimeout
  \/ NextPhase \/ EndRound \/ RegistryFails

Threads ==
  \E t \in Thread :
    \/ SendResponse(t) \/ BodyDone(t) \/ ThreadDies(t)
    \/ \E tk \in Token : CodeStart(t, tk)

Next == Loop \/ Threads \/ (\E tk \in Token : Dispatch(tk)) \/ Stop

Spec == Init /\ [][Next]_vars

(***************************************************************************)
(* Safety.                                                                 *)
(***************************************************************************)

(* Every variable of the worker keeps its type.  num_pending_reqs is a     *)
(* usize; that it never underflows is the last conjunct of ExpectsHold.    *)
TypeOK ==
  /\ requested \subseteq Token /\ unix_in \subseteq Token /\ answered \subseteq Token
  /\ loc \in {"top", "events", "results", "timeouts", "timeoutResults"} \cup Stopped
  /\ closing \in BOOLEAN
  /\ events \subseteq AnyToken \X EventKind
  /\ timeouts \subseteq Token \X Timer
  /\ results \subseteq Token \X ActionKind
  /\ reading \subseteq Token /\ pending \subseteq Token
  /\ writing \subseteq Token /\ casket \subseteq Token
  /\ stream_fds \subseteq Token /\ server_fds \subseteq Token
  /\ write_buffer \subseteq Response
  /\ interest \in [Token -> {"none", "read", "write"}]
  /\ unix_writable \in BOOLEAN
  /\ reg_read \subseteq Token
  /\ reg_write \in [Token -> {"none"} \cup StreamWrite]
  /\ timerq \subseteq Token \X Timer
  /\ queued_reqs \subseteq Token /\ num_pending_reqs \in Int
  /\ timed_out_reqs \subseteq Token
  /\ req_recv \in [Thread -> SUBSET Token]
  /\ thread \in [Thread -> {"recv", "execute", "stream", "dead"}]
  /\ current \in [Thread -> Token \cup {NO_TOKEN}]
  /\ \A t \in Thread : thread[t] \in {"execute", "stream"} <=> current[t] # NO_TOKEN
  /\ code_start \subseteq Token /\ resp \subseteq Token

(* The results that own a client stream; the others only name its token.   *)
StreamAction == ActionKind \ {"ServerNewResponse", "ServerPythonCodeTimeoutNew"}

(* Where the worker keeps the client streams it has taken on.              *)
Place == [arrived |-> Of(events, {"NewStreamFd"}), reading |-> reading,
          pending |-> pending, writing |-> writing, casket |-> casket,
          acted |-> Of(results, StreamAction)]

(* Each stream the worker owes an answer for is in exactly one place, and  *)
(* nothing else is: no stream is dropped without an answer, none is held   *)
(* twice (worker/mod.rs:38-41, msgs/mod.rs:119).                           *)
OneOwner ==
  Running =>
    /\ server_fds = UNION {Place[p] : p \in DOMAIN Place}
    /\ \A p, q \in DOMAIN Place : p # q => Place[p] \cap Place[q] = {}
    /\ \A r, s \in results :
         r[1] = s[1] /\ r[2] \in StreamAction /\ s[2] \in StreamAction => r = s

(* No expect of the loop panics: an event or a result about a stream finds *)
(* it in the map it looks in, a readiness report finds its event, an       *)
(* answer finds its descriptor, and the pending count covers the responses *)
(* (worker/mod.rs:131,143,154,280, poller.rs:92,100, msgs/mod.rs:217-265,  *)
(* pythonthreads.rs:90).                                                   *)
ExpectsHold ==
  Running =>
    /\ Of(events, {"ServerStreamRead"}) \subseteq reading
    /\ Of(events, {"ServerStreamWrite"}) \subseteq writing
    /\ Of(events, {"CasketResponseWrite"}) \subseteq casket
    /\ Of(results, {"ServerNewResponse"}) \subseteq pending
    /\ Of(results, StreamAction) \cup pending \subseteq server_fds
    /\ loc = "top" => Watched = Filed
    /\ Cardinality(resp) <= num_pending_reqs

Buffered == {r.token : r \in write_buffer}

(* Every request the server has sent is on its way in, or held, or has     *)
(* been answered once: none is lost, answered twice, or answered while it  *)
(* is still held, whatever timeouts and late responses do.                 *)
RequestsAccounted ==
  /\ requested = unix_in \cup stream_fds \cup server_fds \cup Buffered \cup answered
  /\ unix_in \cap stream_fds = {}
  /\ (unix_in \cup stream_fds) \cap server_fds = {}
  /\ (unix_in \cup stream_fds \cup server_fds) \cap (Buffered \cup answered) = {}
  /\ Buffered \cap answered = {}
  /\ \A r, s \in write_buffer : r.token = s.token => r = s

(* Requests sent to the threads whose response has not been taken yet,     *)
(* as the main loop knows them.                                            *)
Outstanding ==
  ((pending \ queued_reqs) \ Of(results, {"ServerNewResponse"})) \cup timed_out_reqs

(* The same requests, as they are with the threads and in the channel.     *)
WithThreads ==
  resp \cup (UNION {req_recv[t] : t \in Thread})
       \cup {current[t] : t \in {u \in Thread : thread[u] = "execute"}}

(* num_pending_reqs counts them, timed out ones included: a 504 does not   *)
(* free the slot, the late response does (pythonthreads.rs:64-66, 82-90).  *)
PendingAccounting == num_pending_reqs = Cardinality(Outstanding)

(* The threads never hold a request the loop has forgotten, and as long as *)
(* no thread has died the two views agree: a response is taken once, and a *)
(* request that timed out is remembered until its response is taken.       *)
ThreadsAgree ==
  /\ WithThreads \subseteq Outstanding
  /\ (\A t \in Thread : thread[t] # "dead") => WithThreads = Outstanding

(* When a worker has exited, no request waits for a thread, no callable is *)
(* being executed for one, timed out or not, every response of a callable  *)
(* has been written or given up, and the answers of all these streams have *)
(* been sent to the server (worker/mod.rs:72-79).  It says nothing of a    *)
(* thread that still asks an iterator for the chunks of a client that has  *)
(* gone (pythonexec/mod.rs:118-133), nor of the 408, 503 and 504, which    *)
(* the exit leaves unsent: see ActiveRequestsFinish.                       *)
ExitedIdle ==
  loc = "exited" =>
    /\ queued_reqs \cup pending \cup writing \cup timed_out_reqs = {}
    /\ write_buffer = {}
    /\ \A t \in Thread : thread[t] # "execute"

(***************************************************************************)
(* What the documentation says and the code does not do.                   *)
(***************************************************************************)

(* doc/configuration.rst:60-66: a worker queues at most                    *)
(* CASKET_MAX_REQUESTS requests for the threads, and answers 503 beyond.   *)
(* The code compares num_pending_reqs with the limit when a stream         *)
(* arrives, before its request is read (worker/mod.rs:121).                *)
AtMostMaxRequests == num_pending_reqs <= MaxRequests

(* doc/configuration.rst:194-195: on SIGINT the active requests are        *)
(* finished before the process exits.  The exit test does not look at the  *)
(* 408, 503 and 504 responses being written (worker/mod.rs:72-79).         *)
ActiveRequestsFinish == loc = "exited" => casket = {}

(***************************************************************************)
(* Liveness.                                                               *)
(***************************************************************************)

Popped(timer) == timer \in timerq /\ Poll /\ timer \notin timerq'
Reported(tk) ==
  /\ loc = "top" /\ interest[tk] = "write"
  /\ Poll
  /\ \E event \in StreamWrite : <<tk, event>> \in events'
Completed(tk) ==
  \A act \in {"ServerContinueWrite", "ServerCasketResponseContinue"} :
    <<tk, act>> \notin results'
UnixReported(event) == event \in UnixReady /\ Poll /\ event \in events'

(* The loop is one OS thread: it goes on while it has something to do, and *)
(* poll returns after 20 ms when events were gathered before it, when the  *)
(* first timer is due, and when the unix stream is ready.                  *)
LoopFairness ==
  /\ WF_vars(OnEvent \/ OnResult \/ OnTimeout \/ NextPhase \/ EndRound \/ Exit)
  /\ WF_vars(Gathered # {} /\ Poll)
  /\ \A timer \in Token \X Timer : SF_vars(Popped(timer))
  /\ SF_vars(UnixReported(<<UNIX_STREAM_TOKEN, "UnixStreamRead">>))
  /\ SF_vars(UnixReported(<<UNIX_STREAM_TOKEN, "UnixStreamWrite">>))

(* A python thread takes its next request; the application returns and     *)
(* ends its response body.                                                 *)
ThreadFairness ==
  \A t \in Thread :
    WF_vars(SendResponse(t) \/ BodyDone(t) \/ \E tk \in Token : CodeStart(t, tk))

(* A client takes what is written to it, or its stream fails.              *)
ClientFairness ==
  \A tk \in Token :
    /\ SF_vars(Reported(tk))
    /\ SF_vars((ServerStreamWrite(tk) \/ CasketResponseWrite(tk)) /\ Completed(tk))

(* The loop alone: clients and applications may be silent for ever.        *)
LoopSpec == Spec /\ LoopFairness
FairSpec == Spec /\ LoopFairness /\ ThreadFairness /\ ClientFairness

Waiting(tk) == tk \in queued_reqs \/ \E t \in Thread : tk \in req_recv[t]

(* A client that never completes its request, sending nothing or a byte at *)
(* a time, does not keep its stream in the reading map: the 408 timer ends *)
(* the read (worker/mod.rs:175-181, 233-237).                              *)
EveryReadEnds == <>[](Running => reading = {})

(* Python code that never returns does not keep its client waiting: a      *)
(* request a thread has started leaves the pending map, by its response or *)
(* by the 504 (worker/mod.rs:183-188, 380-384).                            *)
EveryStartedRequestEnds == <>[](Running => \A tk \in pending : Waiting(tk))

(* A thread has died, and another lives.                                   *)
SomeThreadDead == ~ThreadsDead /\ \E t \in Thread : thread[t] = "dead"

(* When clients read and applications return, the worker catches up again  *)
(* and again: every request sent is answered, whatever i/o and registry    *)
(* calls fail, unless it is told to close, or some thread dies with a      *)
(* request queued for it, for which no timer has been armed; when all are  *)
(* dead it stops.                                                          *)
EveryRequestAnswered ==
  []<>(requested \subseteq answered \/ closing \/ ~Running \/ SomeThreadDead)

(* A worker that has noticed SIGINT exits once its work is done, whatever  *)
(* the server still sends it (worker/mod.rs:72-79).  The requests of a     *)
(* thread that has died stay counted, and while another thread lives they  *)
(* keep the worker from exiting.                                           *)
ClosingExits == closing ~> (~Running \/ SomeThreadDead)
=============================================================================
