------------------------------- MODULE Server -------------------------------
(***************************************************************************)
(* The casket server process: the event loop of src/server/mod.rs, its     *)
(* side of the unix streams (server/unixstreams.rs and the ServerMsgBuffer *)
(* of msgs/mod.rs), and the SIGINT handler of main.rs.                     *)
(*                                                                         *)
(* Its environment is modelled by what the server can see of it: clients   *)
(* connect and send; workers read requests and answer them; mio is edge    *)
(* triggered, and reports a source once for each change of its state.      *)
(***************************************************************************)
EXTENDS Integers, FiniteSets

CONSTANTS
  Client,               (* client streams, each connects once                *)
  NumWorkers,           (* cfg.num_workers                                   *)
  MaxConns,             (* cfg.max_conns                                     *)
  NEW_STREAM_COUNT_INC, KEEP_ALIVE_COUNT_INC,
  FdQueue,              (* descriptors one write of a unix stream can carry  *)
  ReadMax,              (* answers one read of a unix stream can take        *)
  KeepAliveBound,       (* bound: answers that keep one stream alive         *)
  SigintBound,          (* bound: signals sent                               *)
  Faults                (* what may go wrong, see FaultKinds                 *)

(* "registry": a call of mio or accept fails; "poll": poll fails without     *)
(* a signal; "worker": a worker process ends.                              *)
FaultKinds == {"registry", "poll", "worker"}

ASSUME ServerAssumption ==
  /\ IsFiniteSet(Client)
  /\ NumWorkers \in Nat \ {0} /\ MaxConns \in Nat
  /\ KEEP_ALIVE_COUNT_INC \in Nat \ {0}
  /\ NEW_STREAM_COUNT_INC \in Nat /\ NEW_STREAM_COUNT_INC > NumWorkers
  /\ FdQueue \in Nat \ {0} /\ ReadMax \in Nat \ {0}
  /\ KeepAliveBound \in Nat /\ SigintBound \in Nat
  /\ KeepAliveBound * KEEP_ALIVE_COUNT_INC < NEW_STREAM_COUNT_INC
  /\ Faults \subseteq FaultKinds

VARIABLES
  (* clients and the kernel                                                *)
  client,          (* "new", "backlog", "open" or "closed"                   *)
  readable,        (* clients that have sent something nobody has read       *)
  listener,        (* "armed", "ready" to be reported, or "gone"             *)
  edge,            (* workers whose unix stream changed since its last report *)
  (* run_server                                                            *)
  loc,
  stream_count,    (* streams accepted                                       *)
  reading,         (* reading_streams, token to client                       *)
  processing,      (* processing_streams                                     *)
  events,
  run_shutdown,
  (* UnixStreams and ServerMsgBuffer, per worker                           *)
  num_reqs,
  interest,
  to_send,
  stream_tks,
  stream_close_tks,
  (* the workers                                                           *)
  alive,
  unix_out,        (* requests written to the worker, not read by it         *)
  held,            (* requests the worker has                                *)
  unix_back,       (* answers the server has not read: <<token, keep_alive>>  *)
  (* signals, and the atomics of main.rs                                   *)
  signals,         (* SIGINTs sent                                           *)
  unhandled,       (* of these, those the handler has not seen               *)
  interrupted,     (* the poll of the server is interrupted                  *)
  running, close_now,
  expired          (* ctrlc_wait_time has passed since the shutdown          *)

clientVars == <<client, readable, listener>>
mapVars    == <<stream_count, reading, processing>>
unixVars   == <<num_reqs, interest, to_send, stream_tks, stream_close_tks>>
workerVars == <<alive, unix_out, held, unix_back>>
sigVars    == <<signals, unhandled, interrupted, running, close_now, expired>>
vars == <<clientVars, edge, loc, mapVars, events, run_shutdown, unixVars, workerVars, sigVars>>

-----------------------------------------------------------------------------
SERVER_TOKEN == 0
Worker == 1 .. NumWorkers        (* a worker's unix stream has its number as token *)
Stopped == {"exited", "failed"}
Up == loc \notin Stopped

(* How often the stream of a token has been kept alive.                    *)
Round(tk) == (tk % NEW_STREAM_COUNT_INC) \div KEEP_ALIVE_COUNT_INC

(* HashMaps from tokens to streams; an insertion may replace an entry.     *)
Insert(map, tk, c) == [k \in DOMAIN map \cup {tk} |-> IF k = tk THEN c ELSE map[k]]
Remove(map, tk)    == [k \in DOMAIN map \ {tk} |-> map[k]]
Streams(map)       == {map[k] : k \in DOMAIN map}

(* Streams the server lets go of, or shuts down.                           *)
Close(streams) == client' = [c \in Client |-> IF c \in streams THEN "closed" ELSE client[c]]

Init ==
  /\ client = [c \in Client |-> "new"] /\ readable = {} /\ listener = "armed" /\ edge = {}
  /\ loc = "top" /\ stream_count = 0 /\ reading = << >> /\ processing = << >>
  /\ events = {} /\ run_shutdown = FALSE
  /\ num_reqs = [w \in Worker |-> 0] /\ interest = [w \in Worker |-> {}]
  /\ to_send = [w \in Worker |-> {}]
  /\ stream_tks = [w \in Worker |-> {}] /\ stream_close_tks = [w \in Worker |-> {}]
  /\ alive = [w \in Worker |-> TRUE]
  /\ unix_out = [w \in Worker |-> {}] /\ held = [w \in Worker |-> {}]
  /\ unix_back = [w \in Worker |-> {}]
  /\ signals = 0 /\ unhandled = 0 /\ interrupted = FALSE
  /\ running = TRUE /\ close_now = FALSE /\ expired = FALSE

-----------------------------------------------------------------------------
(* Clients, workers and signals.                                           *)

Connect(c) ==
  /\ Up /\ client[c] = "new"
  /\ client' = [client EXCEPT ![c] = "backlog"]
  /\ listener' = IF listener = "armed" THEN "ready" ELSE listener
  /\ UNCHANGED <<readable, edge, loc, mapVars, events, run_shutdown, unixVars, workerVars, sigVars>>

(* The first bytes of a request, or the end of the stream.                 *)
Send(c) ==
  /\ Up /\ client[c] = "open" /\ c \notin readable
  /\ readable' = readable \cup {c}
  /\ UNCHANGED <<client, listener, edge, loc, mapVars, events, run_shutdown, unixVars, workerVars,
                 sigVars>>

(* A worker reads its unix stream, which makes it writable again.          *)
WorkerReads(w) ==
  /\ Up /\ alive[w] /\ unix_out[w] # {}
  /\ held' = [held EXCEPT ![w] = @ \cup unix_out[w]]
  /\ unix_out' = [unix_out EXCEPT ![w] = {}]
  /\ edge' = IF "writable" \in interest[w] THEN edge \cup {w} ELSE edge
  /\ UNCHANGED <<clientVars, loc, mapVars, events, run_shutdown, unixVars, alive, unix_back, sigVars>>

(* A worker answers a request it has read from the client's stream.        *)
WorkerAnswers(w, tk, keep_alive) ==
  /\ Up /\ alive[w] /\ tk \in held[w]
  /\ keep_alive => Round(tk) < KeepAliveBound
  /\ held' = [held EXCEPT ![w] = @ \ {tk}]
  /\ unix_back' = [unix_back EXCEPT ![w] = @ \cup {<<tk, keep_alive>>}]
  /\ edge' = IF "readable" \in interest[w] THEN edge \cup {w} ELSE edge
  /\ readable' = readable \ {processing[tk]}
  /\ UNCHANGED <<client, listener, loc, mapVars, events, run_shutdown, unixVars, alive, unix_out,
                 sigVars>>

(* A worker process ends; what it held is never answered.                  *)
WorkerDies(w) ==
  /\ Up /\ "worker" \in Faults /\ alive[w]
  /\ alive' = [alive EXCEPT ![w] = FALSE]
  /\ edge' = IF interest[w] # {} THEN edge \cup {w} ELSE edge
  /\ UNCHANGED <<clientVars, loc, mapVars, events, run_shutdown, unixVars, unix_out, held, unix_back,
                 sigVars>>

(* A SIGINT interrupts the poll if the thread of the loop is in it.        *)
Sigint ==
  /\ Up /\ signals < SigintBound
  /\ signals' = signals + 1 /\ unhandled' = unhandled + 1
  /\ interrupted' \in {interrupted, interrupted \/ loc = "poll"}
  /\ UNCHANGED <<clientVars, edge, loc, mapVars, events, run_shutdown, unixVars, workerVars,
                 running, close_now, expired>>

(* The handler runs on a thread of its own.                                *)
CtrlcHandler ==
  /\ Up /\ unhandled > 0
  /\ unhandled' = unhandled - 1
  /\ running' = FALSE
  /\ close_now' = (close_now \/ ~running)
  /\ UNCHANGED <<clientVars, edge, loc, mapVars, events, run_shutdown, unixVars, workerVars,
                 signals, interrupted, expired>>

WaitExpires ==
  /\ Up /\ run_shutdown /\ ~expired
  /\ expired' = TRUE
  /\ UNCHANGED <<clientVars, edge, loc, mapVars, events, run_shutdown, unixVars, workerVars,
                 signals, unhandled, interrupted, running, close_now>>

-----------------------------------------------------------------------------
(* The top of the loop.                                                    *)

(* Mutant: the loop ends as soon as the server is shutting down.           *)
TimeUp_AtOnce == run_shutdown

TimeUp == run_shutdown /\ (processing = << >> \/ expired)

(* After a SIGINT the loop ends when no stream is with a worker, when the  *)
(* time is up, or at a second SIGINT.                                      *)
Exit ==
  /\ loc = "top"
  /\ \/ TimeUp /\ Close(Streams(processing)) /\ processing' = << >>
     \/ ~TimeUp /\ close_now /\ UNCHANGED <<client, processing>>
  /\ loc' = "exited"
  /\ UNCHANGED <<readable, listener, edge, stream_count, reading, events, run_shutdown, unixVars,
                 workerVars, sigVars>>

(* Mutant: only the answers are watched for.                               *)
Wanted_ReadOnly(w) ==
  IF num_reqs[w] > 0 THEN {"readable"} ELSE {}

(* What a unix stream should be watched for.                               *)
Wanted(w) ==
  (IF num_reqs[w] > 0 THEN {"readable"} ELSE {})
    \cup (IF to_send[w] # {} THEN {"writable"} ELSE {})

(* UnixStreams::reregister.  A call is made only when the interest         *)
(* changes, and it makes mio look at the stream afresh.                    *)
Reregister ==
  /\ loc = "top" /\ ~TimeUp /\ ~close_now
  /\ \E failed \in SUBSET {w \in Worker : Wanted(w) # interest[w]} :
       /\ failed # {} => "registry" \in Faults
       /\ interest' = [w \in Worker |-> IF w \in failed THEN interest[w] ELSE Wanted(w)]
  /\ edge' = {w \in Worker : interest'[w] # {} /\ (w \in edge \/ interest'[w] # interest[w])}
  /\ loc' = "return"
  /\ UNCHANGED <<clientVars, mapVars, events, run_shutdown, num_reqs, to_send, stream_tks,
                 stream_close_tks, workerVars, sigVars>>

(* Mutant: get in the place of remove.                                     *)
KeepAlive_Get(w, tk) ==
  /\ loc = "return" /\ tk \in stream_tks[w]
  /\ tk \in DOMAIN processing
  /\ stream_tks' = [stream_tks EXCEPT ![w] = @ \ {tk}]
  /\ num_reqs' = [num_reqs EXCEPT ![w] = @ - 1]
  /\ processing' = processing
  /\ LET new_tk == tk + KEEP_ALIVE_COUNT_INC
     IN \/ /\ run_shutdown \/ "registry" \in Faults
           /\ Close({processing[tk]}) /\ UNCHANGED reading
        \/ /\ ~run_shutdown
           /\ reading' = Insert(reading, new_tk, processing[tk])
           /\ Close(IF new_tk \in DOMAIN reading THEN {reading[new_tk]} ELSE {})
  /\ UNCHANGED <<readable, listener, edge, loc, stream_count, events, run_shutdown, interest,
                 to_send, stream_close_tks, workerVars, sigVars>>

(* A stream that is kept alive is watched for its next request, under the  *)
(* next token.                                                             *)
KeepAlive(w, tk) ==
  /\ loc = "return" /\ tk \in stream_tks[w]
  /\ tk \in DOMAIN processing
  /\ stream_tks' = [stream_tks EXCEPT ![w] = @ \ {tk}]
  /\ num_reqs' = [num_reqs EXCEPT ![w] = @ - 1]
  /\ processing' = Remove(processing, tk)
  /\ LET new_tk == tk + KEEP_ALIVE_COUNT_INC
     IN \/ /\ run_shutdown \/ "registry" \in Faults
           /\ Close({processing[tk]}) /\ UNCHANGED reading
        \/ /\ ~run_shutdown
           /\ reading' = Insert(reading, new_tk, processing[tk])
           /\ Close(IF new_tk \in DOMAIN reading THEN {reading[new_tk]} ELSE {})
  /\ UNCHANGED <<readable, listener, edge, loc, stream_count, events, run_shutdown, interest,
                 to_send, stream_close_tks, workerVars, sigVars>>

KeepAliveDone == \A w \in Worker : stream_tks[w] = {}

(* Mutant: num_reqs is not lowered.                                        *)
CloseStream_NotCounted(w, tk) ==
  /\ loc = "return" /\ KeepAliveDone /\ tk \in stream_close_tks[w]
  /\ tk \in DOMAIN processing
  /\ stream_close_tks' = [stream_close_tks EXCEPT ![w] = @ \ {tk}]
  /\ num_reqs' = num_reqs
  /\ processing' = Remove(processing, tk)
  /\ Close({processing[tk]})
  /\ UNCHANGED <<readable, listener, edge, loc, stream_count, reading, events, run_shutdown, interest,
                 to_send, stream_tks, workerVars, sigVars>>

(* The other streams are shut down.                                        *)
CloseStream(w, tk) ==
  /\ loc = "return" /\ KeepAliveDone /\ tk \in stream_close_tks[w]
  /\ tk \in DOMAIN processing
  /\ stream_close_tks' = [stream_close_tks EXCEPT ![w] = @ \ {tk}]
  /\ num_reqs' = [num_reqs EXCEPT ![w] = @ - 1]
  /\ processing' = Remove(processing, tk)
  /\ Close({processing[tk]})
  /\ UNCHANGED <<readable, listener, edge, loc, stream_count, reading, events, run_shutdown, interest,
                 to_send, stream_tks, workerVars, sigVars>>

StartPoll ==
  /\ loc = "return" /\ KeepAliveDone /\ \A w \in Worker : stream_close_tks[w] = {}
  /\ loc' = "poll"
  /\ UNCHANGED <<clientVars, edge, mapVars, events, run_shutdown, unixVars, workerVars, sigVars>>

-----------------------------------------------------------------------------
(* Polling.  An event is a token with what mio reports the source as.      *)

(* What a look at the unix stream of a worker shows.                       *)
Ready(w) ==
  interest[w] \cap ((IF unix_back[w] # {} \/ ~alive[w] THEN {"readable"} ELSE {}) \cup {"writable"})

Reportable ==
  (IF listener = "ready" THEN {<<SERVER_TOKEN, {"readable"}>>} ELSE {})
    \cup {<<tk, {"readable"}>> : tk \in {k \in DOMAIN reading : reading[k] \in readable}}
    \cup {<<w, Ready(w)>> : w \in {v \in edge : Ready(v) # {}}}

(* fn shutdown: the listener and the idle streams are given up.            *)
Shutdown ==
  /\ run_shutdown' = TRUE
  /\ listener' = "gone"
  /\ reading' = << >>
  /\ Close(Streams(reading))

(* The poll returns with the events there are, or, once the server is      *)
(* shutting down, after 100 ms with none; it fails when it is interrupted. *)
(* The first poll that fails or finds running false shuts the server down, *)
(* and its events are handled all the same.                                *)
Poll(reported, fails) ==
  /\ loc = "poll" /\ loc' = "events"
  /\ events' = reported
  /\ edge' = edge \ {e[1] : e \in reported}
  /\ interrupted' = FALSE
  /\ IF (fails \/ ~running) /\ ~run_shutdown
     THEN Shutdown
     ELSE /\ listener' = IF <<SERVER_TOKEN, {"readable"}>> \in reported THEN "armed" ELSE listener
          /\ UNCHANGED <<run_shutdown, client, reading>>
  /\ UNCHANGED <<readable, stream_count, processing, unixVars, workerVars, signals, unhandled,
                 running, close_now, expired>>

PollReports == Reportable # {} /\ Poll(Reportable, FALSE)
(* Mutant: the timeout of the poll is always None.                         *)
PollTimesOut_Never == FALSE /\ Poll({}, FALSE)

PollTimesOut == run_shutdown /\ Poll({}, FALSE)
PollFails == (interrupted \/ "poll" \in Faults) /\ Poll({}, TRUE)

-----------------------------------------------------------------------------
(* Handling the events of one poll.                                        *)

TakeEvent(ev) ==
  /\ loc = "events" /\ ev \in events
  /\ events' = events \ {ev}
  /\ UNCHANGED <<readable, listener, run_shutdown, alive, held, sigVars>>

(* Mutant: the streams are numbered from 0.                                *)
Accept_FromZero ==
  /\ TakeEvent(<<SERVER_TOKEN, {"readable"}>>)
  /\ \E c \in Client :
       /\ client[c] = "backlog"
       /\ stream_count' = stream_count + 1
       /\ LET tk == stream_count * NEW_STREAM_COUNT_INC
          IN \/ /\ \/ Cardinality(DOMAIN reading) + Cardinality(DOMAIN processing) >= MaxConns
                   \/ "registry" \in Faults
                /\ Close({c}) /\ UNCHANGED reading
             \/ /\ Cardinality(DOMAIN reading) + Cardinality(DOMAIN processing) < MaxConns
                /\ reading' = Insert(reading, tk, c)
                /\ client' = [d \in Client |->
                     IF d = c THEN "open"
                     ELSE IF tk \in DOMAIN reading /\ d = reading[tk] THEN "closed" ELSE client[d]]
  /\ UNCHANGED <<edge, loc, processing, unixVars, unix_out, unix_back>>

(* Mutant: only the idle streams are counted.                              *)
Accept_OnlyReading ==
  /\ TakeEvent(<<SERVER_TOKEN, {"readable"}>>)
  /\ \E c \in Client :
       /\ client[c] = "backlog"
       /\ stream_count' = stream_count + 1
       /\ LET tk == (stream_count + 1) * NEW_STREAM_COUNT_INC
          IN \/ /\ \/ Cardinality(DOMAIN reading) >= MaxConns
                   \/ "registry" \in Faults
                /\ Close({c}) /\ UNCHANGED reading
             \/ /\ Cardinality(DOMAIN reading) < MaxConns
                /\ reading' = Insert(reading, tk, c)
                /\ client' = [d \in Client |->
                     IF d = c THEN "open"
                     ELSE IF tk \in DOMAIN reading /\ d = reading[tk] THEN "closed" ELSE client[d]]
  /\ UNCHANGED <<edge, loc, processing, unixVars, unix_out, unix_back>>

(* One connection is accepted for each event of the listener.  Beyond      *)
(* max_conns it is dropped, and so it is if it cannot be registered.       *)
Accept ==
  /\ TakeEvent(<<SERVER_TOKEN, {"readable"}>>)
  /\ \E c \in Client :
       /\ client[c] = "backlog"
       /\ stream_count' = stream_count + 1
       /\ LET tk == (stream_count + 1) * NEW_STREAM_COUNT_INC
          IN \/ /\ \/ Cardinality(DOMAIN reading) + Cardinality(DOMAIN processing) >= MaxConns
                   \/ "registry" \in Faults
                /\ Close({c}) /\ UNCHANGED reading
             \/ /\ Cardinality(DOMAIN reading) + Cardinality(DOMAIN processing) < MaxConns
                /\ reading' = Insert(reading, tk, c)
                /\ client' = [d \in Client |->
                     IF d = c THEN "open"
                     ELSE IF tk \in DOMAIN reading /\ d = reading[tk] THEN "closed" ELSE client[d]]
  /\ UNCHANGED <<edge, loc, processing, unixVars, unix_out, unix_back>>

(* accept fails, and the connection stays in the backlog.                  *)
AcceptFails ==
  /\ "registry" \in Faults /\ TakeEvent(<<SERVER_TOKEN, {"readable"}>>)
  /\ UNCHANGED <<client, edge, loc, mapVars, unixVars, unix_out, unix_back>>

(* The worker with the fewest requests, the first of them.                 *)
LeastLoaded ==
  CHOOSE w \in Worker : \A v \in Worker :
    num_reqs[w] < num_reqs[v] \/ (num_reqs[w] = num_reqs[v] /\ w <= v)

(* The first bytes of a request: its stream goes to a worker.              *)
Dispatch(tk) ==
  /\ TakeEvent(<<tk, {"readable"}>>)
  /\ tk \in DOMAIN reading
  /\ reading' = Remove(reading, tk)
  /\ \/ /\ processing' = Insert(processing, tk, reading[tk])
        /\ Close(IF tk \in DOMAIN processing THEN {processing[tk]} ELSE {})
        /\ num_reqs' = [num_reqs EXCEPT ![LeastLoaded] = @ + 1]
        /\ to_send' = [to_send EXCEPT ![LeastLoaded] = @ \cup {tk}]
     \/ /\ "registry" \in Faults        (* deregister fails, the stream is dropped *)
        /\ Close({reading[tk]})
        /\ UNCHANGED <<processing, num_reqs, to_send>>
  /\ UNCHANGED <<edge, loc, stream_count, interest, stream_tks, stream_close_tks, unix_out, unix_back>>

AtMost(n, S) == {T \in SUBSET S : Cardinality(T) = n \/ (T = S /\ Cardinality(S) <= n)}

(* Mutant: what has been sent stays queued.                                *)
UnixStream_Resends(w, ready) ==
  /\ TakeEvent(<<w, ready>>)
  /\ \E got \in AtMost(ReadMax, IF "readable" \in ready THEN unix_back[w] ELSE {}) :
       /\ unix_back' = [unix_back EXCEPT ![w] = @ \ got]
       /\ stream_tks' = [stream_tks EXCEPT ![w] = @ \cup {a[1] : a \in {b \in got : b[2]}}]
       /\ stream_close_tks' = [stream_close_tks EXCEPT
                                ![w] = @ \cup {a[1] : a \in {b \in got : ~b[2]}}]
  /\ \E sent \in AtMost(FdQueue, IF "writable" \in ready /\ alive[w] THEN to_send[w] ELSE {}) :
       /\ to_send' = to_send
       /\ unix_out' = [unix_out EXCEPT ![w] = @ \cup sent]
  /\ UNCHANGED <<client, edge, loc, mapVars, num_reqs, interest>>

(* Mutant: an answer that closes is taken for one that keeps alive.        *)
UnixStream_KeepsAll(w, ready) ==
  /\ TakeEvent(<<w, ready>>)
  /\ \E got \in AtMost(ReadMax, IF "readable" \in ready THEN unix_back[w] ELSE {}) :
       /\ unix_back' = [unix_back EXCEPT ![w] = @ \ got]
       /\ stream_tks' = [stream_tks EXCEPT ![w] = @ \cup {a[1] : a \in got}]
  /\ \E sent \in AtMost(FdQueue, IF "writable" \in ready /\ alive[w] THEN to_send[w] ELSE {}) :
       /\ to_send' = [to_send EXCEPT ![w] = @ \ sent]
       /\ unix_out' = [unix_out EXCEPT ![w] = @ \cup sent]
  /\ UNCHANGED <<client, edge, loc, mapVars, num_reqs, interest, stream_close_tks>>

(* The unix stream of a worker: the answers of one read, and one write of  *)
(* what fits in the queue of descriptors.  When the worker is gone the     *)
(* write fails and nothing is sent.                                        *)
UnixStream(w, ready) ==
  /\ TakeEvent(<<w, ready>>)
  /\ \E got \in AtMost(ReadMax, IF "readable" \in ready THEN unix_back[w] ELSE {}) :
       /\ unix_back' = [unix_back EXCEPT ![w] = @ \ got]
       /\ stream_tks' = [stream_tks EXCEPT ![w] = @ \cup {a[1] : a \in {b \in got : b[2]}}]
       /\ stream_close_tks' = [stream_close_tks EXCEPT
                                ![w] = @ \cup {a[1] : a \in {b \in got : ~b[2]}}]
  /\ \E sent \in AtMost(FdQueue, IF "writable" \in ready /\ alive[w] THEN to_send[w] ELSE {}) :
       /\ to_send' = [to_send EXCEPT ![w] = @ \ sent]
       /\ unix_out' = [unix_out EXCEPT ![w] = @ \cup sent]
  /\ UNCHANGED <<client, edge, loc, mapVars, num_reqs, interest>>

(* An event for neither: RuntimeError::UnknownToken.                       *)
UnknownToken(ev) ==
  /\ loc = "events" /\ ev \in events
  /\ ev[1] \notin DOMAIN reading \cup Worker \cup {SERVER_TOKEN}
  /\ loc' = "failed"
  /\ UNCHANGED <<clientVars, edge, mapVars, events, run_shutdown, unixVars, workerVars, sigVars>>

EndRound ==
  /\ loc = "events" /\ events = {}
  /\ loc' = "top"
  /\ UNCHANGED <<clientVars, edge, mapVars, events, run_shutdown, unixVars, workerVars, sigVars>>

-----------------------------------------------------------------------------
(* The server has stopped, or blocks in poll with nothing to report.       *)
Stop ==
  /\ loc \in Stopped \/ (loc = "poll" /\ Reportable = {} /\ ~run_shutdown)
  /\ UNCHANGED vars

Polling == PollReports \/ PollTimesOut \/ PollFails

Loop ==
  \/ Exit \/ Reregister \/ StartPoll \/ Accept \/ AcceptFails \/ EndRound
  \/ \E w \in Worker :
       \/ \E tk \in stream_tks[w] : KeepAlive(w, tk)
       \/ \E tk \in stream_close_tks[w] : CloseStream(w, tk)
  \/ \E ev \in events :
       \/ Dispatch(ev[1]) \/ UnknownToken(ev)
       \/ ev[1] \in Worker /\ UnixStream(ev[1], ev[2])

Environment ==
  \/ Sigint \/ CtrlcHandler \/ WaitExpires
  \/ \E c \in Client : Connect(c) \/ Send(c)
  \/ \E w \in Worker :
       \/ WorkerReads(w) \/ WorkerDies(w)
       \/ \E tk \in held[w], keep_alive \in BOOLEAN : WorkerAnswers(w, tk, keep_alive)

Next == Loop \/ Polling \/ Environment \/ Stop

Spec == Init /\ [][Next]_vars

(***************************************************************************)
(* Safety.                                                                 *)
(***************************************************************************)

StreamToken == {s * NEW_STREAM_COUNT_INC + r * KEEP_ALIVE_COUNT_INC :
                  s \in 1 .. Cardinality(Client), r \in 0 .. KeepAliveBound}
Condition == SUBSET {"readable", "writable"}

(* Every variable of the server keeps its type, and the tokens of streams  *)
(* are those the counters generate (server/mod.rs:18-26).                  *)
TypeOK ==
  /\ client \in [Client -> {"new", "backlog", "open", "closed"}] /\ readable \subseteq Client
  /\ listener \in {"armed", "ready", "gone"} /\ edge \subseteq Worker
  /\ loc \in {"top", "return", "poll", "events"} \cup Stopped
  /\ stream_count \in 0 .. Cardinality(Client)
  /\ reading \in [DOMAIN reading -> Client] /\ DOMAIN reading \subseteq StreamToken
  /\ processing \in [DOMAIN processing -> Client] /\ DOMAIN processing \subseteq StreamToken
  /\ events \subseteq ({SERVER_TOKEN} \cup Worker \cup StreamToken) \X Condition
  /\ run_shutdown \in BOOLEAN
  /\ num_reqs \in [Worker -> Nat] /\ interest \in [Worker -> Condition]
  /\ to_send \in [Worker -> SUBSET StreamToken]
  /\ stream_tks \in [Worker -> SUBSET StreamToken]
  /\ stream_close_tks \in [Worker -> SUBSET StreamToken]
  /\ alive \in [Worker -> BOOLEAN]
  /\ unix_out \in [Worker -> SUBSET StreamToken] /\ held \in [Worker -> SUBSET StreamToken]
  /\ unix_back \in [Worker -> SUBSET (StreamToken \X BOOLEAN)]
  /\ signals \in 0 .. SigintBound /\ unhandled \in 0 .. signals
  /\ interrupted \in BOOLEAN /\ running \in BOOLEAN /\ close_now \in BOOLEAN
  /\ expired \in BOOLEAN

(* The stages of a request that is with worker w; after the last two the   *)
(* server may let go of its stream.                                        *)
Stages(w) == <<to_send[w], unix_out[w], held[w], {a[1] : a \in unix_back[w]},
               stream_tks[w], stream_close_tks[w]>>
With(w) == UNION {Stages(w)[i] : i \in 1 .. 6}

(* Each stream in processing_streams is with one worker, in one stage, and *)
(* nothing else is: no answer is for a stream the server does not have     *)
(* (the expects of server/mod.rs:96,121), none comes twice.                *)
ProcessingIsWithWorkers ==
  Up =>
    /\ DOMAIN processing = UNION {With(w) : w \in Worker}
    /\ \A v, w \in Worker : v # w => With(v) \cap With(w) = {}
    /\ \A w \in Worker : \A i, j \in 1 .. 6 :
         i # j => Stages(w)[i] \cap Stages(w)[j] = {}

(* The load that dispatch compares is the number of requests with each     *)
(* worker, and num_reqs never underflows (unixstreams.rs:124-147).         *)
LoadCounted == Up => \A w \in Worker : num_reqs[w] = Cardinality(With(w))

(* Every open client stream is in one map under one token, and no stream   *)
(* is in a map after it has been closed (server/mod.rs:57-58).             *)
EachStreamOnce ==
  Up =>
    /\ Streams(reading) \cup Streams(processing) = {c \in Client : client[c] = "open"}
    /\ Streams(reading) \cap Streams(processing) = {}
    /\ \A map \in {reading, processing} :
         \A j, k \in DOMAIN map : map[j] = map[k] => j = k

(* At most max_conns streams are open, idle or not, however they come back *)
(* from the workers (server/mod.rs:148).                                   *)
ConnsBounded == Cardinality({c \in Client : client[c] = "open"}) <= MaxConns

-----------------------------------------------------------------------------
(* The server implements Gateway.                                          *)

Conn(c) ==
  IF client[c] # "open" THEN client[c]
  ELSE IF c \in Streams(reading) THEN "idle" ELSE "busy"

(* The answer of a worker, from the moment it is written.                  *)
Verdict(c) ==
  IF \E w \in Worker, tk \in DOMAIN processing :
       processing[tk] = c /\ (<<tk, TRUE>> \in unix_back[w] \/ tk \in stream_tks[w]) THEN "keep"
  ELSE IF \E w \in Worker, tk \in DOMAIN processing :
       processing[tk] = c /\ (<<tk, FALSE>> \in unix_back[w] \/ tk \in stream_close_tks[w]) THEN "close"
  ELSE "none"

Abstract == INSTANCE Gateway WITH
  Limit <- MaxConns, closing <- run_shutdown, expired <- expired,
  conn <- [c \in Client |-> Conn(c)], verdict <- [c \in Client |-> Verdict(c)]

(* Whatever the order of events, answers and signals and whichever call    *)
(* fails: a stream leaves its worker only with the worker's answer, and    *)
(* what becomes of it is what that answer says; a stream is given away at  *)
(* most once before it comes back; a shutdown gives up the idle streams,   *)
(* and shuts down none that is with a worker, and has no answer, before    *)
(* ctrlc_wait_time has passed, however many signals come.  A second signal *)
(* ends the server: it shuts nothing down, and what the end of the process *)
(* does to its descriptors is left out                                     *)
(* (server/mod.rs:64-203, 206-233, unixstreams.rs:124-202).                *)
ServesClients == Abstract!Spec

(***************************************************************************)
(* Liveness.                                                               *)
(***************************************************************************)

(* The loop is one OS thread; poll returns when there is an event, when    *)
(* it is interrupted, and after 100 ms once the server is shutting down.   *)
(* The handler of SIGINT has a thread of its own.                          *)
LoopFairness == WF_vars(Loop) /\ WF_vars(Polling) /\ WF_vars(CtrlcHandler) /\ WF_vars(WaitExpires)

(* A worker that is alive answers every request (EveryRequestAnswered of   *)
(* the module Worker): what the run MCWorkerFair checks is assumed here.   *)
WorkerFairness ==
  \A w \in Worker :
    /\ WF_vars(WorkerReads(w))
    /\ \A tk \in StreamToken :
         WF_vars(\E keep_alive \in BOOLEAN : WorkerAnswers(w, tk, keep_alive))

LoopSpec == Spec /\ LoopFairness
FairSpec == LoopSpec /\ WorkerFairness

(* Once it is shutting down the server stops, whatever the clients and the *)
(* workers do (server/mod.rs:65-89, 128-133).                              *)
ShutdownEnds == run_shutdown ~> loc \in Stopped

(* The stream leaves processing_streams, or the server stops.             *)
ComesBack(tk) == tk \notin DOMAIN processing \/ loc \in Stopped

(* One read takes all the answers there are.                               *)
ReadsTakeAll(w) == Cardinality(unix_back[w]) <= ReadMax

(* Every stream given to a worker that lives and works comes back: no      *)
(* request that did not fit in a write is stuck in front of a unix stream  *)
(* that is not watched for writing, no answer behind one that is not       *)
(* watched for reading.  This has a limit.                                 *)
(* The server reads one buffer for each event and looks at a unix stream   *)
(* again only if its interest changes: should a worker ever have more      *)
(* answers on the way than one read takes, what is left may stay there     *)
(* (unixstreams.rs:59-121, msgs/mod.rs:33-39).                             *)
EveryStreamComesBack ==
  WorkerFairness =>
    \A w \in Worker :
      []ReadsTakeAll(w) =>
        \A tk \in StreamToken : tk \in With(w) ~> (ComesBack(tk) \/ ~alive[w])

(***************************************************************************)
(* What the documentation and the comments say and the code does not do.   *)
(***************************************************************************)

(* doc/configuration.rst:194-195: after SIGINT the active requests are     *)
(* finished.  A poll that reports a stream and then finds running false    *)
(* gives the stream up before it looks it up (server/mod.rs:136-141, 197). *)
SigintGraceful == loc = "failed" => processing = << >>

(* doc/configuration.rst:194-195: on SIGINT Casket finishes the active     *)
(* requests and exits.  A SIGINT that comes while the loop is not in poll  *)
(* interrupts nothing, and the poll that follows waits without a timeout   *)
(* (server/mod.rs:128-136).                                                *)
SigintEnds == ~running ~> loc \in Stopped

(* doc/configuration.rst:40-41: once the limit is reached newer streams    *)
(* are accepted and shut down at once.  One stream is accepted per edge of *)
(* the listener, so the second of two that come together waits             *)
(* (server/mod.rs:145).                                                    *)
LimitReached == Cardinality({c \in Client : client[c] = "open"}) >= MaxConns
NewerStreamsAccepted ==
  \A c \in Client :
    client[c] = "backlog" /\ LimitReached ~> (client[c] # "backlog" \/ loc \in Stopped)
=============================================================================
