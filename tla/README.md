# Casket: a TLA+ development

Casket is a WSGI server: one process accepts TCP connections and waits for the
first byte of each request, worker processes read the requests, run the python
application on threads and write the responses. This directory holds TLA+
modules that model the program in `src/src`, TLC configurations that check them
on small instances, and proofs checked by TLAPS. Line numbers refer to
`src/src/...` unless a path is given.

## 1. The system

| part | source | state | operations |
|---|---|---|---|
| server loop | `server/mod.rs` | `reading_streams`, `processing_streams`, the stream counter, `run_shutdown`, `ctrlc_instant` | accept, first byte of a request, answer of a worker, shutdown |
| server side of the unix streams | `server/unixstreams.rs`, `ServerMsgBuffer` in `msgs/mod.rs` | `num_reqs` and `interest` per worker, `to_send`, `stream_tks`, `stream_close_tks` | least-loaded dispatch, reregister, read and write |
| worker loop | `worker/mod.rs`, `actions.rs`, `events.rs` | four maps of client streams, `events_buf`, `events_timeout_buf`, `worker_results`, `closing` | poll, drain the events, act on the results, time out, act again |
| worker poller | `worker/poller.rs` | the events filed for readiness, the timer queue, what epoll watches | `register_*`, `reregister_*`, `deregister`, `timer_event`, `tick` |
| python threads bridge | `worker/pythonthreads.rs` | `queued_reqs`, `num_pending_reqs`, `timed_out_reqs` | queue, send, take code starts and responses, time out |
| python threads | `pythonexec/mod.rs`, `workq.rs` | one receiver per thread, the position of the round robin | take, announce, respond, stream the body, panic |
| WSGI call | `pythonexec/wsgi.rs`, `reqlocal.rs`, `logger.rs` | the thread-local request context and response header | `start_response`, `wsgi.input`, the body iterator |
| worker side of the unix stream | `WorkerMsgBuffer` in `msgs/mod.rs` | `stream_fds`, `stream_msgs`, `server_fds`, `write_buffer` | read, take on, answer, write |
| request reader, response writer | `worker/serverreader.rs`, `serverwriter.rs`, `http/mod.rs` | buffers and the bytes still to come | one read, one write |
| start-up | `main.rs`, `config.rs`, `errors.rs` | the environment | bind, fork, install the SIGINT handler |

How they interact. The server registers each client stream with its own poll
for the first byte of a request, then deregisters it and sends the token and a
duplicate of the descriptor over a unix stream to the worker with the fewest
requests. The worker polls the stream itself, reads the request, queues it for
the python threads and forgets everything about it but the pending stream. A
thread announces that it starts (one channel), answers (another), and then
feeds the body to the writer (a third, per request). The worker writes the
response, deregisters the stream and sends an answer back; the server then
closes the stream or, if it is kept alive, watches it again under the next
token. SIGINT is noticed by the server in an atomic flag, and by a worker only
when it interrupts its poll.

What is hard here. The loop of the worker keeps a client stream in exactly one
of four maps, a queue of events or a queue of results, and moves it by taking it
out of one and putting it into another several steps later. Timers are never
cancelled: they fire for requests that have moved on. A request that has been
answered with a 504 is still executing, and its response arrives later. The
maps are read with `expect`: a stale event is a panic. Registry calls can fail
between two of the moves. Threads can die. Every count (`num_pending_reqs`,
`num_reqs`) is an unsigned number decremented far from where it is incremented.

What makes each part correct:

* server: no stream is lost or has two tokens' worth of state; `num_reqs` is
  the number of streams with each worker; at most `max_conns` streams; every
  connection is accepted; shutdown ends, and waits for the active requests;
* worker: every request sent to it is answered once; each stream is in one
  place; no `expect` fails; the counts agree with what the threads really hold;
  no request waits for ever; it exits when told to, and only when no request waits or
  runs and what the applications answered has been sent;
* python threads: each request is executed once, by one thread; the header and
  the body of a response belong to its request;
* message buffers: messages come out whole, in order, each with its descriptor.

## 2. Modules

| module | what it is |
|---|---|
| `Worker` | the worker process: loop, poller, python threads bridge, its side of the unix stream, and the python threads; properties |
| `Service` | abstract: what a worker does for the requests of its server |
| `WorkerService` | the refinement mapping from `Worker` to `Service` |
| `MCWorker` | symmetry for TLC, used by the `MCWorker*.cfg` |
| `WorkerInv` | the inductive invariant `IInv`, token by token |
| `WorkerSafety` | type correctness, `IInv` is inductive, and the safety theorems |
| `WorkerRefinement` | the worker implements `Service` |
| `Server` | the server process: loop, its side of the unix streams, the SIGINT handler; properties and the mapping to `Gateway` |
| `Gateway` | abstract: what the server does for its clients |
| `ServerInv` | the inductive invariant `IInv` of the server, token by token |
| `ServerSafety` | lemmas on tokens, maps and what is with a worker; type correctness, `IInv` is inductive, and the safety theorems |
| `ServerRefinement` | the server implements `Gateway` |
| `MCServer` | symmetry for TLC, used by the `MCServer*.cfg` |
| `MsgChannel` | the unix stream between the two, byte by byte, both ends of `msgs/mod.rs`; properties and the mapping to `Handover` |
| `Handover` | abstract: requests over and answers back, whole, once and in order |
| `ChannelInv` | the inductive invariant `IInv` of the channel |
| `ChannelFrames` | lemmas on sequences, on frames and on what a read makes of them |
| `ChannelProofs` | `IInv` is inductive, the safety theorems, and the channel implements `Handover` |
| `MCMsgChannel` | the sizes of the frames, used by `MCMsgChannel.cfg` |
| `Exchange` | requests and responses byte by byte: reader, python thread, WSGI call, writer; properties |
| `ExchangeInv` | the inductive invariant `IInv` of the exchange |
| `ExchangeProofs` | `IInv` is inductive, and the safety theorems |
| `MCExchange` | the requests the clients send, used by `MCExchange.cfg` |
| `WorkQ` | the queue in front of the python threads; properties |
| `WorkQProofs` | its inductive invariant, type correctness and the safety theorems |

How they fit together. `Server` and `Worker` each model one process and the other
process by what it may do: `Server` lets workers read requests, answer each once and
die; `Worker` lets the server send each request once. Three abstract specifications
say what one side may rely on, and are shown to be implemented by the other:

* `Service`, by `Worker`: a request that arrives is answered once, and python code
  runs for it at most once. It is what `WorkerAnswers` of `Server` stands for.
* `Handover`, by `MsgChannel`: a request arrives once, with its own descriptor, and
  an answer once. It is why `Server` (`unix_out`, `unix_back`) and `Worker`
  (`unix_in`, `stream_fds`) may treat the unix stream as sets of whole messages.
* `Gateway`, by `Server`: at most `Limit` streams, each given away once, and taken
  back to keep or to close as its verdict says.

In the other direction `Exchange` computes what `Worker` only chooses: the outcome of a
read (`ServerContinueRead`, `ServerReadDone`, `ServerStreamEOF`, `Error`), of a write
(`ServerContinueWrite`, `ServerDoneWrite`), and when a thread is done with a request.
`WorkQ` justifies that a request goes to any thread that lives.

### Worker

A token names one request of one client stream, and stands for the stream as
well. The variables carry the names of the code (`events` for `events_buf`,
`reading` for `server_reading_streams`, `pending`, `writing`, `casket` for
`server_casket_responses`, `interest` for what epoll watches a stream for).

`loc` is where the loop is: `"top"` (exit test, gather, poll), `"events"`
(draining `events_buf`), `"results"` (acting on `worker_results`), `"timeouts"`,
`"timeoutResults"`, and back. One action takes one element of the buffer being
drained and does everything its handler does. The events are taken in the order
the code pushes them: `Rank` orders the kinds. Events of one kind concern
different streams and are taken in any order; so are the results, since acting
on two results of different streams commutes in the code, and the results of
one stream are ordered by the phase they belong to.

`Tick` is one call of `Poller::tick`: the events gathered before it, any set of
due timers, any set of ready streams among those epoll watches. It blocks while
there is nothing at all. `Interrupt` is a tick that a signal cuts short.

`Registry` is one call of the mio registry: it succeeds, or it fails and the
request is answered with an error, which is what every caller does
(`worker/mod.rs:225` and its likes); the callers whose failure ends the worker
are in `RegistryFails`. `HandBack` is the deregister-and-answer of the three
ways a stream ends.

A python thread is in `"recv"`, `"execute"` (the application runs), `"stream"`
(the header is sent and the body is being produced) or `"dead"`.

Abstractions:

* Bytes are left out: a read or write of a client stream has one of the
  outcomes the code tells apart. `keep_alive` is kept only in the answer.
* The channels to the threads, the code-start and the response channel are sets:
  the loop drains the last two completely, so only what is in them matters; a
  thread takes any request sent to it, where the code takes the oldest.
* Time is left out: an armed timer may fire at any tick. The code-start and
  response channels are drained in one action each, in this order, and a thread
  may send in between.
* A panic is not a step. `ExpectsHold` says that none can happen.
* A registry call that fails leaves the stream unwatched. (The stream is closed
  right after, but the server holds a duplicate of its descriptor, so epoll
  could in fact still report it if a *re*register fails; mio gives no way to
  tell, and the loop has no answer to it.)
* `requested`, `answered` are history: what the server sent and has had back.
* `Stop` lets the model stay where it is once the worker has stopped or every
  request of the instance has been answered; every other deadlock is an error.

### Service and WorkerService

For each request a stage: `"unknown"`, `"waiting"` (it is on its way to a thread:
`Early` of `WorkerInv`), `"settled"` (a thread has taken it, or casket has decided to
refuse it) and `"answered"` (the response is in `write_buffer` or gone); and the set of
requests python code runs for. What `Service` forbids: code that starts for a request
already refused, timed out or answered; code that starts twice; a second answer. It
allows what the code does: a 504 goes out while the application still runs, and a
thread that dies takes the requests in its channel with it. `WorkerService` reads the
stage off the maps, buffers and channels; `ServesEachOnce` is the claim.

### Server

`loc` is where `run_server` is: `"top"` (exit tests and `reregister`),
`"return"` (the streams that came back), `"poll"` (inside `Poll::poll`),
`"events"` (handling what it reported), and the two ways it ends, `"exited"`
(`Ok`) and `"failed"` (`UnknownToken`). `reading` and `processing` are
`reading_streams` and `processing_streams`, functions from tokens to clients;
`Insert` replaces the entry of a token that is taken, which drops, and so
closes, the stream it had. `num_reqs`, `interest`, `to_send`, `stream_tks` and
`stream_close_tks` are the fields of the same names, per worker.

`Reregister` is one call of `UnixStreams::reregister`; `KeepAlive` and
`CloseStream` are one round of the two loops over the answered streams; `Accept`,
`AcceptFails`, `Dispatch`, `UnixStream` and `UnknownToken` are the branches of
the event loop, one event each. `Shutdown` is the function `shutdown`, and part
of the poll that calls it: the events of that poll are handled after it.

Readiness is edge triggered, as mio has it. A connection makes the listener
`"ready"` to be reported, once, however many wait. A worker that reads or
answers puts itself in `edge`, if the server watches for that; a report takes it
out; a (re)registration puts it back if there is anything to see. What is
reported (`Ready`) is the state at the time of the report. A client stream needs
no such bookkeeping: it is deregistered as soon as it has been reported.

`SERVER_TOKEN` and the tokens are numbers here, since the arithmetic on them is
in question: stream `n` has the tokens from `n * NEW_STREAM_COUNT_INC`, and each
request of it adds `KEEP_ALIVE_COUNT_INC`. The constants of the code, 2^24 and
2^7, are parameters.

The environment, in so far as the server can see it: `Connect`, `Send` (the
first bytes of a request, or the end of the stream), `WorkerReads`,
`WorkerAnswers` (the worker process, in the place of the module `Worker`),
`WorkerDies`, `Sigint` and `CtrlcHandler`, the thread of `main.rs:109-118`. A
signal interrupts the poll only if it is delivered to the thread of the loop while
that is in it; `running` is set by another thread, at any time after.

Abstractions:

* The queues of tokens are sets: nothing depends on their order but which request
  is sent first.
* One write sends at most `FdQueue` requests (the limit of the external crate
  `fd-queue` on descriptors waiting to be sent), one read takes at most
  `ReadMax` answers. The unix socket itself never fills up: there are at most
  `max_conns` messages of a few bytes in it.
* A poll reports everything there is to report. (The code takes up to 64 events
  in one go and the rest in the next.)
* Time is the flag `expired`: `ctrlc_wait_time` has passed since the shutdown.
* In `shutdown`, a failing deregistration of the listener or of an idle stream
  only skips the shutdown of the socket, which is closed by the drop anyway; it is
  not modelled.
* `client` is what the server's descriptor is worth to the client: a stream dropped
  by the server counts as closed, though a worker may hold a duplicate. What the end of
  the process does to descriptors is left out: a second SIGINT ends the loop and shuts
  nothing down (`server/mod.rs:85-89`), and the streams stay as they are.
* A panic of an `expect` is not a step; `ProcessingIsWithWorkers` says none can
  happen.
* `Stop` lets the model stay where it is once the server has stopped, or while it
  waits in poll with nothing to report.

### Gateway

A client stream is `"idle"` (in `reading_streams`) or `"busy"` (in
`processing_streams`), and has a verdict from the moment its worker has answered.
`Conn` and `Verdict` of `Server` are the mapping, `ServesClients` the claim: a busy
stream is neither closed nor used again before its verdict, except by `Halt`; a stream
whose verdict is to close is never kept; at a shutdown the idle streams are closed and
the busy ones are not. `expired` is the wait of `server/mod.rs:65-75`: it becomes true
some time after the shutdown has begun (`WaitEnds`), and `Halt`, which closes what is
still busy, needs it. A server that dropped its busy streams as soon as it shuts down
(`TimeUp_AtOnce`) is refuted by `server_loop`.

### MsgChannel and Handover

One unix stream, with the buffers of both ends. A byte is a cell: the message it
belongs to and its place in the frame. `ServerWrites(n)` is one `write` of
`ServerMsgBuffer`: the descriptors of as many messages as fit in the queue of the crate
`fd-queue` are enqueued, their messages framed, and the kernel takes `n` bytes, the
descriptors travelling with the first. `ServerWriteBlocks` is a write that takes none,
after the descriptors have been enqueued. `WorkerReads` reads into the fixed buffer of
2048 bytes, `ServerReads` into one that is doubled when it runs low; both then take the
complete frames and move the rest to the front (`Parse`). The server reads once for each
report of mio, which is edge triggered: `edge` is set when the worker writes and cleared
by the read, which need not take everything. `Reregister` sets it again for what was
left, as a change of the interest does (`unixstreams.rs:57-121`); nothing makes it
happen. `NextStreamFd` pairs the
oldest message with the oldest descriptor. As Linux does it, a read ends with the bytes
of a write that carried descriptors.

Kind and size of a frame are all that is kept of a message: `Size` gives the bytes of a
request, of a keep-alive answer and of an error. The sizes of the code (9, 9 and more)
are replaced by 2, 2 and 3, and the buffers made as small, so that every cut happens; the
proofs cover every size, of frames, queue, socket and buffers.

### Exchange

One stream is `"idle"` (with the server), `"reading"`, `"waiting"` (for its thread),
`"writing"` or `"closed"`. `ReadHeader` and `ReadBody` are one call of the reader,
with its growing buffer, and the bytes of the body that came with the header. The
thread is where `pythonexec::run` is: waiting for a request, in the callable, at the first
chunk, streaming, or sending the chunks kept in memory. `StartResponse`, `Read`, `ReadLine` and
`ReadLines` are the calls an application may make, in any order and from the iterator
as well. `Read` stands for `read` and for the iterator over the bytes, `ReadLine` for
`readline`, which stops at a newline and does not pass it; `readlines` with a limit is as
many of these. `ReadLines` is `readlines` without a limit, or with a limit of 0:
the loop never ends, so the application does nothing any more (`in_readlines`) but take
further turns (`ReadLinesTurn`).
`response_header` and `context` are the thread-local slots. `WriteStream` is one
call of the writer: it takes at most one chunk from the channel and writes some bytes.

Abstractions:

* The application is arbitrary within the bounds `MaxStarts`, `MaxYields`, `MaxChunks`,
  `MaxRaises`. It ends its iterator; one that raises for ever holds its thread for ever,
  and is left out by `MaxRaises`.
* What makes a header valid is one flag of the request; a header is `HeaderSize` bytes.
* One client on one thread of the worker. When each part runs is any order: the order
  of the loop is in `Worker`.
* A client sends and closes (`Send`, `CloseWrite`) only where the program can tell: before
  or during a read of its stream. `Quiet` lets the model stay where it is when nothing is
  under way and the clients have no more to send; every other deadlock is an error.
* The two early returns of `run` when the worker's main thread has gone are left out.

### WorkQ

`created` threads have been spawned, `alive` ones still have their receiver;
`senders` and `pos` are the fields of `workq::Sender`, a thread standing for the
`mpsc::Sender` of its channel. `Send` is `send` up to its loop, and each turn of the
loop is a step of its own, `Deliver`, `Drop` or `Fail`, so that threads may end
(`Die`) between two attempts. `given` counts what each channel has been given: what
a request is, and what its thread does with it, belongs to `Worker`, where a request
is taken by any thread that lives; that a request is refused only when none is left
(`FailsOnlyWithoutThreads`) is what `Worker` relies on. `MaxSends` bounds the calls.

## 3. Runs

Of the worker (`MCWorker`); `MaxRequests` is 1 everywhere, so that two requests
reach the limit.

| run | instance | shows |
|---|---|---|
| `worker_loop` | 2 requests, 1 thread, no faults, fairness of the loop only | loop and thread agree on each request; `Service` is implemented; the two timers end what silent clients and stuck applications began |
| `worker_fair` | 1 request, 1 thread, every fault, all fairness | types; no stream is lost or answered twice, whichever call fails; `Service` is implemented; every request is answered; a closing worker exits, and then no request waits or is executed by a callable, and no response of a callable is unsent (`ExitedIdle`; iterators still asked for chunks and casket's own responses are not covered, see finding 2) |
| `worker_max_requests` | 2 requests, 1 thread, no faults | the limit of the documentation is exceeded (finding 1) |
| `worker_sigint` | 2 requests, 1 thread, SIGINT | the worker exits with a response half written (finding 2) |

Of the server (`MCServer`); tokens have a range of 4 per stream, `FdQueue` is 1
everywhere, so that two requests for one worker do not fit in one write, and `ReadMax`
is 1, so that a read leaves the second of two answers.

| run | instance | shows |
|---|---|---|
| `server_safety` | 3 clients, limit 2, 2 workers, failing registry and poll | maps, load counts and what the workers have agree; each stream is in one place; the limit holds; `Gateway` is implemented |
| `server_loop` | 2 clients, 1 worker that may die, two SIGINTs, fairness of the loop | a shutdown ends, whatever the worker does; `Gateway` is implemented through it: idle streams are closed at once, a busy one without an answer only when the wait is over; what a worker that lives and answers has been given comes back, while there is never more on its way than one read takes |
| `server_sigint` | 2 clients, SIGINT | the server fails with requests in progress (finding 3) |
| `server_missed_sigint` | 1 client, SIGINT | a SIGINT goes unnoticed (finding 4) |
| `server_backlog` | 2 clients, limit 1 | a connection is left in the backlog (finding 5) |

Of the rest:

| run | instance | shows |
|---|---|---|
| `workq` | 4 threads that may end, 9 requests | the round robin is even, in bounds, and gives up only when no thread is left |
| `channel` | 4 requests, a queue of 2 descriptors, sockets and buffers of 2 bytes | `Handover` is implemented; descriptors never come after their messages; no read is into an empty slice; every request arrives, and every answer if what a read leaves is reported again |
| `exchange` | 2 requests on one stream or two, valid or not, with and without body and keep-alive | bodies are framed, responses whole, slots the request's own; no stream is cut off; thread and writer go on, `readlines` without a limit excepted |

Why the bounds are enough. In the worker, requests interact through
`num_pending_reqs`, the thread that is busy with the other one, and the rounds of
the loop they share: two show each of these. A third adds no new kind of
interaction, since nothing in the loop relates more than two streams. `worker_fair`
has one request and one thread, because the fairness conditions are per token and per
thread and more take TLC beyond the time these checks are meant to take; the
interference of two requests under fairness is covered by `worker_loop`, that of
several threads, of which some die, and of faults with several requests, by the
proofs, which cover every number of both and every set of faults. In the server, streams interact through the load counts,
the queue to one worker, the limit and the listener: two clients show each but the
limit, which takes one more than the limit itself. Two workers are needed for the
counts to be compared (`server_safety`), and one worker for two streams to be in the same
unix stream: with two workers and at most two streams each has one (`server_loop`).
`KeepAliveBound` is 1, so that streams come back under a second token; `SigintBound` is 2
where the second matters. In the queue
nine requests are two rounds of four threads and one more; the proofs cover every
number. In the channel a socket and buffers hardly larger than a frame cut every frame
at every place, and four requests are one more than a full queue and a blocked write
hold back; the server's buffer starts shorter than the answer of an error, so that its
reads leave something behind, and without `ReportsAgain` the property fails. In the exchange
two requests are what can be mixed up: on one stream, or in one thread; a body has two bytes so that it can be cut, and the header three with a
buffer of two, so that it must grow; the proofs cover every number and size.

The faults are parameters: `Faults` lists which of failing clients, SIGINT,
dying threads, failing registry calls and failing i/o an instance has; `worker_fair`
has them all. The others leave out those that only multiply states without touching
the question. `EveryRequestAnswered` and `ClosingExits` except a worker of which some
thread has died and another lives: what was in the channel of the dead one is counted
for ever and never answered.

Fairness. `LoopFairness`: the loop is one thread, so it goes on while it has
something to do, and its poll returns after 20 ms if events were gathered
(`worker/mod.rs:93-97`), when the first timer is due (`poller.rs:57-66`; strong
fairness per timer, since a timer once armed stays armed) and when the unix
stream is ready. `ThreadFairness`: a thread takes its next request and the
application returns. `ClientFairness`: a stream watched for writing is
reported, and its client takes what is written or fails. `LoopSpec` assumes the
first only: this is what the 408 and 504 timers are for.

In the server, `LoopFairness` is the fairness of two OS threads, the loop and the
SIGINT handler, and of time; the poll returns when it has something to report, when
it is interrupted and, during a shutdown, after 100 ms (`server/mod.rs:128-132`).
`LoopSpec` assumes nothing of clients and workers, and `ShutdownEnds` needs no more.
`EveryStreamComesBack` says itself what it needs of the workers,
`WorkerFairness`: a worker reads its unix stream and answers each request, which is the
liveness property `EveryRequestAnswered` of the worker.

This has a limit, which the property states. The server reads one buffer (2048 bytes,
`ReadMax` answers) per event (`msgs/mod.rs:33-39`) and makes mio look at a unix stream
again only when its interest changes (`unixstreams.rs:57-121`). Answers beyond one
buffer wait until the worker writes again or the server's interest changes, and nobody
has to do either. So `EveryStreamComesBack` is about workers that never have more
answers on the way than one read takes (`ReadsTakeAll`). Without the condition it fails
as soon as `ReadMax` is smaller than the number of answers; no document promises it.

In the channel, weak fairness is of the two ends writing and taking whenever the stream
lets them, of the worker reading, and of the server reading *what has been reported*
(`edge`); nothing makes the server ask or the worker answer, and nothing makes
`Reregister` happen. `EveryMessageArrives` says what follows: every request is taken; every
answer is too if `ReportsAgain`, that whatever stays on the way is reported at some time. In the
exchange the python thread goes on: the callable returns and the iterator ends, unless
they are in a `readlines` that does not. `ThreadComesBack` and `ResponsesEnd` say so
(`CodeComesBack`). `ResponsesEnd` also states `WritersGoOn`: a client takes what is written,
or fails. Clients need not send.

### Findings

1. `CASKET_MAX_REQUESTS` (`doc/configuration.rst:60-66`) limits the requests
   handed to the threads, says the documentation; the code tests it when the
   stream arrives (`worker/mod.rs:121`), before the request is read, so any number
   of streams that arrive together pass. `AtMostMaxRequests` is violated.
2. On SIGINT the active requests are finished (`doc/configuration.rst:194-195`);
   the exit test (`worker/mod.rs:72-76`) leaves out `server_casket_responses` (and
   the requests still being read). `ActiveRequestsFinish` is violated.
3. The poll that finds `running` false empties `reading_streams`
   (`server/mod.rs:136-141`) and then handles its events. If one of them is of an
   idle stream, its token is in no map, and `run_server` returns `UnknownToken`
   (`server/mod.rs:197`) without waiting for the requests in progress.
   `SigintGraceful` is violated.
4. A SIGINT that is delivered while the loop is not in poll, or to another
   thread, interrupts nothing; the poll that follows has no timeout
   (`server/mod.rs:128-133`). `SigintEnds` is violated.
5. Newer streams beyond `CASKET_MAX_CONNECTIONS` are accepted and shut down
   (`doc/configuration.rst:40-41`); the loop accepts one stream per event of an
   edge-triggered listener (`server/mod.rs:145`), and the second of two that
   arrive together waits for a third. `NewerStreamsAccepted` is violated.

Not a finding, but a limit of the model: `server/mod.rs:18-23` gives each stream a
range of 131072 tokens, and nothing stops a stream that is kept alive from leaving
its range (`server/mod.rs:99`); a token that is in use then replaces another
stream in the map. `KeepAliveBound` keeps the model inside the range, and `ServerAssumption` says so:
`KeepAliveBound * KEEP_ALIVE_COUNT_INC < NEW_STREAM_COUNT_INC`. The theorems about
the server have it as their hypothesis.

## 4. Proofs

Of the worker everything is proved for any finite set of tokens, any set of threads, any limit
and any set of faults (`TokenAssumption`, `ConfigAssumption`), from
`Spec == Init /\ [][Next]_vars`.

`TypeOK` is inductive by itself (`TypeCorrect`). None of the other properties is,
and they lean on one another; `IInv` is their common strengthening:

* `PhaseInv` - each buffer is empty outside the phases that use it, and results
  of the timeout phase are all responses of casket. Without it a stream could be
  in `events` and polled again.
* `RequestsAccounted` - inductive with `OwnInv`: an answer takes its descriptor
  out of `server_fds` in the same step.
* `OwnInv` - `OneOwner` for one token, without the proviso that the worker runs.
* `WatchInv` - a watched stream is in the map of its event, or its event or
  result is on the way. This is why readiness reports find what they look for.
* `StartedInv` - what exists only after a thread has taken a request (a timer, a
  code start, a timed-out mark, a response) is never found with a request that is
  still on its way to the threads. This is why a late response or a stale
  timer cannot hit a request that has not been executed.
* `AwaitInv` - a request is in one place among the threads and channels, and the
  loop waits for it, as pending or as timed out; without dead threads also the
  converse.
* `PendingAccounting` - the count.

One lemma per part shows that every step keeps it, from the parts it needs;
`Steps` first folds the forty actions into the few shapes that matter to the
invariant, so that each lemma has one step per shape. The theorems are
`EveryRequestAccounted`, `EveryStreamOwned`, `NoExpectPanics`, `PendingCounted`,
`LoopAndThreadsAgree` and `ExitsIdle`. `OneOwner`, `ExpectsHold` and
`ThreadsAgree` follow from `IInv` alone; `ExitedIdle` also needs that only the
exit test leads to `"exited"` and that nothing happens after it.

Of the queue everything is proved for any number of threads and calls
(`WorkQAssumption`). `Balanced` is not inductive: that no two counts differ by more
than one does not say that the next request goes to one with the lower count.
`Ordered` does: in the order of their turns, from the sender that is next, the counts
never fall, and rise by one at most. Who is served goes from the first place to the last
(`Served`), and who is removed has the first place, so the others keep their order
(`MovedUp`). `PosOK` bounds the position, `Known` says that the senders have every
thread that lives, each once, and `Spawning` that nothing is sent before `spawn` has
returned. The theorems are `TypeCorrect`, `NoIndexPanics`, `RefusedWithoutThreads` and
`DealtEvenly`.

That the worker implements `Service` (`WorkerServes`) follows from `IInv` and
`OneThread`, that no request is with two threads. `IInv` gives the point of the
argument: a request that is still on its way to a thread has been sent and not been
answered (`EarlyWaits`). So a step that answers nothing and puts no request on its way
can only be a refusal of the requests that have left it, or nothing (`RefusesOrStays`);
this takes care of all steps but four kinds, which are `Arrive`, `Execute`, `Answer`, and
`Finish` or `Die`.

Of the server everything but liveness is proved for any finite sets of clients and
workers, any limit and any set of faults, from `ServerAssumption`. Its `IInv`:

* `TokenInv` - no two streams share a token or the part of it that numbers the stream
  (`Number`), and the numbers in use are not above `stream_count`, so the tokens of the
  next stream are free: an `insert` never replaces a stream. It rests on a token being
  `TokenOf` its stream and the rounds it was kept alive, which is where the bound on the
  rounds is needed (`TokenParts`, from the uniqueness of quotient and remainder).
* `AcceptInv` - the counter is the number of streams accepted, so it stays in range.
* `OnceInv` - `EachStreamOnce` for one client, without the proviso that the server is up.
* `LimitInv` - the limit in terms of the sizes of the maps, which is what the code
  compares; with `OnceInv` the open streams are no more than the tokens (`OpenCount`).
* `WorkInv` - what is with a worker is in `processing_streams`, with no other worker, and
  in one of the six stages from `to_send` to `stream_tks` and `stream_close_tks`
  (`OneStage`); and nothing in `processing_streams` is with no worker. This is why both
  `expect`s hold.
* `LoadCounted` - a dispatch adds one stream to those with the worker and an answer
  popped removes one, because of `WorkInv` (`Adds`, `Removes`); everything else moves it
  from a stage to the next (`Moves`). Without it a load could go below zero.
* `KeepInv` - a stream that its worker keeps alive has a token left.

`MapSteps` folds the actions of `Next` into the few moves of the two maps (`MapStep`),
from which the first four parts follow; `WorkStep` does the rest. The theorems are
`ServerTypes`, `LoadIsCounted`, `StreamsOnce`, `ConnsAreBounded` and
`ProcessingWithWorkers`.

That the server implements `Gateway` (`ServerServes`) has two halves. `ConnStep`,
`ConnOfOne` and `ConnOfToken` say what each move of the maps is for the clients: `OnceInv`
makes a client's state a function of the map it is in. A shutdown's wait is the same on
both sides (`expired`), so that `Halt` is the exit of a server whose time is up and no other
step. The verdicts change only when a
worker answers (`Judges`) and when its answer is popped; a stream that goes to a worker
has none (`NoVerdict`), since a token is in one stage.

Of the exchange every safety property is proved for any clients (`Load`), streams and
requests, any header and buffer size and any bounds, from `ExchangeAssumption`. Its
`IInv`:

* `StreamInv` - what was taken from a stream is what was sent on it up to the end of a
  request (`End`), and what its reader has is the slice after that: of a header
  (`HeaderSlice`) or of a body (`ReadsBody`). This is why a header found at the start of
  the buffer is that of the next request, and why a read that ends where the body ends
  has not taken a byte of the one after. `Outcome` says what one read makes of it.
* `QueueInv` - a queued request has been taken whole, is queued once, with its own body,
  and is not the one the thread is at.
* `ThreadInv` - `SlotsOwn`, that a thread in `readlines` is at its application, and what
  each of the five places of `run` leaves in `header`, `next_val` and `sending`; a header in the slot while the callable
  runs is the last one it gave. What is in `next_val` has been yielded but not sent.
* `ResponseInv` - a response is in four parts that follow one another: what is written,
  the writer's buffer, the chunks in the channel, and the chunk the thread holds back.
  Together they are `Due`, and each part starts where the one before ends (`Piped`,
  `Chunked`, `InChunks`). Nothing of it exists before the thread answers (`Preparing`),
  and once the sender is gone and the channel is empty the buffer ends where `Due` ends.

`WholeResponses` alone is not inductive: it says nothing of the bytes that are on their
way, and a chunk lost in the channel would only show after the next write. One lemma per
part shows that every step keeps it (`StreamStep`, `QueueStep`, `ThreadStep`, `TypeStep`,
`ResponseStep`), each from what a group of actions does (`SilentIs`, `AnswerIs`, `ReadStep`,
`WriteIs`). The theorems are `ExchangeTypes`, `ExchangeRequestsFramed`,
`ExchangeWholeResponses`, `ExchangeSlotsOwn` and `ExchangeNotCutOff`.

`Through`, what is sent on a stream up to a request, is a recursive function. What it
computes is shown by least counterexample, without an induction theorem: a set of numbers
that is not empty has a least one (`NatLeast`, from the well-foundedness of `<`), so a set
that has 0, and n + 1 with n, has them all (`UpTo`). `ThroughExists` and `ThroughStep` give
the recursion, `ThroughType`, `ThroughGrows` and `NextRequest` what it says of the bytes.

Of the channel every safety property is proved, and that it implements `Handover`, for any
number of requests, any sizes of frames, and any room in the queue of descriptors, the
kernel and the buffers, from `ChannelAssumption` (a request fits in the worker's buffer,
which is why `WorkerBuffer` may be fixed). Its `IInv` is about all that is on the way, from
`wrk_read` over the kernel to `srv_write` (`DownCells`), and back (`UpCells`):

* `DownInv`, `UpInv` - these bytes are frames, one after the other, wherever a buffer ends
  (`Framed`, `Ended`). It also says whose descriptors are on the way: those that wait
  at the worker, those in the kernel and those enqueued, in this order, are those of the
  messages that wait and of the messages whose last byte is on the way.
* `LeadInv` - however many of the bytes in the kernel the worker has read, it has at least
  as many descriptors as complete messages. `DescriptorsLead` is this for the bytes it
  has read; without the others it is not inductive, since a read may complete a message
  whose descriptor was to come with a later write. It is kept because a write sends
  all descriptors that are enqueued with its first byte, and a message is framed only
  after its descriptor is enqueued. With `DownInv` a count is all it needs: two
  beginnings of one sequence agree (`LeadIs`).
* `ReadInv` - what is left of a read is less than one frame, and the server's buffer is as
  long as what it holds. `ReadsGoOn` follows.
* `HeldInv`, `AskedInv` - the worker answers for the stream a request came with, and
  requests are numbered.

The argument rests on what one read does (`ReadIs`): of frames a, with b behind them, it
takes the messages that are complete in a (`ParseIs`), and leaves the beginning of a frame
that b goes on with; no message is complete in it. So a read moves messages from the
bytes on the way to those that wait, and nothing else, and writes move bytes from one
buffer to the next (`DownWrites`, `DownBlocks`, `DownReads`, `DownTakes`; `UpAnswers`,
`UpWrites`, `UpReads`). This is why most steps of the channel are none of `Handover`
(`HandoverStep`). The theorems are `ChannelInvariant`, `ChannelTypes`,
`DescriptorsBelong`, `RoomToRead` and `ChannelHandsOver`.

`MsgChannel` takes frames out of a buffer with a recursive function (`Ends`) and builds
others with `FlattenSeq`, which is one; what they compute is shown by least
counterexample as well (`FlatIs`, `FlatAppend`, `EndsIs`), over the length of a sequence
(`SeqInduction`).

Only model-checked: the liveness properties, since liveness under fairness is out of the
prover's reach. Every other property of a passing run has its theorem.

## 5. Not modelled, and the plan

Each safety property that a run finds to hold is proved. What could be added is the
application logger (`pythonexec/logger.rs`) beyond its context, and start-up.

Not modelled:

* Configuration (`config.rs`), errors and logging: reading the environment once, and
  wording. (`CASKET_NUM_WORKERS=0` is accepted, `config.rs:61`, and panics at the first
  request, `server/unixstreams.rs:203`; `Server` assumes one worker at least.)
* Start-up (`main.rs`): binding and forking, and what follows from forking in a loop: a
  worker has copies of the descriptors of those forked before it, so the end of the
  server is not seen as the end of the stream. The server does not die in the models.
* HTTP as text, trace ids and trace contexts: pure functions of their input.
* Descriptors as a resource: `into_raw_fd` (`worker/mod.rs:274`) gives up ownership of
  the descriptor of each answered stream without closing it.
* The `close` method of a response body, which PEP 3333 asks for and the code never
  calls; iterators that raise for ever.

Deviations met on the way that the models could state only by restating one line, and
which are therefore not among the findings: `readline` of `wsgi.input` stops before a
newline and never passes it (`pythonexec/wsgi.rs:300-305`), and `readlines` without a
limit, or with a limit of 0, never returns (`pythonexec/wsgi.rs:318-327`), both against
`doc/implementation.rst:46-47` ("Casket fully implements the `wsgi.input` protocol"): the
model has both as they are, and the liveness of the exchange is stated for applications
that do come back (`CodeComesBack`); a status that is not valid raises a `ValueError` where `doc/implementation.rst:25` has a
`RuntimeError` (`pythonexec/wsgi.rs:243`); the
responses casket makes itself carry no `X-TraceId`, against `doc/tut-logging.rst:43`.
