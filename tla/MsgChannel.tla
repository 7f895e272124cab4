----------------------------- MODULE MsgChannel -----------------------------
(***************************************************************************)
(* The unix stream between the server and one worker, as msgs/mod.rs uses  *)
(* it at both ends: messages in frames, a byte stream that is written and  *)
(* read in parts, and descriptors that go with the first byte of a write.  *)
(*                                                                         *)
(* A byte is a cell: the message it belongs to and its place in the frame. *)
(* When either end reads and writes is up to the modules Server and        *)
(* Worker; here it may do so whenever the stream lets it, and the server   *)
(* reads when mio, which is edge triggered, has something to report.       *)
(***************************************************************************)
EXTENDS Naturals, FiniteSets, SequencesExt

CONSTANTS
  NumRequests,     (* bound: requests handed over, numbered in their order  *)
  Size,            (* bytes of a frame, by kind of message: 1 byte of length *)
                   (* and a "request", 4 bytes and an answer of another kind *)
  FdQueue,         (* descriptors fd-queue holds for the next write         *)
  SocketSize,      (* bytes the kernel holds per direction                  *)
  WorkerBuffer,    (* 2048: the worker's read_buffer                        *)
  ServerBuffer,    (* 2048: the server's, which is doubled when less than   *)
  ServerRoom       (* 512 bytes of it are free                              *)

Kind == DOMAIN Size \ {"request"}
Request == 1 .. NumRequests

ASSUME ChannelAssumption ==
  /\ NumRequests \in Nat
  /\ {"request", "keep"} \subseteq DOMAIN Size /\ \A k \in DOMAIN Size : Size[k] \in Nat \ {0}
  /\ FdQueue \in Nat \ {0} /\ SocketSize \in Nat \ {0}
  /\ WorkerBuffer \in Nat /\ WorkerBuffer >= Size["request"]
  /\ ServerBuffer \in Nat \ {0} /\ ServerRoom \in 1 .. ServerBuffer

VARIABLES
  asked,
  (* ServerMsgBuffer                                                       *)
  to_send, srv_write, srv_read, srv_len, stream_tks, stream_close_tks,
  outfds,          (* descriptors enqueued and not sent (crate fd-queue)     *)
  (* the kernel: bytes on their way to the worker, and back                *)
  down, up,
  edge,            (* mio has yet to report to the server that there are some *)
  (* WorkerMsgBuffer                                                       *)
  wrk_read, wrk_write, stream_msgs, stream_fds,
  held             (* server_fds, with the descriptor each stream came as    *)

serverVars == <<to_send, srv_write, srv_read, srv_len, stream_tks, stream_close_tks, outfds>>
workerVars == <<wrk_read, wrk_write, stream_msgs, stream_fds, held>>
vars == <<asked, serverVars, down, up, edge, workerVars>>

Init ==
  /\ asked = {}
  /\ to_send = << >> /\ srv_write = << >> /\ srv_read = << >> /\ srv_len = ServerBuffer
  /\ stream_tks = << >> /\ stream_close_tks = << >> /\ outfds = << >>
  /\ down = << >> /\ up = << >> /\ edge = FALSE
  /\ wrk_read = << >> /\ wrk_write = << >> /\ stream_msgs = << >> /\ stream_fds = << >>
  /\ held = {}

-----------------------------------------------------------------------------
(* Frames of messages <<request, kind>>.                                   *)

Frame(msg) == [i \in 1 .. Size[msg[2]] |-> [msg |-> msg, at |-> i]]
Requests(tks) == FlattenSeq([i \in DOMAIN tks |-> Frame(<<tks[i], "request">>)])
Tokens(msgs) == [i \in DOMAIN msgs |-> msgs[i][1]]
TokensOf(msgs, kinds) ==
  FlattenSeq([i \in DOMAIN msgs |-> IF msgs[i][2] \in kinds THEN <<msgs[i][1]>> ELSE << >>])

First(s, n) == SubSeq(s, 1, n)
Rest(s, n)  == SubSeq(s, n + 1, Len(s))
Least(a, b) == IF a < b THEN a ELSE b

(* Mutant: a frame is taken when all but its last byte have arrived.       *)
Ends_TooEarly(buf) ==
  LET end[n \in 0 .. Len(buf)] ==
        IF n = 0 THEN 0
        ELSE LET p == end[n - 1]
             IN IF p < Len(buf) /\ p + Size[buf[p + 1].msg[2]] <= Len(buf) + 1
                THEN Least(Len(buf), p + Size[buf[p + 1].msg[2]]) ELSE p
  IN end

(* Where the frames that are complete in a read buffer end: the loop takes *)
(* a frame when its length and that many bytes have arrived.               *)
Ends(buf) ==
  LET end[n \in 0 .. Len(buf)] ==
        IF n = 0 THEN 0
        ELSE LET p == end[n - 1]
             IN IF p < Len(buf) /\ p + Size[buf[p + 1].msg[2]] <= Len(buf)
                THEN p + Size[buf[p + 1].msg[2]] ELSE p
  IN end

(* What the loop takes out of a read buffer, and what it leaves in it.     *)
Parse(buf) ==
  LET end == Ends(buf)
      count == Cardinality({n \in 1 .. Len(buf) : end[n] > end[n - 1]})
  IN [msgs |-> [n \in 1 .. count |-> buf[end[n]].msg], rest |-> Rest(buf, end[Len(buf)])]

-----------------------------------------------------------------------------
(* Server to worker.                                                       *)

(* The server hands over the next stream.                                  *)
Ask(tk) ==
  /\ tk = Cardinality(asked) + 1
  /\ asked' = asked \cup {tk}
  /\ to_send' = Append(to_send, tk)
  /\ UNCHANGED <<srv_write, srv_read, srv_len, stream_tks, stream_close_tks, outfds, down, up, edge,
                 workerVars>>

(* Mutant: a queue that still holds descriptors counts as empty.           *)
Enqueued_Empty == Least(Len(to_send), FdQueue)

(* How many descriptors fit in the queue.                                  *)
Enqueued == Least(Len(to_send), FdQueue - Len(outfds))

HasDataToSend == to_send # << >> \/ srv_write # << >>

(* A write of n bytes: the descriptors go with the first of them.          *)
Packets(buffer, fds, n) ==
  [i \in 1 .. n |-> [cell |-> buffer[i], fds |-> IF i = 1 THEN fds ELSE << >>, first |-> i = 1]]

(* Mutant: the message is framed though its descriptor does not fit.       *)
ServerWrites_All(n) ==
  /\ HasDataToSend
  /\ LET buffer == srv_write \o Requests(to_send)
         fds == outfds \o First(to_send, Enqueued)
     IN /\ n \in 1 .. Least(Len(buffer), SocketSize - Len(down))
        /\ down' = down \o Packets(buffer, fds, n)
        /\ srv_write' = Rest(buffer, n)
  /\ to_send' = << >>
  /\ outfds' = << >>
  /\ UNCHANGED <<asked, srv_read, srv_len, stream_tks, stream_close_tks, up, edge, workerVars>>

(* Descriptors are enqueued as long as they fit, each with its message in  *)
(* the buffer; the kernel takes the first n bytes of it, and the           *)
(* descriptors with the first of these.                                    *)
ServerWrites(n) ==
  /\ HasDataToSend
  /\ LET buffer == srv_write \o Requests(First(to_send, Enqueued))
         fds == outfds \o First(to_send, Enqueued)
     IN /\ n \in 1 .. Least(Len(buffer), SocketSize - Len(down))
        /\ down' = down \o Packets(buffer, fds, n)
        /\ srv_write' = Rest(buffer, n)
  /\ to_send' = Rest(to_send, Enqueued)
  /\ outfds' = << >>
  /\ UNCHANGED <<asked, srv_read, srv_len, stream_tks, stream_close_tks, up, edge, workerVars>>

(* The kernel takes nothing: the messages stay framed, the descriptors     *)
(* enqueued.                                                               *)
ServerWriteBlocks ==
  /\ to_send # << >> /\ Len(down) = SocketSize
  /\ srv_write' = srv_write \o Requests(First(to_send, Enqueued))
  /\ outfds' = outfds \o First(to_send, Enqueued)
  /\ to_send' = Rest(to_send, Enqueued)
  /\ UNCHANGED <<asked, srv_read, srv_len, stream_tks, stream_close_tks, down, up, edge, workerVars>>

(* The kernel ends a read after a write that carried descriptors.          *)
Readable(room) ==
  CHOOSE n \in 0 .. Least(room, Len(down)) :
    /\ \A i \in 1 .. n, k \in 1 .. n : k < i /\ down[k].fds # << >> => ~down[i].first
    /\ n < Least(room, Len(down)) => down[n + 1].first /\ \E k \in 1 .. n : down[k].fds # << >>

(* The bytes of what is on its way to the worker, and the descriptors that *)
(* come with these.                                                        *)
Cells(packets) == [i \in DOMAIN packets |-> packets[i].cell]
Fds(packets)   == FlattenSeq([i \in DOMAIN packets |-> packets[i].fds])

(* One read into what is free of the buffer, the complete messages, and    *)
(* the descriptors that came with the bytes.                               *)
WorkerReads ==
  /\ down # << >>
  /\ LET n == Readable(WorkerBuffer - Len(wrk_read))
         parsed == Parse(wrk_read \o Cells(First(down, n)))
     IN /\ down' = Rest(down, n)
        /\ wrk_read' = parsed.rest
        /\ stream_msgs' = stream_msgs \o Tokens(parsed.msgs)
        /\ stream_fds' = stream_fds \o Fds(First(down, n))
  /\ UNCHANGED <<asked, serverVars, up, edge, wrk_write, held>>

(* Mutant: the descriptor that came last is taken.                         *)
NextStreamFd_Last ==
  /\ stream_fds # << >> /\ stream_msgs # << >>
  /\ held' = held \cup {<<Head(stream_msgs), stream_fds[Len(stream_fds)]>>}
  /\ stream_fds' = First(stream_fds, Len(stream_fds) - 1)
  /\ stream_msgs' = Tail(stream_msgs)
  /\ UNCHANGED <<asked, serverVars, down, up, edge, wrk_read, wrk_write>>

(* next_stream_fd: the oldest descriptor with the oldest message; without  *)
(* a message the descriptor waits.                                         *)
NextStreamFd ==
  /\ stream_fds # << >> /\ stream_msgs # << >>
  /\ held' = held \cup {<<Head(stream_msgs), Head(stream_fds)>>}
  /\ stream_fds' = Tail(stream_fds)
  /\ stream_msgs' = Tail(stream_msgs)
  /\ UNCHANGED <<asked, serverVars, down, up, edge, wrk_read, wrk_write>>

-----------------------------------------------------------------------------
(* Worker to server.                                                       *)

(* resp_stream_done_ok, resp_io_error and their likes.                     *)
Answer(tk, kind) ==
  /\ tk \in {p[1] : p \in held}
  /\ held' = {p \in held : p[1] # tk}
  /\ wrk_write' = wrk_write \o Frame(<<tk, kind>>)
  /\ UNCHANGED <<asked, serverVars, down, up, edge, wrk_read, stream_msgs, stream_fds>>

WorkerWrites(n) ==
  /\ n \in 1 .. Least(Len(wrk_write), SocketSize - Len(up))
  /\ up' = up \o First(wrk_write, n)
  /\ wrk_write' = Rest(wrk_write, n)
  /\ edge' = TRUE
  /\ UNCHANGED <<asked, serverVars, down, wrk_read, stream_msgs, stream_fds, held>>

(* Mutant: the buffer keeps its length.                                    *)
Grown_Never(len, used) == len

Grown(len, used) == IF len - used < ServerRoom THEN 2 * len ELSE len

(* One read of the server for each report, and the complete answers of it. *)
(* What it leaves is not reported for that.                                *)
ServerReads ==
  /\ edge /\ up # << >>
  /\ edge' = FALSE
  /\ srv_len' = Grown(srv_len, Len(srv_read))
  /\ LET n == Least(srv_len' - Len(srv_read), Len(up))
         parsed == Parse(srv_read \o First(up, n))
     IN /\ up' = Rest(up, n)
        /\ srv_read' = parsed.rest
        /\ stream_tks' = stream_tks \o TokensOf(parsed.msgs, {"keep"})
        /\ stream_close_tks' = stream_close_tks \o TokensOf(parsed.msgs, Kind \ {"keep"})
  /\ UNCHANGED <<asked, to_send, srv_write, outfds, down, workerVars>>

(* What a read has left is reported again when the interest in the unix    *)
(* stream changes, or if it came while the read was under way.             *)
Reregister ==
  /\ ~edge /\ up # << >>
  /\ edge' = TRUE
  /\ UNCHANGED <<asked, serverVars, down, up, workerVars>>

NextStreamTk ==
  /\ \/ /\ stream_tks # << >> /\ stream_tks' = Tail(stream_tks)
        /\ UNCHANGED stream_close_tks
     \/ /\ stream_close_tks # << >> /\ stream_close_tks' = Tail(stream_close_tks)
        /\ UNCHANGED stream_tks
  /\ UNCHANGED <<asked, to_send, srv_write, srv_read, srv_len, outfds, down, up, edge, workerVars>>

-----------------------------------------------------------------------------
(* Every request has been handed over and answered, and the answers taken. *)
Idle ==
  /\ asked = Request /\ to_send = << >> /\ srv_write = << >> /\ down = << >>
  /\ stream_msgs = << >> /\ held = {} /\ wrk_write = << >> /\ up = << >>
  /\ stream_tks = << >> /\ stream_close_tks = << >>
  /\ UNCHANGED vars

Next ==
  \/ \E tk \in Request : Ask(tk) \/ \E kind \in Kind : Answer(tk, kind)
  \/ \E n \in 1 .. SocketSize : ServerWrites(n) \/ WorkerWrites(n)
  \/ ServerWriteBlocks \/ WorkerReads \/ NextStreamFd \/ ServerReads \/ Reregister
  \/ NextStreamTk \/ Idle

Spec == Init /\ [][Next]_vars

(* The two ends go on as long as there is something to write, to take or   *)
(* to read; the worker reregisters its end in each round, so that all that *)
(* is left at it is reported again, and the server, which does so only if  *)
(* its interest changes, reads when there is a report.  Nothing makes the  *)
(* server ask, the worker answer, or mio report what a read has left.      *)
GoesOn ==
  \/ \E n \in 1 .. SocketSize : ServerWrites(n) \/ WorkerWrites(n)
  \/ WorkerReads \/ NextStreamFd \/ ServerReads \/ NextStreamTk
Fairness == WF_vars(GoesOn)
FairSpec == Spec /\ Fairness

(***************************************************************************)
(* Properties.                                                             *)
(***************************************************************************)

Cell == [msg : Request \X DOMAIN Size, at : Nat]

(* Every variable of the channel keeps its type, and neither the queue of  *)
(* descriptors nor the kernel is given more than it holds.                 *)
TypeOK ==
  /\ asked \subseteq Request /\ held \subseteq Request \X Request
  /\ \A q \in {to_send, stream_tks, stream_close_tks, outfds, stream_msgs, stream_fds} :
       q \in Seq(Request)
  /\ \A q \in {srv_write, srv_read, up, wrk_read, wrk_write} : q \in Seq(Cell)
  /\ down \in Seq([cell : Cell, fds : Seq(Request), first : BOOLEAN])
  /\ srv_len \in Nat /\ edge \in BOOLEAN
  /\ Len(outfds) <= FdQueue /\ Len(down) <= SocketSize /\ Len(up) <= SocketSize

(* Messages whose last byte is among these cells.                          *)
LastOf(c)    == c.at = Size[c.msg[2]]
Whole(cells) ==
  FlattenSeq([i \in DOMAIN cells |-> IF LastOf(cells[i]) THEN <<cells[i].msg>> ELSE << >>])
DownCells == wrk_read \o Cells(down) \o srv_write
UpCells   == srv_read \o up \o wrk_write

(* The messages on the way are those whose last byte is; a request leaves  *)
(* the way when it is paired with its descriptor.                          *)
Abstract == INSTANCE Handover WITH
  requests <- stream_msgs \o Tokens(Whole(DownCells)) \o to_send,
  answers  <- Whole(UpCells),
  keep     <- stream_tks,
  close    <- stream_close_tks

(* The two message buffers and the byte stream hand over whole messages,   *)
(* once, in order, and each request with its own descriptor, wherever      *)
(* writes and reads are cut and however many descriptors fit in a write    *)
(* (msgs/mod.rs:33-112, 137-209).                                          *)
HandsOver == Abstract!Spec

(* A message that has arrived never waits for its descriptor: next_stream_fd *)
(* takes it at once, and pairing by position pairs what belongs together   *)
(* (msgs/mod.rs:82-91, 167-193).                                           *)
DescriptorsLead ==
  /\ Len(stream_msgs) <= Len(stream_fds)
  /\ \A i \in DOMAIN stream_msgs : stream_msgs[i] = stream_fds[i]

(* What a read leaves in a buffer is the beginning of one frame, and there *)
(* is room to read on: deserialize is given whole messages only, and no    *)
(* read is made into an empty slice, which would look like the end of the  *)
(* stream (msgs/mod.rs:34-38, 52, 138, 153).                               *)
ReadsGoOn ==
  /\ \A buf \in {wrk_read, srv_read} :
       buf # << >> => /\ buf[1].at = 1
                      /\ Len(buf) < Size[buf[1].msg[2]]
  /\ Len(wrk_read) < WorkerBuffer
  /\ Len(srv_read) < Grown(srv_len, Len(srv_read))

(* No message is stuck, however little a write or a read can move.  Each   *)
(* request handed over is taken in the end.  Each answer is too if mio     *)
(* reports again what a read of the server has left: it need not, so the   *)
(* answers that one read does not take may wait until the worker writes    *)
(* another or the server hands over another request (msgs/mod.rs:33-112,   *)
(* 137-209, unixstreams.rs:59-121, worker/mod.rs:199-216).                 *)
RequestsTaken ==
  to_send \o srv_write \o down \o wrk_read \o stream_msgs \o stream_fds \o outfds = << >>
AnswersTaken == wrk_write \o up \o srv_read \o stream_tks \o stream_close_tks = << >>
ReportsAgain == []<>(up # << >> => edge)
EveryMessageArrives == <>[]RequestsTaken /\ (ReportsAgain => <>[]AnswersTaken)
=============================================================================
