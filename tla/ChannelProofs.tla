---------------------------- MODULE ChannelProofs ---------------------------
(***************************************************************************)
(* The channel hands over whole messages, each request with its own        *)
(* descriptor, for any number of requests, any frames, any room in the     *)
(* queue, the kernel and the buffers: the invariant of ChannelInv is       *)
(* inductive, and every step is one of Handover or none.                   *)
(***************************************************************************)
EXTENDS ChannelFrames

-----------------------------------------------------------------------------
(* States.                                                                 *)

(* Every variable has its type, and so have the bytes of both directions.  *)
LEMMA Types ==
  ASSUME TypeOK
  PROVE  /\ asked \subseteq Request /\ held \subseteq Request \X Request
         /\ to_send \in Seq(Request) /\ stream_tks \in Seq(Request) /\ stream_close_tks \in Seq(Request)
         /\ outfds \in Seq(Request) /\ stream_msgs \in Seq(Request) /\ stream_fds \in Seq(Request)
         /\ srv_write \in Seq(Cell) /\ srv_read \in Seq(Cell) /\ up \in Seq(Cell)
         /\ wrk_read \in Seq(Cell) /\ wrk_write \in Seq(Cell)
         /\ down \in Seq(Packet) /\ srv_len \in Nat
         /\ Len(outfds) <= FdQueue /\ Len(down) <= SocketSize /\ Len(up) <= SocketSize
BY DEF TypeOK, Packet

(* The bytes of both directions, and what they are the bytes of.           *)
LEMMA CellTypes ==
  ASSUME TypeOK
  PROVE  /\ Cells(down) \in Seq(Cell) /\ Fds(down) \in Seq(Request)
         /\ DownCells \in Seq(Cell) /\ Whole(DownCells) \in Seq(Msg)
         /\ Tokens(Whole(DownCells)) \in Seq(Request)
         /\ UpCells \in Seq(Cell) /\ Whole(UpCells) \in Seq(Msg)
<1>1. Cells(down) \in Seq(Cell) /\ Fds(down) \in Seq(Request)
  BY Types, CellsIs, FdsIs
<1>2. DownCells \in Seq(Cell)
  BY <1>1, Types DEF DownCells
<1>3. UpCells \in Seq(Cell)
  BY Types DEF UpCells
<1>4. Whole(DownCells) \in Seq(Msg) /\ Whole(UpCells) \in Seq(Msg)
  BY <1>2, <1>3, WholeIs
<1>5. Tokens(Whole(DownCells)) \in Seq(Request)
  BY <1>4, TokensIs
<1> QED
  BY <1>1, <1>2, <1>3, <1>4, <1>5

(* The descriptors that fit in the queue.                                  *)
LEMMA EnqueuedIs ==
  ASSUME TypeOK
  PROVE  /\ Enqueued \in 0 .. Len(to_send) /\ Len(outfds) + Enqueued <= FdQueue
         /\ First(to_send, Enqueued) \in Seq(Request) /\ Len(First(to_send, Enqueued)) = Enqueued
         /\ Rest(to_send, Enqueued) \in Seq(Request)
         /\ First(to_send, Enqueued) \o Rest(to_send, Enqueued) = to_send
<1>1. /\ to_send \in Seq(Request) /\ Len(to_send) \in Nat /\ Len(outfds) \in Nat
      /\ Len(outfds) <= FdQueue /\ FdQueue \in Nat
  BY Types, Constants
<1>2. Enqueued \in 0 .. Len(to_send) /\ Len(outfds) + Enqueued <= FdQueue
  BY <1>1 DEF Enqueued, Least
<1> DEFINE k == Enqueued
<1>3. k \in 0 .. Len(to_send)
  BY <1>2
<1> HIDE DEF k
<1>4. /\ First(to_send, k) \in Seq(Request) /\ Len(First(to_send, k)) = k
      /\ Rest(to_send, k) \in Seq(Request) /\ First(to_send, k) \o Rest(to_send, k) = to_send
  BY <1>1, <1>3, Halves
<1> QED
  BY <1>2, <1>4 DEF k

(* A write of n bytes of c, with descriptors f.                            *)
LEMMA PacketsIs ==
  ASSUME NEW c \in Seq(Cell), NEW f \in Seq(Request), NEW n \in 1 .. Len(c)
  PROVE  /\ Packets(c, f, n) \in Seq(Packet) /\ Len(Packets(c, f, n)) = n
         /\ Cells(Packets(c, f, n)) = First(c, n)
         /\ \A j \in 1 .. n : Fds(First(Packets(c, f, n), j)) = f
<1> DEFINE p == Packets(c, f, n)
           e(i) == IF i = 1 THEN f ELSE << >>
<1>1. n \in Nat /\ Len(c) \in Nat /\ \A i \in 1 .. n : c[i] \in Cell /\ e(i) \in Seq(Request)
  OBVIOUS
<1>2. p = [i \in 1 .. n |-> [cell |-> c[i], fds |-> e(i), first |-> i = 1]]
  BY DEF Packets
<1> HIDE DEF p
<1>3. \A i \in 1 .. n : [cell |-> c[i], fds |-> e(i), first |-> i = 1] \in Packet
  <2> HIDE DEF e
  <2> QED
    BY <1>1 DEF Packet
<1>4. /\ p \in Seq(Packet) /\ Len(p) = n
      /\ \A i \in 1 .. n : p[i] = [cell |-> c[i], fds |-> e(i), first |-> i = 1]
  <2> HIDE DEF e
  <2> QED
    BY <1>1, <1>2, <1>3
<1>5. ASSUME NEW i \in 1 .. n PROVE p[i].cell = c[i] /\ p[i].fds = e(i)
  <2> HIDE DEF e
  <2> QED
    BY <1>4
<1>6. Cells(p) = First(c, n)
  <2>1. Cells(p) \in Seq(Cell) /\ Len(Cells(p)) = n /\ \A i \in 1 .. n : Cells(p)[i] = p[i].cell
    BY <1>4, CellsIs
  <2>2. First(c, n) \in Seq(Cell) /\ Len(First(c, n)) = n /\ \A i \in 1 .. n : First(c, n)[i] = c[i]
    BY <1>1, Halves
  <2>3. \A i \in 1 .. n : Cells(p)[i] = First(c, n)[i]
    BY <1>5, <2>1, <2>2
  <2> QED
    BY <2>1, <2>2, <2>3, SameSeq
<1>7. ASSUME NEW j \in 1 .. n PROVE Fds(First(p, j)) = f
  <2> DEFINE g == First(p, j)
             a == First(g, 1)
             b == Rest(g, 1)
  <2>1. g \in Seq(Packet) /\ Len(g) = j /\ \A i \in 1 .. j : g[i] = p[i]
    <3>1. p \in Seq(Packet) /\ j \in 0 .. Len(p)
      BY <1>1, <1>4
    <3> QED
      BY <3>1, Halves
  <2> HIDE DEF g
  <2>2. /\ a \in Seq(Packet) /\ Len(a) = 1 /\ a[1] = g[1]
        /\ b \in Seq(Packet) /\ Len(b) = j - 1 /\ \A i \in 1 .. j - 1 : b[i] = g[1 + i]
        /\ a \o b = g
    <3>1. 1 \in 0 .. Len(g) /\ 1 \in 1 .. 1
      BY <1>1, <2>1
    <3> QED
      BY <2>1, <3>1, Halves
  <2> HIDE DEF a, b
  <2>3. a = <<g[1]>> /\ g[1] \in Packet /\ g[1].fds = f
    <3>1. 1 \in 1 .. n /\ 1 \in 1 .. j
      BY <1>1
    <3>2. g[1] = p[1] /\ p[1].fds = f /\ p[1] \in Packet
      BY <1>4, <1>5, <2>1, <3>1
    <3> QED
      BY <2>2, <3>2
  <2>4. Fds(a) = f
    BY <2>1, <2>3, FdsIs
  <2>5. ASSUME NEW i \in 1 .. Len(b) PROVE b[i].fds = << >>
    <3>1. 1 + i \in 1 .. j /\ 1 + i \in 1 .. n /\ 1 + i # 1 /\ b[i] = g[1 + i]
      BY <1>1, <2>2
    <3>2. b[i] = p[1 + i] /\ p[1 + i].fds = << >>
      BY <1>5, <2>1, <3>1
    <3> QED
      BY <3>2
  <2>6. Fds(b) = << >>
    BY <2>2, <2>5, FdsIs
  <2>7. Fds(g) = Fds(a) \o Fds(b)
    BY <2>2, FdsIs
  <2>8. f \o << >> = f
    OBVIOUS
  <2> QED
    BY <2>4, <2>6, <2>7, <2>8 DEF g
<1> QED
  BY <1>4, <1>6, <1>7 DEF p

(* What a read takes is on its way, and fits.                              *)
LEMMA ReadableIs ==
  ASSUME TypeOK, NEW room \in Nat
  PROVE  Readable(room) \in 0 .. Len(down) /\ Readable(room) <= room
<1> DEFINE b == Least(room, Len(down))
           P(n) == \A i \in 1 .. n, k \in 1 .. n : k < i /\ down[k].fds # << >> => ~down[i].first
           Q(n) == down[n + 1].first /\ \E k \in 1 .. n : down[k].fds # << >>
           C == {n \in 0 .. b : n < b => ~P(n + 1)}
<1>1. b \in Nat /\ b <= room /\ b <= Len(down)
  BY Types DEF Least
<1> HIDE DEF b
<1>2. PICK n \in C : \A m \in C : n <= m
  <2>1. C \in SUBSET Nat /\ b \in C
    BY <1>1
  <2> HIDE DEF C
  <2> QED
    BY <2>1, NatLeast
<1>3. n \in 0 .. b /\ (n < b => ~P(n + 1))
  OBVIOUS
<1>4. P(n)
  <2>1. CASE n = 0
    BY <2>1
  <2>2. CASE n # 0
    <3>1. n - 1 \in 0 .. b /\ n - 1 < b /\ ~(n <= n - 1) /\ (n - 1) + 1 = n
      BY <1>1, <1>3, <2>2
    <3>2. n - 1 \notin C
      BY <1>2, <3>1
    <3> HIDE DEF P
    <3> QED
      BY <3>1, <3>2
  <2> QED
    BY <2>1, <2>2
<1>5. ASSUME n < b PROVE Q(n)
  <2>1. PICK i \in 1 .. n + 1, k \in 1 .. n + 1 : k < i /\ down[k].fds # << >> /\ down[i].first
    BY <1>3, <1>5
  <2>2. i = n + 1 /\ k \in 1 .. n
    <3>1. ~(i \in 1 .. n)
      <4>1. ASSUME i \in 1 .. n PROVE FALSE
        <5>1. k \in 1 .. n
          BY <1>1, <1>3, <2>1, <4>1
        <5> QED
          BY <1>4, <2>1, <4>1, <5>1
      <4> QED
        BY <4>1
    <3> QED
      BY <1>1, <1>3, <2>1, <3>1
  <2> QED
    BY <2>1, <2>2
<1>6. \E m \in 0 .. b : P(m) /\ (m < b => Q(m))
  <2> HIDE DEF P, Q
  <2> QED
    BY <1>3, <1>4, <1>5
<1>7. Readable(room) = CHOOSE m \in 0 .. b : P(m) /\ (m < b => Q(m))
  BY DEF Readable, b
<1> HIDE DEF P, Q
<1>8. Readable(room) \in 0 .. b
  BY <1>6, <1>7
<1> QED
  BY <1>1, <1>8, Types

-----------------------------------------------------------------------------
(* What goes down.                                                         *)

(* Cells and requests, regrouped.                                          *)
LEMMA CellsRegroup ==
  ASSUME NEW x \in Seq(Cell), NEW y \in Seq(Cell), NEW z \in Seq(Cell)
  PROVE  (x \o y) \o z = x \o (y \o z)
BY ConcatAssociative

(* The same for requests.                                                  *)
LEMMA TksRegroup ==
  ASSUME NEW x \in Seq(Request), NEW y \in Seq(Request), NEW z \in Seq(Request)
  PROVE  (x \o y) \o z = x \o (y \o z)
BY ConcatAssociative

(* Requests that are framed go on with their descriptors enqueued.         *)
LEMMA FramesMore ==
  ASSUME TypeOK, DownInv, NEW t \in Seq(Request)
  PROVE  /\ Requests(t) \in Seq(Cell) /\ DownCells \o Requests(t) \in Seq(Cell)
         /\ Framed(DownCells \o Requests(t)) /\ Ended(DownCells \o Requests(t))
         /\ \A i \in 1 .. Len(DownCells \o Requests(t)) : (DownCells \o Requests(t))[i].msg[2] = "request"
         /\ Tokens(Whole(DownCells \o Requests(t))) = Tokens(Whole(DownCells)) \o t
         /\ stream_fds \o Fds(down) \o (outfds \o t) = stream_msgs \o (Tokens(Whole(DownCells)) \o t)
<1> DEFINE c == DownCells
           b == Requests(t)
           w == Tokens(Whole(c))
<1>1. /\ c \in Seq(Cell) /\ Framed(c) /\ Ended(c) /\ \A i \in 1 .. Len(c) : c[i].msg[2] = "request"
      /\ stream_fds \o Fds(down) \o outfds = stream_msgs \o w
      /\ w \in Seq(Request) /\ Whole(c) \in Seq(Msg)
  BY CellTypes DEF DownInv
<1>2. /\ b \in Seq(Cell) /\ Framed(b) /\ Ended(b) /\ Tokens(Whole(b)) = t
      /\ \A i \in 1 .. Len(b) : b[i].msg[2] = "request"
  BY RequestsIs
<1>3. stream_fds \in Seq(Request) /\ Fds(down) \in Seq(Request) /\ outfds \in Seq(Request)
      /\ stream_msgs \in Seq(Request)
  BY Types, CellTypes
<1>4. stream_fds \o Fds(down) \o (outfds \o t) = stream_msgs \o (w \o t)
  <2> DEFINE x == stream_fds \o Fds(down)
  <2>1. x \in Seq(Request)
    BY <1>3
  <2> HIDE DEF x, w
  <2>2. (x \o outfds) \o t = x \o (outfds \o t)
    BY <1>3, <2>1, TksRegroup
  <2>3. (stream_msgs \o w) \o t = stream_msgs \o (w \o t)
    BY <1>1, <1>3, TksRegroup
  <2> QED
    BY <1>1, <2>2, <2>3 DEF x
<1>5. Tokens(Whole(c \o b)) = w \o t
  <2>1. Whole(c \o b) = Whole(c) \o Whole(b) /\ Whole(b) \in Seq(Msg)
    BY <1>1, <1>2, WholeIs
  <2>2. Tokens(Whole(c) \o Whole(b)) = Tokens(Whole(c)) \o Tokens(Whole(b))
    BY <1>1, <2>1, TokensJoin
  <2> QED
    BY <1>2, <2>1, <2>2
<1> HIDE DEF c, b, w
<1>6. c \o b \in Seq(Cell) /\ Framed(c \o b) /\ Ended(c \o b)
  BY <1>1, <1>2, FramedJoin
<1>7. ASSUME NEW i \in 1 .. Len(c \o b) PROVE (c \o b)[i].msg[2] = "request"
  <2>1. \/ i \in 1 .. Len(c) /\ (c \o b)[i] = c[i]
        \/ i - Len(c) \in 1 .. Len(b) /\ (c \o b)[i] = b[i - Len(c)]
    BY ONLY <1>1, <1>2, i \in 1 .. Len(c \o b), InJoined
  <2> QED
    BY <1>1, <1>2, <2>1
<1> QED
  BY <1>2, <1>4, <1>5, <1>6, <1>7 DEF c, b, w

(* The descriptors of a beginning of frames, and of all of them.           *)
LEMMA LeadByAll ==
  ASSUME NEW a \in Seq(Cell), NEW b \in Seq(Cell), NEW m \in Seq(Request), NEW f \in Seq(Request),
         f = m \o Tokens(Whole(a \o b))
  PROVE  Len(m) + Len(Whole(a)) <= Len(f)
<1>1. Whole(a \o b) = Whole(a) \o Whole(b) /\ Whole(a) \in Seq(Msg) /\ Whole(b) \in Seq(Msg)
  BY WholeIs
<1>2. Len(Whole(a \o b)) = Len(Whole(a)) + Len(Whole(b)) /\ Whole(a \o b) \in Seq(Msg)
      /\ Len(Whole(a)) \in Nat /\ Len(Whole(b)) \in Nat
  BY <1>1, Joined
<1>3. Tokens(Whole(a \o b)) \in Seq(Request) /\ Len(Tokens(Whole(a \o b))) = Len(Whole(a \o b))
  BY <1>2, TokensIs
<1>4. Len(f) = Len(m) + Len(Tokens(Whole(a \o b))) /\ Len(m) \in Nat
  <2> DEFINE t == Tokens(Whole(a \o b))
  <2>1. t \in Seq(Request) /\ f = m \o t
    BY <1>3
  <2> HIDE DEF t
  <2>2. Len(f) = Len(m) + Len(t) /\ Len(m) \in Nat
    BY <2>1, Joined
  <2> QED
    BY <2>2 DEF t
<1> QED
  BY <1>2, <1>3, <1>4

(* A write: bytes go with the descriptors of all messages that are framed. *)
LEMMA DownWrites ==
  ASSUME TypeOK, DownInv, LeadInv, NEW n \in 1 .. SocketSize, ServerWrites(n)
  PROVE  DownInv' /\ LeadInv' /\ down' \in Seq(Packet) /\ srv_write' \in Seq(Cell)
         /\ Len(down') = Len(down) + n
         /\ Tokens(Whole(DownCells))' = Tokens(Whole(DownCells)) \o First(to_send, Enqueued)
<1> DEFINE t == First(to_send, Enqueued)
           c == srv_write \o Requests(t)
           f == outfds \o t
           p == Packets(c, f, n)
<1>1. /\ t \in Seq(Request) /\ outfds \in Seq(Request) /\ srv_write \in Seq(Cell) /\ down \in Seq(Packet)
      /\ wrk_read \in Seq(Cell) /\ stream_fds \in Seq(Request) /\ stream_msgs \in Seq(Request)
      /\ Len(down) \in Nat
  BY Types, EnqueuedIs
<1>2. /\ n \in 1 .. Len(c) /\ down' = down \o p /\ srv_write' = Rest(c, n) /\ outfds' = << >>
      /\ wrk_read' = wrk_read /\ stream_fds' = stream_fds /\ stream_msgs' = stream_msgs
  <2>1. /\ n \in 1 .. Least(Len(c), SocketSize - Len(down)) /\ down' = down \o p
        /\ srv_write' = Rest(c, n) /\ outfds' = << >>
        /\ wrk_read' = wrk_read /\ stream_fds' = stream_fds /\ stream_msgs' = stream_msgs
    BY DEF ServerWrites, workerVars
  <2>2. c \in Seq(Cell)
    BY <1>1, RequestsIs
  <2> HIDE DEF c, p
  <2>3. Len(c) \in Nat /\ SocketSize \in Nat
    BY <2>2, Constants
  <2> QED
    BY <1>1, <2>1, <2>3 DEF Least
<1> HIDE DEF t
<1>3. /\ Requests(t) \in Seq(Cell) /\ DownCells \o Requests(t) \in Seq(Cell)
      /\ Framed(DownCells \o Requests(t)) /\ Ended(DownCells \o Requests(t))
      /\ \A i \in 1 .. Len(DownCells \o Requests(t)) : (DownCells \o Requests(t))[i].msg[2] = "request"
      /\ Tokens(Whole(DownCells \o Requests(t))) = Tokens(Whole(DownCells)) \o t
      /\ stream_fds \o Fds(down) \o f = stream_msgs \o (Tokens(Whole(DownCells)) \o t)
  BY <1>1, FramesMore
<1>4. c \in Seq(Cell) /\ f \in Seq(Request)
  BY <1>1, <1>3
<1> HIDE DEF c, f
<1>5. /\ p \in Seq(Packet) /\ Len(p) = n /\ Cells(p) = First(c, n)
      /\ \A j \in 1 .. n : Fds(First(p, j)) = f
  BY <1>2, <1>4, PacketsIs
<1> HIDE DEF p
<1>6. First(c, n) \in Seq(Cell) /\ Rest(c, n) \in Seq(Cell) /\ First(c, n) \o Rest(c, n) = c
  <2>1. n \in 0 .. Len(c)
    BY <1>2
  <2> QED
    BY <1>4, <2>1, Halves
<1>7. down' \in Seq(Packet) /\ Len(down') = Len(down) + n
  BY <1>1, <1>2, <1>5, Joined
<1>8. /\ Cells(down) \in Seq(Cell) /\ Cells(down') = Cells(down) \o First(c, n)
      /\ Fds(down) \in Seq(Request) /\ Fds(p) = f /\ Fds(down') = Fds(down) \o f
  <2>1. Cells(down) \in Seq(Cell) /\ Cells(down \o p) = Cells(down) \o Cells(p)
    BY <1>1, <1>5, CellsIs
  <2>2. Fds(down) \in Seq(Request) /\ Fds(down \o p) = Fds(down) \o Fds(p)
    BY <1>1, <1>5, FdsIs
  <2>3. n \in 1 .. n /\ First(p, n) = p
    BY <1>5 DEF First
  <2>4. Fds(p) = f
    BY <1>5, <2>3
  <2> QED
    BY <1>2, <1>5, <2>1, <2>2, <2>4
<1>9. DownCells' = DownCells \o Requests(t)
  <2> DEFINE x == wrk_read \o Cells(down)
             y == First(c, n)
             z == Rest(c, n)
             b == Requests(t)
  <2>1. DownCells = x \o srv_write /\ c = srv_write \o b
    BY DEF DownCells, c
  <2>2. DownCells' = wrk_read \o (Cells(down) \o y) \o z
    BY <1>2, <1>8 DEF DownCells
  <2>3. x \in Seq(Cell) /\ y \in Seq(Cell) /\ z \in Seq(Cell) /\ y \o z = c /\ b \in Seq(Cell)
    BY <1>1, <1>3, <1>6, <1>8
  <2>4. x \o y = wrk_read \o (Cells(down) \o y)
    BY <1>1, <1>8, <2>3, CellsRegroup
  <2> HIDE DEF x, y, z, b
  <2>5. (x \o y) \o z = x \o (y \o z)
    BY <2>3, CellsRegroup
  <2>6. (x \o srv_write) \o b = x \o (srv_write \o b)
    <3>1. x \in Seq(Cell) /\ srv_write \in Seq(Cell) /\ b \in Seq(Cell)
      BY <1>1, <2>3
    <3> QED
      BY ONLY <3>1, CellsRegroup
  <2>7. DownCells' = DownCells \o b
    BY <2>1, <2>2, <2>3, <2>4, <2>5, <2>6
  <2> QED
    BY <2>7 DEF b
<1>10. /\ stream_fds \o Fds(down') \in Seq(Request)
       /\ stream_fds \o Fds(down') = stream_msgs \o Tokens(Whole(DownCells'))
  <2>1. stream_fds \o (Fds(down) \o f) = stream_fds \o Fds(down) \o f
    BY <1>1, <1>4, <1>8, TksRegroup
  <2>2. Fds(down) \o f \in Seq(Request)
    BY <1>4, <1>8
  <2>3. stream_fds \o Fds(down') = stream_fds \o (Fds(down) \o f)
    BY <1>8
  <2>4. stream_fds \o (Fds(down) \o f) \in Seq(Request)
    BY <1>1, <2>2
  <2>5. Tokens(Whole(DownCells')) = Tokens(Whole(DownCells)) \o t
    BY <1>3, <1>9
  <2> QED
    BY <1>3, <2>1, <2>3, <2>4, <2>5
<1>11. DownInv'
  <2>1. stream_fds \o Fds(down') \o << >> = stream_fds \o Fds(down')
    BY <1>10, ConcatEmptySeq
  <2> QED
    BY <1>2, <1>3, <1>9, <1>10, <2>1 DEF DownInv
<1>12. ASSUME NEW k \in 0 .. Len(down')
       PROVE  Len(stream_msgs) + Len(Whole(wrk_read \o Cells(First(down', k))))
                <= Len(stream_fds) + Len(Fds(First(down', k)))
  <2>1. k \in 0 .. Len(down) + Len(p)
    BY <1>1, <1>5, <1>7
  <2>2. /\ k <= Len(down) => First(down', k) = First(down, k)
        /\ k > Len(down) => First(down', k) = down \o First(p, k - Len(down))
    BY <1>1, <1>2, <1>5, <2>1, FirstOfJoined
  <2>3. CASE k <= Len(down)
    BY <1>1, <2>1, <2>2, <2>3 DEF LeadInv
  <2>4. CASE k > Len(down)
    <3> DEFINE q == First(down', k)
               r == Rest(down', k)
               a == wrk_read \o Cells(q)
               b == Cells(r) \o srv_write'
               g == stream_fds \o Fds(down')
    <3>1. q \in Seq(Packet) /\ r \in Seq(Packet) /\ q \o r = down'
      BY <1>7, Halves
    <3>2. Fds(q) = Fds(down) \o f
      <4>1. k - Len(down) \in 1 .. n /\ k - Len(down) \in 0 .. Len(p)
        BY <1>1, <1>5, <2>1, <2>4
      <4>2. First(p, k - Len(down)) \in Seq(Packet) /\ Fds(First(p, k - Len(down))) = f
        BY <1>5, <4>1, Halves
      <4>3. q = down \o First(p, k - Len(down))
        BY <2>2, <2>4
      <4> QED
        BY <1>1, <4>2, <4>3, FdsIs
    <3> HIDE DEF q, r
    <3>3. Cells(q) \in Seq(Cell) /\ Cells(r) \in Seq(Cell) /\ Cells(down') = Cells(q) \o Cells(r)
      BY <3>1, CellsIs
    <3>4. a \in Seq(Cell) /\ b \in Seq(Cell) /\ DownCells' = a \o b
      <4>1. srv_write' \in Seq(Cell)
        BY <1>2, <1>6
      <4>2. DownCells' = wrk_read \o (Cells(q) \o Cells(r)) \o srv_write'
        BY <1>2, <3>3 DEF DownCells
      <4>3. wrk_read \o (Cells(q) \o Cells(r)) = a \o Cells(r)
        BY <1>1, <3>3, CellsRegroup
      <4>4. a \in Seq(Cell) /\ b \in Seq(Cell)
        BY <1>1, <3>3, <4>1
      <4>5. (a \o Cells(r)) \o srv_write' = a \o (Cells(r) \o srv_write')
        <5> HIDE DEF a
        <5> QED
          BY <3>3, <4>1, <4>4, CellsRegroup
      <4> QED
        BY <4>2, <4>3, <4>4, <4>5
    <3>5. g \in Seq(Request) /\ g = stream_msgs \o Tokens(Whole(a \o b))
      BY <1>10, <3>4
    <3> HIDE DEF a, b, g
    <3>6. Len(stream_msgs) + Len(Whole(a)) <= Len(g)
      BY <1>1, <3>4, <3>5, LeadByAll
    <3>7. Len(g) = Len(stream_fds) + Len(Fds(q))
      <4>1. Fds(down') = Fds(q) /\ Fds(q) \in Seq(Request)
        BY <1>8, <3>1, <3>2, FdsIs
      <4> QED
        BY <1>1, <4>1, Joined DEF g
    <3> QED
      BY <3>6, <3>7 DEF a, q
  <2> QED
    BY <1>1, <2>1, <2>3, <2>4
<1>13. LeadInv'
  BY <1>2, <1>12 DEF LeadInv
<1>14. Tokens(Whole(DownCells))' = Tokens(Whole(DownCells)) \o t
  BY <1>3, <1>9
<1> QED
  BY <1>2, <1>6, <1>7, <1>11, <1>13, <1>14 DEF t

(* Lengths of what two sequences give.                                     *)
LEMMA WholeLength ==
  ASSUME NEW x \in Seq(Cell), NEW y \in Seq(Cell)
  PROVE  /\ Len(Whole(x)) \in Nat /\ Len(Whole(y)) \in Nat
         /\ Len(Whole(x \o y)) = Len(Whole(x)) + Len(Whole(y))
<1>1. Whole(x \o y) = Whole(x) \o Whole(y) /\ Whole(x) \in Seq(Msg) /\ Whole(y) \in Seq(Msg)
  BY WholeIs
<1> QED
  BY <1>1, Joined

(* The same for descriptors.                                               *)
LEMMA FdsLength ==
  ASSUME NEW x \in Seq(Packet), NEW y \in Seq(Packet)
  PROVE  /\ Len(Fds(x)) \in Nat /\ Len(Fds(y)) \in Nat
         /\ Len(Fds(x \o y)) = Len(Fds(x)) + Len(Fds(y))
<1>1. Fds(x \o y) = Fds(x) \o Fds(y) /\ Fds(x) \in Seq(Request) /\ Fds(y) \in Seq(Request)
  BY FdsIs
<1> QED
  BY <1>1, Joined

(* A beginning that reaches past the first n elements.                     *)
LEMMA FirstMore ==
  ASSUME NEW S, NEW x \in Seq(S), NEW n \in 0 .. Len(x), NEW k \in 0 .. Len(x) - n
  PROVE  n + k \in 0 .. Len(x) /\ First(x, n + k) = First(x, n) \o First(Rest(x, n), k)
<1> DEFINE a == First(x, n)
           b == Rest(x, n)
<1>1. a \in Seq(S) /\ b \in Seq(S) /\ Len(a) = n /\ Len(b) = Len(x) - n /\ a \o b = x
  BY Halves
<1>2. Len(x) \in Nat /\ n + k \in 0 .. Len(x) /\ k \in Nat /\ n \in Nat
  OBVIOUS
<1> HIDE DEF a, b
<1>3. n + k \in 0 .. Len(a) + Len(b)
  BY <1>1, <1>2
<1>4. /\ n + k <= Len(a) => First(a \o b, n + k) = First(a, n + k)
      /\ n + k > Len(a) => First(a \o b, n + k) = a \o First(b, n + k - Len(a))
  <2> DEFINE j == n + k
  <2>1. a \in Seq(S) /\ b \in Seq(S) /\ j \in 0 .. Len(a) + Len(b)
    BY <1>1, <1>3
  <2> HIDE DEF j
  <2>2. /\ j <= Len(a) => First(a \o b, j) = First(a, j)
        /\ j > Len(a) => First(a \o b, j) = a \o First(b, j - Len(a))
    BY ONLY <2>1, FirstOfJoined
  <2> QED
    BY <2>2 DEF j
<1>5. CASE k = 0
  <2>1. First(x, n) = a
    BY DEF a
  <2>2. First(b, 0) = << >>
    BY <1>1 DEF First
  <2>3. a \o << >> = a
    BY <1>1, ConcatEmptySeq
  <2>4. n + k = n
    BY <1>2, <1>5
  <2>5. First(x, n + k) = a /\ First(b, k) = << >>
    BY <1>5, <2>1, <2>2, <2>4
  <2> QED
    BY <1>2, <2>1, <2>3, <2>5 DEF b
<1>6. CASE k > 0
  <2>1. n + k - Len(a) = k /\ n + k > Len(a)
    BY <1>1, <1>2, <1>6
  <2>2. First(x, n + k) = a \o First(b, k)
    BY <1>1, <1>4, <2>1
  <2> QED
    BY <1>2, <2>2 DEF a, b
<1> QED
  BY <1>2, <1>5, <1>6

(* A blocked write frames messages and enqueues their descriptors.         *)
LEMMA DownBlocks ==
  ASSUME TypeOK, DownInv, LeadInv, ServerWriteBlocks
  PROVE  DownInv' /\ LeadInv' /\ srv_write' \in Seq(Cell)
         /\ outfds' \in Seq(Request) /\ Len(outfds') <= FdQueue
         /\ Tokens(Whole(DownCells))' = Tokens(Whole(DownCells)) \o First(to_send, Enqueued)
<1> DEFINE t == First(to_send, Enqueued)
<1>1. /\ t \in Seq(Request) /\ outfds \in Seq(Request) /\ srv_write \in Seq(Cell) /\ down \in Seq(Packet)
      /\ wrk_read \in Seq(Cell) /\ Len(t) = Enqueued /\ Len(outfds) + Enqueued <= FdQueue
      /\ Cells(down) \in Seq(Cell)
  BY Types, EnqueuedIs, CellTypes
<1>2. /\ down' = down /\ srv_write' = srv_write \o Requests(t) /\ outfds' = outfds \o t
      /\ wrk_read' = wrk_read /\ stream_fds' = stream_fds /\ stream_msgs' = stream_msgs
  BY DEF ServerWriteBlocks, workerVars
<1> HIDE DEF t
<1>3. /\ Requests(t) \in Seq(Cell) /\ DownCells \o Requests(t) \in Seq(Cell)
      /\ Framed(DownCells \o Requests(t)) /\ Ended(DownCells \o Requests(t))
      /\ \A i \in 1 .. Len(DownCells \o Requests(t)) : (DownCells \o Requests(t))[i].msg[2] = "request"
      /\ Tokens(Whole(DownCells \o Requests(t))) = Tokens(Whole(DownCells)) \o t
      /\ stream_fds \o Fds(down) \o (outfds \o t) = stream_msgs \o (Tokens(Whole(DownCells)) \o t)
  BY <1>1, FramesMore
<1>4. DownCells' = DownCells \o Requests(t)
  <2> DEFINE x == wrk_read \o Cells(down)
             b == Requests(t)
  <2>1. x \in Seq(Cell) /\ srv_write \in Seq(Cell) /\ b \in Seq(Cell)
    BY <1>1, <1>3
  <2>2. DownCells = x \o srv_write /\ DownCells' = x \o (srv_write \o b)
    BY <1>2 DEF DownCells
  <2> HIDE DEF x, b
  <2>3. (x \o srv_write) \o b = x \o (srv_write \o b)
    BY ONLY <2>1, CellsRegroup
  <2> QED
    BY <2>2, <2>3 DEF b
<1>5. DownInv'
  BY <1>2, <1>3, <1>4 DEF DownInv
<1>6. LeadInv'
  BY <1>2 DEF LeadInv
<1>7. srv_write' \in Seq(Cell) /\ outfds' \in Seq(Request)
  BY <1>1, <1>2, <1>3
<1>8. Len(outfds') <= FdQueue
  BY <1>1, <1>2, Joined
<1>9. Tokens(Whole(DownCells))' = Tokens(Whole(DownCells)) \o t
  BY <1>3, <1>4
<1> QED
  BY <1>5, <1>6, <1>7, <1>8, <1>9 DEF t

(* The worker's buffer is never full: it holds less than one request.      *)
LEMMA RoomIs ==
  ASSUME TypeOK, DownInv, ReadInv
  PROVE  Len(wrk_read) < WorkerBuffer /\ WorkerBuffer - Len(wrk_read) \in Nat
<1>1. wrk_read \in Seq(Cell) /\ Cells(down) \in Seq(Cell) /\ srv_write \in Seq(Cell) /\ Len(wrk_read) \in Nat
  BY Types, CellTypes
<1>2. WorkerBuffer \in Nat /\ Size["request"] <= WorkerBuffer /\ Size["request"] \in Nat \ {0}
  BY Constants
<1>3. CASE wrk_read = << >>
  BY <1>1, <1>2, <1>3
<1>4. CASE wrk_read # << >>
  <2> DEFINE b == Cells(down) \o srv_write
  <2>1. DownCells = wrk_read \o b /\ b \in Seq(Cell)
    <3>1. (wrk_read \o Cells(down)) \o srv_write = wrk_read \o (Cells(down) \o srv_write)
      BY ONLY <1>1, CellsRegroup
    <3> QED
      BY <1>1, <3>1 DEF DownCells
  <2> HIDE DEF b
  <2>2. 1 \in 1 .. Len(wrk_read) /\ Len(b) \in Nat
    BY <1>1, <1>4, <2>1
  <2>3. Len(DownCells) = Len(wrk_read) + Len(b) /\ DownCells[1] = wrk_read[1]
    BY <1>1, <2>1, <2>2, Joined
  <2>4. wrk_read[1].msg[2] = "request"
    BY <1>1, <2>2, <2>3 DEF DownInv
  <2>5. Len(wrk_read) < Size["request"]
    BY <1>4, <2>4 DEF ReadInv, Begun
  <2> QED
    BY <1>1, <1>2, <2>5
<1> QED
  BY <1>3, <1>4

(* A read of the worker: its descriptors come with the messages or before. *)
LEMMA DownReads ==
  ASSUME TypeOK, DownInv, LeadInv, ReadInv, WorkerReads
  PROVE  /\ DownInv' /\ LeadInv' /\ Begun(wrk_read')
         /\ down' \in Seq(Packet) /\ Len(down') <= SocketSize /\ wrk_read' \in Seq(Cell)
         /\ stream_msgs' \in Seq(Request) /\ stream_fds' \in Seq(Request)
         /\ (stream_msgs \o Tokens(Whole(DownCells)))' = stream_msgs \o Tokens(Whole(DownCells))
<1> DEFINE n == Readable(WorkerBuffer - Len(wrk_read))
           g == First(down, n)
           r == Rest(down, n)
           a == wrk_read \o Cells(g)
           b == Cells(r) \o srv_write
           e == Parse(a).rest
           m == Parse(a).msgs
<1>1. /\ outfds \in Seq(Request) /\ srv_write \in Seq(Cell) /\ down \in Seq(Packet) /\ wrk_read \in Seq(Cell)
      /\ stream_fds \in Seq(Request) /\ stream_msgs \in Seq(Request)
      /\ Len(down) \in Nat /\ Len(down) <= SocketSize /\ Fds(down) \in Seq(Request)
      /\ Whole(DownCells) \in Seq(Msg)
  BY Types, CellTypes
<1>2. n \in 0 .. Len(down)
  BY RoomIs, ReadableIs
<1>3. /\ down' = r /\ wrk_read' = e /\ stream_msgs' = stream_msgs \o Tokens(m)
      /\ stream_fds' = stream_fds \o Fds(g) /\ srv_write' = srv_write /\ outfds' = outfds
  BY DEF WorkerReads, serverVars
<1> HIDE DEF n
<1>4. g \in Seq(Packet) /\ r \in Seq(Packet) /\ g \o r = down /\ Len(r) = Len(down) - n /\ Len(g) = n
  BY <1>1, <1>2, Halves
<1>5. \A k \in 0 .. Len(r) :
        /\ n + k \in 0 .. Len(down) /\ First(down, n + k) = g \o First(r, k)
        /\ First(r, k) \in Seq(Packet)
  <2> TAKE k \in 0 .. Len(r)
  <2>1. k \in 0 .. Len(down) - n
    BY <1>4
  <2>2. n + k \in 0 .. Len(down) /\ First(down, n + k) = First(down, n) \o First(Rest(down, n), k)
    BY <1>1, <1>2, <2>1, FirstMore
  <2>3. First(r, k) \in Seq(Packet)
    <3> HIDE DEF r
    <3> QED
      BY <1>4, Halves
  <2> QED
    BY <2>2, <2>3
<1> HIDE DEF g, r
<1>6. /\ Cells(g) \in Seq(Cell) /\ Cells(r) \in Seq(Cell) /\ Cells(down) = Cells(g) \o Cells(r)
      /\ Fds(g) \in Seq(Request) /\ Fds(r) \in Seq(Request) /\ Fds(down) = Fds(g) \o Fds(r)
  BY <1>4, CellsIs, FdsIs
<1>7. a \in Seq(Cell) /\ b \in Seq(Cell) /\ DownCells = a \o b
  <2>1. DownCells = wrk_read \o (Cells(g) \o Cells(r)) \o srv_write
    BY <1>6 DEF DownCells
  <2>2. (wrk_read \o Cells(g)) \o Cells(r) = wrk_read \o (Cells(g) \o Cells(r))
    BY <1>1, <1>6, CellsRegroup
  <2>3. a \in Seq(Cell) /\ b \in Seq(Cell) /\ Cells(r) \in Seq(Cell) /\ srv_write \in Seq(Cell)
    BY <1>1, <1>6
  <2>4. (a \o Cells(r)) \o srv_write = a \o (Cells(r) \o srv_write)
    <3> HIDE DEF a
    <3> QED
      BY ONLY <2>3, CellsRegroup
  <2> QED
    BY <2>1, <2>2, <2>3, <2>4
<1> HIDE DEF a
<1>8. DownCells' = e \o b /\ (e \in Seq(Cell) => e \o b \in Seq(Cell))
  <2> HIDE DEF e
  <2>1. DownCells' = (e \o Cells(r)) \o srv_write
    BY <1>3 DEF DownCells
  <2>2. ASSUME e \in Seq(Cell) PROVE (e \o Cells(r)) \o srv_write = e \o (Cells(r) \o srv_write)
    BY <1>1, <1>6, <2>2, CellsRegroup
  <2>3. e \in Seq(Cell)
    BY <1>7, ReadIs DEF DownInv, e
  <2> QED
    BY <1>7, <2>1, <2>2, <2>3
<1> HIDE DEF b
<1>9. /\ e \in Seq(Cell) /\ m \in Seq(Msg) /\ m = Whole(a) /\ Begun(e) /\ Whole(e) = << >>
      /\ Framed(e \o b) /\ Ended(e \o b) /\ Whole(a \o b) = m \o Whole(e \o b)
      /\ \E f \in Seq(Cell) : a \o b = f \o (e \o b)
  BY <1>7, ReadIs DEF DownInv
<1> HIDE DEF e, m
<1>10. Tokens(m) \in Seq(Request) /\ Len(Tokens(m)) = Len(m) /\ Len(m) \in Nat
  BY <1>9, TokensIs
<1>11. /\ Tokens(Whole(e \o b)) \in Seq(Request)
       /\ Tokens(Whole(DownCells)) = Tokens(m) \o Tokens(Whole(e \o b))
  <2>1. Whole(e \o b) \in Seq(Msg)
    BY <1>8, <1>9, WholeIs
  <2> QED
    BY <1>7, <1>9, <2>1, TokensIs, TokensJoin
<1>12. stream_msgs' \o Tokens(Whole(DownCells')) = stream_msgs \o Tokens(Whole(DownCells))
  <2> DEFINE x == Tokens(m)
             y == Tokens(Whole(e \o b))
  <2>1. stream_msgs \in Seq(Request) /\ x \in Seq(Request) /\ y \in Seq(Request)
    BY <1>1, <1>10, <1>11
  <2>2. /\ stream_msgs' \o Tokens(Whole(DownCells')) = (stream_msgs \o x) \o y
        /\ stream_msgs \o Tokens(Whole(DownCells)) = stream_msgs \o (x \o y)
    BY <1>3, <1>8, <1>9, <1>11
  <2> HIDE DEF x, y
  <2>3. (stream_msgs \o x) \o y = stream_msgs \o (x \o y)
    BY ONLY <2>1, TksRegroup
  <2> QED
    BY <2>2, <2>3
<1>13. stream_fds' \o Fds(down') = stream_fds \o Fds(down)
  <2> DEFINE x == Fds(g)
             y == Fds(r)
  <2>1. stream_fds \in Seq(Request) /\ x \in Seq(Request) /\ y \in Seq(Request)
    BY <1>1, <1>6
  <2>2. /\ stream_fds' \o Fds(down') = (stream_fds \o x) \o y
        /\ stream_fds \o Fds(down) = stream_fds \o (x \o y)
    BY <1>3, <1>6
  <2> HIDE DEF x, y
  <2>3. (stream_fds \o x) \o y = stream_fds \o (x \o y)
    BY ONLY <2>1, TksRegroup
  <2> QED
    BY <2>2, <2>3
<1>14. ASSUME NEW i \in 1 .. Len(e \o b) PROVE (e \o b)[i].msg[2] = "request"
  <2> DEFINE z == e \o b
  <2>1. PICK f \in Seq(Cell) : a \o b = f \o z
    BY <1>9
  <2>2. z \in Seq(Cell) /\ i \in 1 .. Len(z) /\ DownCells = f \o z
    BY <1>7, <1>8, <1>9, <2>1
  <2> HIDE DEF z
  <2>3. Len(f) + i \in 1 .. Len(DownCells) /\ DownCells[Len(f) + i] = z[i]
    <3>1. /\ Len(f) \in Nat /\ Len(z) \in Nat /\ Len(f \o z) = Len(f) + Len(z)
          /\ (f \o z)[Len(f) + i] = z[i]
      BY <2>2, Joined
    <3> QED
      BY <2>2, <3>1
  <2> QED
    BY <2>3 DEF DownInv, z
<1>15. DownInv'
  <2>1. stream_fds' \o Fds(down') \o outfds' = stream_msgs' \o Tokens(Whole(DownCells'))
    BY <1>3, <1>12, <1>13 DEF DownInv
  <2> QED
    BY <1>8, <1>9, <1>14, <2>1 DEF DownInv
<1>16. ASSUME NEW k \in 0 .. Len(r)
       PROVE  Len(stream_msgs') + Len(Whole(e \o Cells(First(r, k))))
                <= Len(stream_fds') + Len(Fds(First(r, k)))
  <2> DEFINE h == First(r, k)
             c == Cells(h)
  <2>1. h \in Seq(Packet) /\ n + k \in 0 .. Len(down) /\ First(down, n + k) = g \o h
    BY <1>5
  <2> HIDE DEF h
  <2>2. c \in Seq(Cell) /\ Cells(g \o h) = Cells(g) \o c
    BY <1>4, <2>1, CellsIs
  <2>3. wrk_read \o Cells(First(down, n + k)) = a \o c
    <3> HIDE DEF c
    <3>1. (wrk_read \o Cells(g)) \o c = wrk_read \o (Cells(g) \o c)
      BY <1>1, <1>6, <2>2, CellsRegroup
    <3> QED
      BY <2>1, <2>2, <3>1 DEF a
  <2>4. Len(stream_msgs) + Len(Whole(a \o c)) <= Len(stream_fds) + Len(Fds(g \o h))
    BY <2>1, <2>3 DEF LeadInv
  <2> HIDE DEF c
  <2>5. /\ Len(Whole(a)) \in Nat /\ Len(Whole(c)) \in Nat
        /\ Len(Whole(a \o c)) = Len(Whole(a)) + Len(Whole(c))
    BY <1>7, <2>2, WholeLength
  <2>6. Len(Whole(e \o c)) = Len(Whole(c))
    <3>1. Len(Whole(e \o c)) = Len(Whole(e)) + Len(Whole(c))
      BY <1>9, <2>2, WholeLength
    <3>2. Len(Whole(e)) = 0
      BY <1>9
    <3> QED
      BY <2>5, <3>1, <3>2
  <2>7. /\ Len(Fds(g)) \in Nat /\ Len(Fds(h)) \in Nat
        /\ Len(Fds(g \o h)) = Len(Fds(g)) + Len(Fds(h))
    BY <1>4, <2>1, FdsLength
  <2>8. Len(stream_msgs') = Len(stream_msgs) + Len(m) /\ Len(stream_msgs) \in Nat
    <3>1. Len(stream_msgs \o Tokens(m)) = Len(stream_msgs) + Len(Tokens(m)) /\ Len(stream_msgs) \in Nat
      BY <1>1, <1>10, Joined
    <3> QED
      BY <1>3, <1>10, <3>1
  <2>9. Len(stream_fds') = Len(stream_fds) + Len(Fds(g)) /\ Len(stream_fds) \in Nat
    <3>1. Len(stream_fds \o Fds(g)) = Len(stream_fds) + Len(Fds(g)) /\ Len(stream_fds) \in Nat
      BY <1>1, <1>6, Joined
    <3> QED
      BY <1>3, <3>1
  <2>10. Len(m) = Len(Whole(a))
    BY <1>9
  <2>11. Len(stream_msgs') + Len(Whole(e \o c)) <= Len(stream_fds') + Len(Fds(h))
    BY <2>4, <2>5, <2>6, <2>7, <2>8, <2>9, <2>10
  <2> QED
    BY <2>11 DEF c, h
<1>17. LeadInv'
  BY <1>3, <1>16 DEF LeadInv
<1>18. stream_msgs' \in Seq(Request) /\ stream_fds' \in Seq(Request)
  BY <1>1, <1>3, <1>6, <1>10
<1>19. Len(r) <= SocketSize
  <2>1. SocketSize \in Nat
    BY Constants
  <2> QED
    BY <1>1, <1>2, <1>4, <2>1
<1> QED
  BY <1>3, <1>4, <1>9, <1>12, <1>15, <1>17, <1>18, <1>19

(* Descriptors are paired with the messages they belong to.                *)
LEMMA LeadIs ==
  ASSUME TypeOK, DownInv, LeadInv
  PROVE  /\ Len(stream_msgs) <= Len(stream_fds)
         /\ \A i \in 1 .. Len(stream_msgs) : stream_msgs[i] = stream_fds[i]
<1> DEFINE x == Fds(down)
           w == Tokens(Whole(DownCells))
<1>1. /\ outfds \in Seq(Request) /\ stream_fds \in Seq(Request) /\ stream_msgs \in Seq(Request)
      /\ x \in Seq(Request) /\ w \in Seq(Request) /\ down \in Seq(Packet) /\ wrk_read \in Seq(Cell)
      /\ Len(stream_msgs) \in Nat /\ Len(stream_fds) \in Nat
  <2>1. /\ outfds \in Seq(Request) /\ stream_fds \in Seq(Request) /\ stream_msgs \in Seq(Request)
        /\ down \in Seq(Packet) /\ wrk_read \in Seq(Cell)
    BY Types
  <2>2. x \in Seq(Request) /\ w \in Seq(Request)
    BY CellTypes
  <2> QED
    BY <2>1, <2>2
<1>2. Len(stream_msgs) <= Len(stream_fds)
  <2>1. First(down, 0) = << >> /\ 0 \in 0 .. Len(down)
    BY <1>1 DEF First
  <2>2. Fds(<< >>) = << >>
    BY <1>1, FdsIs
  <2>3. Len(stream_msgs) + Len(Whole(wrk_read \o Cells(<< >>))) <= Len(stream_fds) + Len(Fds(<< >>))
    BY <2>1 DEF LeadInv
  <2>4. Len(Whole(wrk_read \o Cells(<< >>))) \in Nat
    <3>1. Cells(<< >>) \in Seq(Cell)
      <4>1. << >> \in Seq(Packet)
        OBVIOUS
      <4> QED
        BY <4>1, CellsIs
    <3>2. Whole(wrk_read \o Cells(<< >>)) \in Seq(Msg)
      <4>1. wrk_read \o Cells(<< >>) \in Seq(Cell)
        BY <1>1, <3>1
      <4> QED
        BY <4>1, WholeIs
    <3> QED
      BY <3>2
  <2>5. Len(Fds(<< >>)) = 0
    BY <2>2
  <2> QED
    BY <1>1, <2>3, <2>4, <2>5
<1>3. stream_fds \o (x \o outfds) = stream_msgs \o w /\ x \o outfds \in Seq(Request)
  <2>1. stream_fds \o x \o outfds = stream_msgs \o w
    BY DEF DownInv
  <2> HIDE DEF x, w
  <2>2. stream_fds \in Seq(Request) /\ x \in Seq(Request) /\ outfds \in Seq(Request)
    BY <1>1
  <2>3. (stream_fds \o x) \o outfds = stream_fds \o (x \o outfds)
    BY ONLY <2>2, TksRegroup
  <2> QED
    BY <1>1, <2>1, <2>3
<1>4. ASSUME NEW i \in 1 .. Len(stream_msgs) PROVE stream_msgs[i] = stream_fds[i]
  <2> DEFINE y == x \o outfds
  <2> HIDE DEF x, w, y
  <2>1. i \in 1 .. Len(stream_fds)
    BY <1>1, <1>2
  <2>2. (stream_fds \o y)[i] = stream_fds[i]
    BY <1>1, <1>3, <2>1, Joined DEF y
  <2>3. (stream_msgs \o w)[i] = stream_msgs[i]
    BY <1>1, Joined
  <2> QED
    BY <1>3, <2>2, <2>3 DEF y
<1> QED
  BY <1>2, <1>4

(* The oldest of what two sequences give.                                  *)
LEMMA TailJoin ==
  ASSUME NEW S, NEW x \in Seq(S), NEW y \in Seq(S), x # << >>
  PROVE  /\ Head(x) \in S /\ Head(x) = x[1] /\ Tail(x) \in Seq(S) /\ Len(Tail(x)) = Len(x) - 1
         /\ x \o y # << >> /\ Head(x \o y) = Head(x) /\ Tail(x \o y) = Tail(x) \o y
<1>1. /\ Len(x) \in Nat \ {0} /\ Len(y) \in Nat /\ Len(x \o y) = Len(x) + Len(y) /\ x \o y \in Seq(S)
      /\ \A i \in 1 .. Len(x) : (x \o y)[i] = x[i]
      /\ \A i \in 1 .. Len(y) : (x \o y)[Len(x) + i] = y[i]
  BY Joined
<1>2. /\ Head(x) \in S /\ Head(x) = x[1] /\ Tail(x) \in Seq(S) /\ Len(Tail(x)) = Len(x) - 1
      /\ \A i \in 1 .. Len(x) - 1 : Tail(x)[i] = x[i + 1]
  OBVIOUS
<1> DEFINE z == x \o y
           t == Tail(x)
           u == Tail(z)
<1>3. z # << >> /\ z \in Seq(S) /\ Len(z) = Len(x) + Len(y)
  <2> HIDE DEF z
  <2>1. z \in Seq(S) /\ Len(z) = Len(x) + Len(y)
    BY <1>1 DEF z
  <2> QED
    BY <1>1, <2>1
<1>4. z[1] = x[1]
  BY <1>1
<1> HIDE DEF z, t
<1>5. Head(z) = x[1] /\ u \in Seq(S) /\ Len(u) = Len(z) - 1 /\ \A i \in 1 .. Len(z) - 1 : u[i] = z[i + 1]
  BY <1>3, <1>4
<1> HIDE DEF u
<1>6. /\ t \o y \in Seq(S) /\ Len(t \o y) = Len(t) + Len(y)
      /\ \A i \in 1 .. Len(t) : (t \o y)[i] = t[i]
      /\ \A i \in 1 .. Len(y) : (t \o y)[Len(t) + i] = y[i]
  BY <1>2, Joined DEF t
<1>7. u = t \o y
  <2> DEFINE v == t \o y
  <2>1. v \in Seq(S) /\ Len(u) = Len(v) /\ Len(u) \in Nat /\ Len(t) \in Nat /\ Len(t) = Len(x) - 1
    BY <1>1, <1>2, <1>3, <1>5, <1>6 DEF t
  <2>2. ASSUME NEW i \in 1 .. Len(u) PROVE u[i] = v[i]
    <3>1. i \in 1 .. Len(z) - 1 /\ u[i] = z[i + 1]
      BY <1>5, <2>2
    <3>2. CASE i <= Len(t)
      <4>1. i \in 1 .. Len(t) /\ i \in 1 .. Len(x) - 1 /\ i + 1 \in 1 .. Len(x)
        BY <1>1, <2>1, <3>2
      <4>2. z[i + 1] = x[i + 1] /\ v[i] = t[i] /\ t[i] = x[i + 1]
        BY <1>1, <1>2, <1>6, <4>1 DEF z, t
      <4> QED
        BY <3>1, <4>2
    <3>3. CASE i > Len(t)
      <4> DEFINE j == i - Len(t)
      <4>1. j \in 1 .. Len(y) /\ Len(t) + j = i /\ Len(x) + j = i + 1
        BY <1>1, <1>3, <2>1, <3>1, <3>3
      <4>2. z[i + 1] = y[j] /\ v[i] = y[j]
        <5> HIDE DEF j
        <5>1. z[Len(x) + j] = y[j]
          BY <1>1, <4>1 DEF z
        <5>2. v[Len(t) + j] = y[j]
          BY <1>6, <4>1
        <5> QED
          BY <4>1, <5>1, <5>2
      <4> QED
        BY <3>1, <4>2
    <3> QED
      BY <2>1, <3>2, <3>3
  <2> HIDE DEF v
  <2>3. u = v
    BY <1>5, <2>1, <2>2, SameSeq
  <2> QED
    BY <2>3 DEF v
<1> QED
  BY <1>2, <1>3, <1>5, <1>7 DEF z, t, u

(* A message leaves with its own descriptor.                               *)
LEMMA DownTakes ==
  ASSUME TypeOK, DownInv, LeadInv, NextStreamFd
  PROVE  /\ DownInv' /\ LeadInv' /\ Head(stream_msgs) = Head(stream_fds) /\ Head(stream_msgs) \in Request
         /\ stream_msgs' \in Seq(Request) /\ stream_fds' \in Seq(Request)
         /\ stream_msgs \o Tokens(Whole(DownCells)) # << >>
         /\ Head(stream_msgs \o Tokens(Whole(DownCells))) = Head(stream_msgs)
         /\ (stream_msgs \o Tokens(Whole(DownCells)))' = Tail(stream_msgs \o Tokens(Whole(DownCells)))
<1> DEFINE x == Fds(down)
           w == Tokens(Whole(DownCells))
           y == x \o outfds
<1>1. /\ outfds \in Seq(Request) /\ stream_fds \in Seq(Request) /\ stream_msgs \in Seq(Request)
      /\ stream_fds # << >> /\ stream_msgs # << >>
      /\ stream_msgs' = Tail(stream_msgs) /\ stream_fds' = Tail(stream_fds)
      /\ UNCHANGED <<outfds, down, srv_write, wrk_read>>
  BY Types DEF NextStreamFd, serverVars
<1>2. x \in Seq(Request) /\ w \in Seq(Request)
  BY CellTypes
<1>3. DownCells' = DownCells
  BY <1>1 DEF DownCells
<1>4. stream_fds \o x \o outfds = stream_msgs \o w
  BY DEF DownInv
<1>5. /\ Len(stream_msgs) <= Len(stream_fds)
      /\ \A i \in 1 .. Len(stream_msgs) : stream_msgs[i] = stream_fds[i]
  BY LeadIs
<1>6. Whole(DownCells') = Whole(DownCells) /\ Fds(down') = x
  BY <1>1, <1>3
<1> HIDE DEF x, w
<1>7. y \in Seq(Request) /\ stream_fds \o y = stream_msgs \o w
  <2>1. stream_fds \in Seq(Request) /\ x \in Seq(Request) /\ outfds \in Seq(Request)
    BY <1>1, <1>2
  <2>2. (stream_fds \o x) \o outfds = stream_fds \o (x \o outfds)
    BY ONLY <2>1, TksRegroup
  <2> QED
    BY <1>4, <2>1, <2>2
<1> HIDE DEF y
<1>8. /\ Head(stream_msgs) \in Request /\ Tail(stream_msgs) \in Seq(Request)
      /\ Head(stream_msgs) = stream_msgs[1] /\ Len(Tail(stream_msgs)) = Len(stream_msgs) - 1
      /\ stream_msgs \o w # << >> /\ Head(stream_msgs \o w) = Head(stream_msgs)
      /\ Tail(stream_msgs \o w) = Tail(stream_msgs) \o w
  BY <1>1, <1>2, TailJoin
<1>9. /\ Tail(stream_fds) \in Seq(Request) /\ Head(stream_fds) = stream_fds[1]
      /\ Len(Tail(stream_fds)) = Len(stream_fds) - 1
      /\ Tail(stream_fds \o y) = Tail(stream_fds) \o y
  BY <1>1, <1>7, TailJoin
<1>10. Head(stream_msgs) = Head(stream_fds)
  <2>1. 1 \in 1 .. Len(stream_msgs)
    BY <1>1
  <2> QED
    BY <1>5, <1>8, <1>9, <2>1
<1>11. stream_fds' \o x \o outfds = stream_msgs' \o w
  <2>1. stream_fds' \in Seq(Request) /\ x \in Seq(Request) /\ outfds \in Seq(Request)
    BY <1>1, <1>2, <1>9
  <2>2. (stream_fds' \o x) \o outfds = stream_fds' \o (x \o outfds)
    BY ONLY <2>1, TksRegroup
  <2> QED
    BY <1>1, <1>7, <1>8, <1>9, <2>2 DEF y
<1>12. DownInv'
  <2>1. stream_fds' \o Fds(down') \o outfds' = stream_msgs' \o Tokens(Whole(DownCells'))
    BY <1>1, <1>6, <1>11 DEF w
  <2> QED
    BY <1>3, <2>1 DEF DownInv
<1>13. LeadInv'
  <2>1. Len(stream_msgs) \in Nat /\ Len(stream_fds) \in Nat /\ wrk_read \in Seq(Cell) /\ down \in Seq(Packet)
    BY Types
  <2>2. ASSUME NEW k \in 0 .. Len(down)
        PROVE  Len(stream_msgs') + Len(Whole(wrk_read \o Cells(First(down, k))))
                 <= Len(stream_fds') + Len(Fds(First(down, k)))
    <3>1. First(down, k) \in Seq(Packet)
      BY <2>1, Halves
    <3>2. Cells(First(down, k)) \in Seq(Cell) /\ Fds(First(down, k)) \in Seq(Request)
      BY <3>1, CellsIs, FdsIs
    <3>3. Whole(wrk_read \o Cells(First(down, k))) \in Seq(Msg)
      <4>1. wrk_read \o Cells(First(down, k)) \in Seq(Cell)
        BY <2>1, <3>2
      <4> QED
        BY <4>1, WholeIs
    <3>4. Len(Whole(wrk_read \o Cells(First(down, k)))) \in Nat /\ Len(Fds(First(down, k))) \in Nat
      BY <3>2, <3>3
    <3>5. Len(stream_msgs) + Len(Whole(wrk_read \o Cells(First(down, k))))
            <= Len(stream_fds) + Len(Fds(First(down, k)))
      BY DEF LeadInv
    <3>6. Len(stream_msgs') = Len(stream_msgs) - 1 /\ Len(stream_fds') = Len(stream_fds) - 1
      BY <1>1, <1>8, <1>9
    <3> QED
      BY <2>1, <3>4, <3>5, <3>6
  <2> QED
    BY <1>1, <2>2 DEF LeadInv
<1>14. (stream_msgs \o Tokens(Whole(DownCells)))' = Tail(stream_msgs \o w)
  BY <1>1, <1>6, <1>8 DEF w
<1> QED
  BY <1>1, <1>8, <1>9, <1>10, <1>12, <1>13, <1>14 DEF w

-----------------------------------------------------------------------------
(* What goes up.                                                           *)

(* An answer is framed behind the others.                                  *)
LEMMA UpAnswers ==
  ASSUME TypeOK, UpInv, NEW tk \in Request, NEW kind \in Kind, Answer(tk, kind)
  PROVE  UpInv' /\ wrk_write' \in Seq(Cell) /\ Whole(UpCells)' = Append(Whole(UpCells), <<tk, kind>>)
<1> DEFINE m == <<tk, kind>>
           f == Frame(m)
           x == srv_read \o up
<1>1. m \in Msg
  BY Constants DEF Msg
<1>2. /\ srv_read \in Seq(Cell) /\ up \in Seq(Cell) /\ wrk_write \in Seq(Cell)
      /\ UpCells \in Seq(Cell) /\ Whole(UpCells) \in Seq(Msg)
  BY Types, CellTypes
<1>3. wrk_write' = wrk_write \o f /\ srv_read' = srv_read /\ up' = up
  BY DEF Answer, serverVars
<1> HIDE DEF m
<1>4. f \in Seq(Cell) /\ Framed(f) /\ Ended(f) /\ Whole(f) = <<m>>
  BY <1>1, FrameIs, WholeFrame
<1> HIDE DEF f
<1>5. UpCells' = UpCells \o f
  <2>1. x \in Seq(Cell) /\ wrk_write \in Seq(Cell) /\ f \in Seq(Cell)
    BY <1>2, <1>4
  <2>2. UpCells = x \o wrk_write /\ UpCells' = x \o (wrk_write \o f)
    BY <1>3 DEF UpCells
  <2> HIDE DEF x
  <2>3. (x \o wrk_write) \o f = x \o (wrk_write \o f)
    BY ONLY <2>1, CellsRegroup
  <2> QED
    BY <2>2, <2>3
<1>6. Framed(UpCells \o f) /\ Ended(UpCells \o f)
  BY <1>2, <1>4, FramedJoin DEF UpInv
<1>7. Whole(UpCells \o f) = Append(Whole(UpCells), m)
  <2>1. Whole(UpCells \o f) = Whole(UpCells) \o <<m>>
    BY <1>2, <1>4, WholeIs
  <2>2. Whole(UpCells) \o <<m>> = Append(Whole(UpCells), m)
    BY <1>1, <1>2, AppendIsConcat
  <2> QED
    BY <2>1, <2>2
<1>8. UpInv'
  BY <1>5, <1>6 DEF UpInv
<1>9. wrk_write' \in Seq(Cell)
  BY <1>2, <1>3, <1>4
<1> QED
  BY <1>5, <1>7, <1>8, <1>9 DEF m

(* A write of the worker moves bytes.                                      *)
LEMMA UpWrites ==
  ASSUME TypeOK, UpInv, NEW n \in 1 .. SocketSize, WorkerWrites(n)
  PROVE  /\ UpInv' /\ wrk_write' \in Seq(Cell) /\ up' \in Seq(Cell) /\ Len(up') <= SocketSize
         /\ UpCells' = UpCells
<1> DEFINE f == First(wrk_write, n)
           r == Rest(wrk_write, n)
<1>1. /\ srv_read \in Seq(Cell) /\ up \in Seq(Cell) /\ wrk_write \in Seq(Cell)
      /\ Len(up) \in Nat /\ Len(wrk_write) \in Nat /\ SocketSize \in Nat
  BY Types, Constants
<1>2. /\ n \in 1 .. Least(Len(wrk_write), SocketSize - Len(up))
      /\ up' = up \o f /\ wrk_write' = r /\ srv_read' = srv_read
  BY DEF WorkerWrites, serverVars
<1>3. n \in 0 .. Len(wrk_write) /\ n <= SocketSize - Len(up) /\ n \in Nat
  BY <1>1, <1>2 DEF Least
<1>4. f \in Seq(Cell) /\ r \in Seq(Cell) /\ Len(f) = n /\ f \o r = wrk_write
  BY <1>1, <1>3, Halves
<1> HIDE DEF f, r
<1>5. up' \in Seq(Cell) /\ Len(up') = Len(up) + n
  BY <1>1, <1>2, <1>4, Joined
<1>6. UpCells' = UpCells
  <2> DEFINE x == srv_read \o up
  <2>1. x \in Seq(Cell) /\ f \in Seq(Cell) /\ r \in Seq(Cell)
    BY <1>1, <1>4
  <2>2. UpCells = x \o (f \o r)
    BY <1>4 DEF UpCells
  <2>3. UpCells' = srv_read \o (up \o f) \o r
    BY <1>2 DEF UpCells
  <2>4. x \o f = srv_read \o (up \o f)
    BY <1>1, <2>1, CellsRegroup
  <2> HIDE DEF x
  <2>5. (x \o f) \o r = x \o (f \o r)
    BY ONLY <2>1, CellsRegroup
  <2> QED
    BY <2>2, <2>3, <2>4, <2>5
<1>7. UpInv'
  BY <1>6 DEF UpInv
<1>8. Len(up') <= SocketSize
  BY <1>1, <1>3, <1>5
<1> QED
  BY <1>2, <1>4, <1>5, <1>6, <1>7, <1>8

(* The server's buffer has room, and is never less than what it holds.     *)
LEMMA GrownIs ==
  ASSUME TypeOK, ReadInv
  PROVE  /\ Grown(srv_len, Len(srv_read)) \in Nat /\ Grown(srv_len, Len(srv_read)) > 0
         /\ Len(srv_read) < Grown(srv_len, Len(srv_read))
<1>1. srv_len \in Nat /\ srv_len > 0 /\ Len(srv_read) \in Nat /\ Len(srv_read) <= srv_len
  BY Types DEF ReadInv
<1>2. ServerRoom \in Nat \ {0}
  BY Constants
<1> QED
  BY <1>1, <1>2 DEF Grown

(* A read of the server takes the answers that are complete.               *)
LEMMA UpReads ==
  ASSUME TypeOK, UpInv, ReadInv, ServerReads
  PROVE  /\ UpInv' /\ srv_read' \in Seq(Cell) /\ up' \in Seq(Cell) /\ Len(up') <= SocketSize
         /\ srv_len' \in Nat /\ srv_len' > 0 /\ Len(srv_read') <= srv_len' /\ Begun(srv_read')
         /\ stream_tks' \in Seq(Request) /\ stream_close_tks' \in Seq(Request)
         /\ \E msgs \in Seq(Msg) :
              /\ Whole(UpCells) = msgs \o Whole(UpCells')
              /\ stream_tks' = stream_tks \o TokensOf(msgs, {"keep"})
              /\ stream_close_tks' = stream_close_tks \o TokensOf(msgs, Kind \ {"keep"})
<1> DEFINE n == Least(srv_len' - Len(srv_read), Len(up))
           f == First(up, n)
           r == Rest(up, n)
           a == srv_read \o f
           b == r \o wrk_write
           e == Parse(a).rest
           m == Parse(a).msgs
<1>1. /\ srv_read \in Seq(Cell) /\ up \in Seq(Cell) /\ wrk_write \in Seq(Cell)
      /\ stream_tks \in Seq(Request) /\ stream_close_tks \in Seq(Request)
      /\ Len(up) \in Nat /\ Len(up) <= SocketSize /\ Len(srv_read) \in Nat /\ SocketSize \in Nat
  BY Types, Constants
<1>2. /\ srv_len' = Grown(srv_len, Len(srv_read)) /\ up' = r /\ srv_read' = e /\ wrk_write' = wrk_write
      /\ stream_tks' = stream_tks \o TokensOf(m, {"keep"})
      /\ stream_close_tks' = stream_close_tks \o TokensOf(m, Kind \ {"keep"})
  BY DEF ServerReads, workerVars
<1>3. srv_len' \in Nat /\ srv_len' > 0 /\ Len(srv_read) < srv_len'
  BY <1>2, GrownIs
<1>4. n \in 0 .. Len(up) /\ Len(srv_read) + n <= srv_len'
  BY <1>1, <1>3 DEF Least
<1> HIDE DEF n
<1>5. f \in Seq(Cell) /\ r \in Seq(Cell) /\ Len(f) = n /\ Len(r) = Len(up) - n /\ f \o r = up
  BY <1>1, <1>4, Halves
<1> HIDE DEF f, r
<1>6. a \in Seq(Cell) /\ b \in Seq(Cell) /\ Len(a) = Len(srv_read) + n
  BY <1>1, <1>5, Joined
<1>7. UpCells = a \o b
  <2>1. a \in Seq(Cell) /\ r \in Seq(Cell) /\ wrk_write \in Seq(Cell)
    BY <1>1, <1>5, <1>6
  <2>2. UpCells = srv_read \o (f \o r) \o wrk_write
    BY <1>5 DEF UpCells
  <2>3. (srv_read \o f) \o r = srv_read \o (f \o r)
    BY <1>1, <1>5, CellsRegroup
  <2>4. (a \o r) \o wrk_write = a \o (r \o wrk_write)
    <3> HIDE DEF a
    <3> QED
      BY ONLY <2>1, CellsRegroup
  <2> QED
    BY <2>2, <2>3, <2>4
<1> HIDE DEF a
<1>8. UpCells' = (e \o r) \o wrk_write
  <2> HIDE DEF e
  <2> QED
    BY <1>2 DEF UpCells
<1>9. (e \in Seq(Cell)) => (e \o r) \o wrk_write = e \o b
  <2> HIDE DEF e
  <2>1. SUFFICES ASSUME e \in Seq(Cell) PROVE (e \o r) \o wrk_write = e \o (r \o wrk_write)
    OBVIOUS
  <2>2. e \in Seq(Cell) /\ r \in Seq(Cell) /\ wrk_write \in Seq(Cell)
    BY <1>1, <1>5, <2>1
  <2> QED
    BY ONLY <2>2, CellsRegroup
<1> HIDE DEF b
<1>10. /\ e \in Seq(Cell) /\ m \in Seq(Msg) /\ Len(e) <= Len(a) /\ Begun(e)
       /\ Framed(e \o b) /\ Ended(e \o b) /\ Whole(a \o b) = m \o Whole(e \o b)
  BY <1>6, <1>7, ReadIs DEF UpInv
<1> HIDE DEF e, m
<1>11. UpCells' = e \o b
  BY <1>8, <1>9, <1>10
<1>12. UpInv'
  BY <1>10, <1>11 DEF UpInv
<1>13. TokensOf(m, {"keep"}) \in Seq(Request) /\ TokensOf(m, Kind \ {"keep"}) \in Seq(Request)
  BY <1>10, TokensOfIs
<1>14. stream_tks' \in Seq(Request) /\ stream_close_tks' \in Seq(Request)
  <2>1. \A x \in Seq(Request), y \in Seq(Request) : x \o y \in Seq(Request)
    OBVIOUS
  <2>2. stream_tks \o TokensOf(m, {"keep"}) \in Seq(Request)
    BY <1>1, <1>13, <2>1
  <2>3. stream_close_tks \o TokensOf(m, Kind \ {"keep"}) \in Seq(Request)
    BY <1>1, <1>13, <2>1
  <2> QED
    BY <1>2, <2>2, <2>3
<1>15. Len(up') <= SocketSize
  BY <1>1, <1>2, <1>4, <1>5
<1>16. Len(srv_read') <= srv_len'
  <2>1. Len(e) \in Nat /\ n \in Nat
    BY <1>4, <1>10
  <2> QED
    BY <1>1, <1>2, <1>3, <1>4, <1>6, <1>10, <2>1
<1>17. Whole(UpCells) = m \o Whole(UpCells')
  BY <1>7, <1>10, <1>11
<1> QED
  BY <1>2, <1>3, <1>5, <1>10, <1>12, <1>14, <1>15, <1>16, <1>17

-----------------------------------------------------------------------------
(* The invariant holds at the start, and every action keeps it.            *)

(* Nothing on the way has no cells, no messages and no descriptors.        *)
LEMMA Nothing ==
  /\ Cells(<< >>) = << >> /\ Fds(<< >>) = << >> /\ Whole(<< >>) = << >> /\ Tokens(<< >>) = << >>
  /\ First(<< >>, 0) = << >> /\ Framed(<< >>) /\ Ended(<< >>) /\ Begun(<< >>)
<1>1. << >> \in Seq(Packet) /\ << >> \in Seq(Cell)
  OBVIOUS
<1>2. Fds(<< >>) = << >> /\ Whole(<< >>) = << >>
  BY <1>1, FdsIs, WholeIs
<1>3. Cells(<< >>) = << >> /\ Tokens(<< >>) = << >>
  BY DEF Cells, Tokens
<1>4. First(<< >>, 0) = << >>
  BY DEF First
<1>5. Framed(<< >>) /\ Ended(<< >>) /\ Begun(<< >>)
  BY DEF Framed, Ended, Begun
<1> QED
  BY <1>2, <1>3, <1>4, <1>5

(* At the start nothing is on the way.                                     *)
LEMMA InitIs ==
  ASSUME Init
  PROVE  IInv /\ Whole(DownCells) = << >> /\ Whole(UpCells) = << >>
<1>1. /\ asked = {} /\ held = {} /\ srv_len = ServerBuffer
      /\ to_send = << >> /\ srv_write = << >> /\ srv_read = << >> /\ stream_tks = << >>
      /\ stream_close_tks = << >> /\ outfds = << >> /\ down = << >> /\ up = << >>
      /\ wrk_read = << >> /\ wrk_write = << >> /\ stream_msgs = << >> /\ stream_fds = << >>
  BY DEF Init
<1>2. \A S : << >> \in Seq(S) /\ << >> \o << >> = << >> /\ Len(<< >>) = 0
  OBVIOUS
<1>3. TypeOK
  <2>1. edge \in BOOLEAN
    BY DEF Init
  <2>2. ServerBuffer \in Nat /\ 0 <= FdQueue /\ 0 <= SocketSize
    BY Constants
  <2> QED
    BY <1>1, <1>2, <2>1, <2>2 DEF TypeOK
<1>4. AskedInv
  <2>1. asked = 1 .. 0
    BY <1>1
  <2> QED
    BY <2>1 DEF AskedInv
<1>5. DownCells = << >> /\ UpCells = << >>
  BY <1>1, <1>2, Nothing DEF DownCells, UpCells
<1>6. DownInv
  <2>1. stream_fds \o Fds(down) \o outfds = stream_msgs \o Tokens(Whole(DownCells))
    BY <1>1, <1>2, <1>5, Nothing
  <2>2. Framed(DownCells) /\ Ended(DownCells) /\ Len(DownCells) = 0
    BY <1>2, <1>5, Nothing
  <2> QED
    BY <2>1, <2>2 DEF DownInv
<1>7. LeadInv
  <2>1. \A k \in 0 .. Len(down) : k = 0
    BY <1>1
  <2>2. Whole(wrk_read \o Cells(First(down, 0))) = << >> /\ Fds(First(down, 0)) = << >>
    BY <1>1, <1>2, Nothing
  <2>3. Len(stream_msgs) + Len(Whole(wrk_read \o Cells(First(down, 0))))
          <= Len(stream_fds) + Len(Fds(First(down, 0)))
    BY <1>1, <2>2
  <2> QED
    BY <2>1, <2>3 DEF LeadInv
<1>8. UpInv
  BY <1>5, Nothing DEF UpInv
<1>9. HeldInv
  BY <1>1 DEF HeldInv
<1>10. ReadInv
  BY <1>1, Nothing, Constants DEF ReadInv
<1> QED
  BY <1>3, <1>4, <1>5, <1>6, <1>7, <1>8, <1>9, <1>10, Nothing DEF IInv

(* What an action leaves alone keeps its part of the invariant.            *)
LEMMA DownKept ==
  ASSUME DownInv, LeadInv, UNCHANGED <<srv_write, outfds, down, wrk_read, stream_msgs, stream_fds>>
  PROVE  DownInv' /\ LeadInv' /\ DownCells' = DownCells
<1>1. DownCells' = DownCells
  BY DEF DownCells
<1>2. DownInv'
  BY <1>1 DEF DownInv
<1>3. LeadInv'
  BY DEF LeadInv
<1> QED
  BY <1>1, <1>2, <1>3

(* The same for what goes up.                                              *)
LEMMA UpKept ==
  ASSUME UpInv, UNCHANGED <<srv_read, up, wrk_write>>
  PROVE  UpInv' /\ UpCells' = UpCells
<1>1. UpCells' = UpCells
  BY DEF UpCells
<1> QED
  BY <1>1 DEF UpInv

(* The requests are numbered.                                              *)
LEMMA AskIs ==
  ASSUME AskedInv, NEW tk, Ask(tk)
  PROVE  tk \notin asked /\ AskedInv'
<1>1. PICK n \in Nat : asked = 1 .. n
  BY DEF AskedInv
<1>2. Cardinality(1 .. n) = n
  <2>1. 1 \in Int /\ n \in Int
    OBVIOUS
  <2> QED
    BY <2>1, FS_Interval
<1>3. tk = n + 1 /\ asked' = asked \cup {tk}
  BY <1>1, <1>2 DEF Ask
<1>4. tk \notin asked /\ asked' = 1 .. n + 1
  BY <1>1, <1>3
<1> QED
  BY <1>4 DEF AskedInv

(* Ask queues the number after the last one, and frames nothing.           *)
LEMMA AskKeeps ==
  ASSUME IInv, NEW tk \in Request, Ask(tk)
  PROVE  IInv'
<1>1. /\ asked' = asked \cup {tk} /\ to_send' = Append(to_send, tk)
      /\ UNCHANGED <<srv_write, srv_read, srv_len, stream_tks, stream_close_tks, outfds, down, up, edge,
                     wrk_read, wrk_write, stream_msgs, stream_fds, held>>
  BY DEF Ask, workerVars
<1>2. TypeOK'
  <2>1. TypeOK
    BY DEF IInv
  <2>2. to_send' \in Seq(Request) /\ asked' \subseteq Request
    BY <1>1, <2>1, Types
  <2> QED
    BY <1>1, <2>1, <2>2 DEF TypeOK
<1>3. AskedInv'
  BY AskIs DEF IInv
<1>4. DownInv' /\ LeadInv' /\ UpInv'
  BY <1>1, DownKept, UpKept DEF IInv
<1>5. HeldInv' /\ ReadInv'
  BY <1>1 DEF IInv, HeldInv, ReadInv
<1> QED
  BY <1>2, <1>3, <1>4, <1>5 DEF IInv

(* A write of the server is within what the kernel has room for.           *)
LEMMA ServerWritesKeeps ==
  ASSUME IInv, NEW n \in 1 .. SocketSize, ServerWrites(n)
  PROVE  IInv'
<1>1. /\ to_send' = Rest(to_send, Enqueued) /\ outfds' = << >>
      /\ n <= SocketSize - Len(down)
      /\ UNCHANGED <<asked, srv_read, srv_len, stream_tks, stream_close_tks, up, edge,
                     wrk_read, wrk_write, stream_msgs, stream_fds, held>>
  <2> DEFINE c == srv_write \o Requests(First(to_send, Enqueued))
  <2>1. n \in 1 .. Least(Len(c), SocketSize - Len(down))
    BY DEF ServerWrites
  <2>2. c \in Seq(Cell) /\ down \in Seq(Packet)
    BY Types, EnqueuedIs, RequestsIs DEF IInv
  <2> HIDE DEF c
  <2>3. Len(c) \in Nat /\ SocketSize - Len(down) \in Int
    BY <2>2, Constants
  <2>4. n <= SocketSize - Len(down)
    BY <2>1, <2>3 DEF Least
  <2> QED
    BY <2>4 DEF ServerWrites, workerVars
<1>2. /\ DownInv' /\ LeadInv' /\ down' \in Seq(Packet) /\ srv_write' \in Seq(Cell)
      /\ Len(down') = Len(down) + n
  BY DownWrites DEF IInv
<1>3. TypeOK'
  <2>1. TypeOK
    BY DEF IInv
  <2>2. to_send' \in Seq(Request) /\ outfds' \in Seq(Request) /\ Len(outfds') <= FdQueue
    BY <1>1, <2>1, EnqueuedIs, Constants
  <2>3. Len(down') <= SocketSize
    <3>1. SocketSize \in Nat /\ Len(down) \in Nat
      BY <2>1, Types, Constants
    <3> QED
      BY <1>1, <1>2, <3>1
  <2> QED
    BY <1>1, <1>2, <2>1, <2>2, <2>3 DEF TypeOK, Packet
<1>4. AskedInv' /\ HeldInv' /\ ReadInv'
  BY <1>1 DEF IInv, AskedInv, HeldInv, ReadInv
<1>5. UpInv'
  BY <1>1, UpKept DEF IInv
<1> QED
  BY <1>2, <1>3, <1>4, <1>5 DEF IInv

(* A blocked write enqueues no more descriptors than fit.                  *)
LEMMA ServerWriteBlocksKeeps ==
  ASSUME IInv, ServerWriteBlocks
  PROVE  IInv'
<1>1. /\ to_send' = Rest(to_send, Enqueued)
      /\ UNCHANGED <<asked, srv_read, srv_len, stream_tks, stream_close_tks, down, up, edge,
                     wrk_read, wrk_write, stream_msgs, stream_fds, held>>
  BY DEF ServerWriteBlocks, workerVars
<1>2. /\ DownInv' /\ LeadInv' /\ srv_write' \in Seq(Cell)
      /\ outfds' \in Seq(Request) /\ Len(outfds') <= FdQueue
  BY DownBlocks DEF IInv
<1>3. TypeOK'
  <2>1. TypeOK
    BY DEF IInv
  <2>2. to_send' \in Seq(Request)
    BY <1>1, <2>1, EnqueuedIs
  <2> QED
    BY <1>1, <1>2, <2>1, <2>2 DEF TypeOK
<1>4. AskedInv' /\ HeldInv' /\ ReadInv'
  BY <1>1 DEF IInv, AskedInv, HeldInv, ReadInv
<1>5. UpInv'
  BY <1>1, UpKept DEF IInv
<1> QED
  BY <1>2, <1>3, <1>4, <1>5 DEF IInv

(* A read of the worker leaves less than a frame in its buffer.            *)
LEMMA WorkerReadsKeeps ==
  ASSUME IInv, WorkerReads
  PROVE  IInv'
<1>1. UNCHANGED <<asked, to_send, srv_write, srv_read, srv_len, stream_tks, stream_close_tks, outfds,
                  up, edge, wrk_write, held>>
  BY DEF WorkerReads, serverVars
<1>2. /\ DownInv' /\ LeadInv' /\ Begun(wrk_read')
      /\ down' \in Seq(Packet) /\ Len(down') <= SocketSize /\ wrk_read' \in Seq(Cell)
      /\ stream_msgs' \in Seq(Request) /\ stream_fds' \in Seq(Request)
  BY DownReads DEF IInv
<1>3. TypeOK'
  BY <1>1, <1>2 DEF IInv, TypeOK, Packet
<1>4. AskedInv' /\ HeldInv' /\ ReadInv'
  BY <1>1, <1>2 DEF IInv, AskedInv, HeldInv, ReadInv
<1>5. UpInv'
  BY <1>1, UpKept DEF IInv
<1> QED
  BY <1>2, <1>3, <1>4, <1>5 DEF IInv

(* A message and a descriptor leave together, and belong together.         *)
LEMMA NextStreamFdKeeps ==
  ASSUME IInv, NextStreamFd
  PROVE  IInv'
<1>1. /\ held' = held \cup {<<Head(stream_msgs), Head(stream_fds)>>}
      /\ UNCHANGED <<asked, to_send, srv_write, srv_read, srv_len, stream_tks, stream_close_tks, outfds,
                     down, up, edge, wrk_read, wrk_write>>
  BY DEF NextStreamFd, serverVars
<1>2. /\ DownInv' /\ LeadInv' /\ Head(stream_msgs) = Head(stream_fds) /\ Head(stream_msgs) \in Request
      /\ stream_msgs' \in Seq(Request) /\ stream_fds' \in Seq(Request)
  BY DownTakes DEF IInv
<1>3. TypeOK'
  <2>1. held' \subseteq Request \X Request
    BY <1>1, <1>2 DEF IInv, TypeOK
  <2> QED
    BY <1>1, <1>2, <2>1 DEF IInv, TypeOK
<1>4. HeldInv'
  BY <1>1, <1>2 DEF IInv, HeldInv
<1>5. AskedInv' /\ ReadInv'
  BY <1>1 DEF IInv, AskedInv, ReadInv
<1>6. UpInv'
  BY <1>1, UpKept DEF IInv
<1> QED
  BY <1>2, <1>3, <1>4, <1>5, <1>6 DEF IInv

(* An answer takes the stream from the worker.                             *)
LEMMA AnswerKeeps ==
  ASSUME IInv, NEW tk \in Request, NEW kind \in Kind, Answer(tk, kind)
  PROVE  IInv'
<1>1. /\ held' = {p \in held : p[1] # tk}
      /\ UNCHANGED <<asked, to_send, srv_write, srv_read, srv_len, stream_tks, stream_close_tks, outfds,
                     down, up, edge, wrk_read, stream_msgs, stream_fds>>
  BY DEF Answer, serverVars
<1>2. UpInv' /\ wrk_write' \in Seq(Cell)
  BY UpAnswers DEF IInv
<1>3. TypeOK'
  <2>1. held' \subseteq Request \X Request
    BY <1>1 DEF IInv, TypeOK
  <2> QED
    BY <1>1, <1>2, <2>1 DEF IInv, TypeOK
<1>4. AskedInv' /\ HeldInv' /\ ReadInv'
  BY <1>1 DEF IInv, AskedInv, HeldInv, ReadInv
<1>5. DownInv' /\ LeadInv'
  BY <1>1, DownKept DEF IInv
<1> QED
  BY <1>2, <1>3, <1>4, <1>5 DEF IInv

(* A write of the worker is within what the kernel has room for.           *)
LEMMA WorkerWritesKeeps ==
  ASSUME IInv, NEW n \in 1 .. SocketSize, WorkerWrites(n)
  PROVE  IInv'
<1>1. UNCHANGED <<asked, to_send, srv_write, srv_read, srv_len, stream_tks, stream_close_tks, outfds,
                  down, wrk_read, stream_msgs, stream_fds, held>>
  BY DEF WorkerWrites, serverVars
<1>2. UpInv' /\ wrk_write' \in Seq(Cell) /\ up' \in Seq(Cell) /\ Len(up') <= SocketSize
  BY UpWrites DEF IInv
<1>3. TypeOK'
  <2>1. edge' \in BOOLEAN
    BY DEF WorkerWrites
  <2> QED
    BY <1>1, <1>2, <2>1 DEF IInv, TypeOK
<1>4. AskedInv' /\ HeldInv' /\ ReadInv'
  BY <1>1 DEF IInv, AskedInv, HeldInv, ReadInv
<1>5. DownInv' /\ LeadInv'
  BY <1>1, DownKept DEF IInv
<1> QED
  BY <1>2, <1>3, <1>4, <1>5 DEF IInv

(* A read of the server leaves less than a frame in its buffer, whose      *)
(* length is what it was, or twice that.                                   *)
LEMMA ServerReadsKeeps ==
  ASSUME IInv, ServerReads
  PROVE  IInv'
<1>1. UNCHANGED <<asked, to_send, srv_write, outfds, down, wrk_read, wrk_write, stream_msgs, stream_fds, held>>
  BY DEF ServerReads, workerVars
<1>2. /\ UpInv' /\ srv_read' \in Seq(Cell) /\ up' \in Seq(Cell) /\ Len(up') <= SocketSize
      /\ srv_len' \in Nat /\ srv_len' > 0 /\ Len(srv_read') <= srv_len' /\ Begun(srv_read')
      /\ stream_tks' \in Seq(Request) /\ stream_close_tks' \in Seq(Request)
  BY UpReads DEF IInv
<1>3. TypeOK'
  <2>1. edge' \in BOOLEAN
    BY DEF ServerReads
  <2> QED
    BY <1>1, <1>2, <2>1 DEF IInv, TypeOK
<1>4. AskedInv' /\ HeldInv' /\ ReadInv'
  BY <1>1, <1>2 DEF IInv, AskedInv, HeldInv, ReadInv
<1>5. DownInv' /\ LeadInv'
  BY <1>1, DownKept DEF IInv
<1> QED
  BY <1>2, <1>3, <1>4, <1>5 DEF IInv

(* An answer that is taken is no longer on the way.                        *)
LEMMA NextStreamTkKeeps ==
  ASSUME IInv, NextStreamTk
  PROVE  IInv'
<1>1. UNCHANGED <<asked, to_send, srv_write, srv_read, srv_len, outfds, down, up, edge,
                  wrk_read, wrk_write, stream_msgs, stream_fds, held>>
  BY DEF NextStreamTk, workerVars
<1>2. stream_tks' \in Seq(Request) /\ stream_close_tks' \in Seq(Request)
  <2>1. stream_tks \in Seq(Request) /\ stream_close_tks \in Seq(Request)
    BY Types DEF IInv
  <2>2. \/ stream_tks # << >> /\ stream_tks' = Tail(stream_tks) /\ stream_close_tks' = stream_close_tks
        \/ /\ stream_close_tks # << >> /\ stream_close_tks' = Tail(stream_close_tks)
           /\ stream_tks' = stream_tks
    BY DEF NextStreamTk
  <2>3. \A q \in Seq(Request) : q # << >> => Tail(q) \in Seq(Request)
    OBVIOUS
  <2> QED
    BY <2>1, <2>2, <2>3
<1>3. TypeOK'
  BY <1>1, <1>2 DEF IInv, TypeOK
<1>4. AskedInv' /\ HeldInv' /\ ReadInv'
  BY <1>1 DEF IInv, AskedInv, HeldInv, ReadInv
<1>5. DownInv' /\ LeadInv' /\ UpInv'
  BY <1>1, DownKept, UpKept DEF IInv
<1> QED
  BY <1>2, <1>3, <1>4, <1>5 DEF IInv

(* A report of what is there changes none of it.                           *)
LEMMA ReregisterKeeps ==
  ASSUME IInv, Reregister
  PROVE  IInv'
<1>1. /\ edge' = TRUE
      /\ UNCHANGED <<asked, to_send, srv_write, srv_read, srv_len, stream_tks, stream_close_tks, outfds,
                     down, up, wrk_read, wrk_write, stream_msgs, stream_fds, held>>
  BY DEF Reregister, serverVars, workerVars
<1>2. TypeOK'
  BY <1>1 DEF IInv, TypeOK
<1>3. AskedInv' /\ HeldInv' /\ ReadInv'
  BY <1>1 DEF IInv, AskedInv, HeldInv, ReadInv
<1>4. DownInv' /\ LeadInv' /\ UpInv'
  BY <1>1, DownKept, UpKept DEF IInv
<1> QED
  BY <1>2, <1>3, <1>4 DEF IInv

(* When all is done, nothing changes.                                      *)
LEMMA StutterKeeps ==
  ASSUME IInv, UNCHANGED vars
  PROVE  IInv'
<1>1. UNCHANGED <<asked, to_send, srv_write, srv_read, srv_len, stream_tks, stream_close_tks, outfds,
                  down, up, edge, wrk_read, wrk_write, stream_msgs, stream_fds, held>>
  BY DEF vars, serverVars, workerVars
<1>2. TypeOK'
  BY <1>1 DEF IInv, TypeOK
<1>3. AskedInv' /\ HeldInv' /\ ReadInv'
  BY <1>1 DEF IInv, AskedInv, HeldInv, ReadInv
<1>4. DownInv' /\ LeadInv' /\ UpInv'
  BY <1>1, DownKept, UpKept DEF IInv
<1> QED
  BY <1>2, <1>3, <1>4 DEF IInv

(* The invariant holds in every state.                                     *)
LEMMA InvariantStep == IInv /\ [Next]_vars => IInv'
<1> SUFFICES ASSUME IInv, [Next]_vars PROVE IInv'
  OBVIOUS
<1>1. ASSUME NEW tk \in Request, Ask(tk) PROVE IInv'
  BY <1>1, AskKeeps
<1>2. ASSUME NEW tk \in Request, NEW kind \in Kind, Answer(tk, kind) PROVE IInv'
  BY <1>2, AnswerKeeps
<1>3. ASSUME NEW n \in 1 .. SocketSize, ServerWrites(n) PROVE IInv'
  BY <1>3, ServerWritesKeeps
<1>4. ASSUME NEW n \in 1 .. SocketSize, WorkerWrites(n) PROVE IInv'
  BY <1>4, WorkerWritesKeeps
<1>5. CASE ServerWriteBlocks
  BY <1>5, ServerWriteBlocksKeeps
<1>6. CASE WorkerReads
  BY <1>6, WorkerReadsKeeps
<1>7. CASE NextStreamFd
  BY <1>7, NextStreamFdKeeps
<1>8. CASE ServerReads
  BY <1>8, ServerReadsKeeps
<1>9. CASE NextStreamTk
  BY <1>9, NextStreamTkKeeps
<1>10. CASE Idle \/ UNCHANGED vars
  <2>1. UNCHANGED vars
    BY <1>10 DEF Idle
  <2> QED
    BY <2>1, StutterKeeps
<1>11. CASE Reregister
  BY <1>11, ReregisterKeeps
<1> QED
  BY <1>1, <1>2, <1>3, <1>4, <1>5, <1>6, <1>7, <1>8, <1>9, <1>10, <1>11 DEF Next

(* The invariant of ChannelInv holds in every state of the channel: what   *)
(* is in the buffers and the kernel is always frames, and the descriptors  *)
(* on the way are those of the messages on the way (msgs/mod.rs:33-112,    *)
(* 137-209).                                                               *)
THEOREM ChannelInvariant == Spec => []IInv
<1>1. Init => IInv
  BY InitIs
<1> QED
  BY <1>1, InvariantStep, PTL DEF Spec

-----------------------------------------------------------------------------
(* Safety.                                                                 *)

(* Neither the queue of descriptors nor the kernel is given more than it   *)
(* holds (msgs/mod.rs:93-112), and every variable keeps its type.          *)
THEOREM ChannelTypes == Spec => []TypeOK
<1>1. IInv => TypeOK
  BY DEF IInv
<1> QED
  BY <1>1, ChannelInvariant, PTL

(* next_stream_fd finds the descriptor of the message it takes, and at     *)
(* once, however the writes and the reads were cut (msgs/mod.rs:82-91,     *)
(* 167-193).                                                               *)
THEOREM DescriptorsBelong == Spec => []DescriptorsLead
<1>1. IInv => DescriptorsLead
  <2> SUFFICES ASSUME IInv PROVE DescriptorsLead
    OBVIOUS
  <2>1. stream_msgs \in Seq(Request)
    BY Types DEF IInv
  <2>2. DOMAIN stream_msgs = 1 .. Len(stream_msgs)
    BY <2>1
  <2> QED
    BY <2>2, LeadIs DEF IInv, DescriptorsLead
<1> QED
  BY <1>1, ChannelInvariant, PTL

(* What a read leaves is the beginning of one frame, and no read is made   *)
(* into an empty slice (msgs/mod.rs:34-38, 52, 138, 153).                  *)
THEOREM RoomToRead == Spec => []ReadsGoOn
<1>1. IInv => ReadsGoOn
  <2> SUFFICES ASSUME IInv PROVE ReadsGoOn
    OBVIOUS
  <2>1. /\ wrk_read \in Seq(Cell) /\ srv_read \in Seq(Cell) /\ Cells(down) \in Seq(Cell)
        /\ srv_write \in Seq(Cell) /\ up \in Seq(Cell) /\ wrk_write \in Seq(Cell)
    BY Types, CellTypes DEF IInv
  <2>2. Framed(wrk_read)
    <3> DEFINE b == Cells(down) \o srv_write
    <3>1. b \in Seq(Cell) /\ DownCells = wrk_read \o b
      BY <2>1, CellsRegroup DEF DownCells
    <3> HIDE DEF b
    <3> QED
      BY <2>1, <3>1, FramedParts DEF IInv, DownInv
  <2>3. Framed(srv_read)
    <3> DEFINE b == up \o wrk_write
    <3>1. b \in Seq(Cell) /\ UpCells = srv_read \o b
      BY <2>1, CellsRegroup DEF UpCells
    <3> HIDE DEF b
    <3> QED
      BY <2>1, <3>1, FramedParts DEF IInv, UpInv
  <2>4. Begun(wrk_read) /\ Begun(srv_read)
    BY DEF IInv, ReadInv
  <2>5. Len(wrk_read) < WorkerBuffer /\ Len(srv_read) < Grown(srv_len, Len(srv_read))
    BY RoomIs, GrownIs DEF IInv
  <2> QED
    BY <2>2, <2>3, <2>4, <2>5 DEF ReadsGoOn, Framed, Begun
<1> QED
  BY <1>1, ChannelInvariant, PTL

-----------------------------------------------------------------------------
(* The refinement of Handover.                                             *)

(* The requests on the way, oldest first.                                  *)
Coming == stream_msgs \o Tokens(Whole(DownCells)) \o to_send

(* The requests on the way when the server frames some of them.            *)
LEMMA ComingFramed ==
  ASSUME TypeOK, stream_msgs' = stream_msgs, to_send' = Rest(to_send, Enqueued),
         Tokens(Whole(DownCells))' = Tokens(Whole(DownCells)) \o First(to_send, Enqueued)
  PROVE  Coming' = Coming
<1> DEFINE s == stream_msgs
           w == Tokens(Whole(DownCells))
           f == First(to_send, Enqueued)
           r == Rest(to_send, Enqueued)
<1>1. s \in Seq(Request) /\ w \in Seq(Request) /\ f \in Seq(Request) /\ r \in Seq(Request) /\ f \o r = to_send
  BY Types, CellTypes, EnqueuedIs
<1>2. Coming = (s \o w) \o to_send /\ Coming' = (s \o (w \o f)) \o r
  BY DEF Coming
<1> HIDE DEF s, w, f, r
<1>3. s \o w \in Seq(Request)
  BY <1>1
<1>4. (s \o w) \o f = s \o (w \o f)
  BY ONLY <1>1, TksRegroup
<1>5. ((s \o w) \o f) \o r = (s \o w) \o (f \o r)
  <2> DEFINE v == s \o w
  <2>1. v \in Seq(Request) /\ f \in Seq(Request) /\ r \in Seq(Request)
    BY <1>1, <1>3
  <2> HIDE DEF v
  <2>2. (v \o f) \o r = v \o (f \o r)
    BY ONLY <2>1, TksRegroup
  <2> QED
    BY <2>2 DEF v
<1> QED
  BY <1>1, <1>2, <1>4, <1>5

(* The server hands over a request that was not handed over before.        *)
LEMMA AskMaps ==
  ASSUME IInv, NEW tk \in Request, Ask(tk)
  PROVE  Abstract!Next
<1>1. /\ asked' = asked \cup {tk} /\ to_send' = Append(to_send, tk) /\ tk \notin asked
      /\ UNCHANGED <<srv_write, down, wrk_read, stream_msgs, srv_read, up, wrk_write, held,
                     stream_tks, stream_close_tks>>
  BY AskIs DEF Ask, workerVars, IInv
<1>2. DownCells' = DownCells /\ UpCells' = UpCells
  BY <1>1 DEF DownCells, UpCells
<1>3. Coming' = Append(Coming, tk)
  <2> DEFINE x == stream_msgs \o Tokens(Whole(DownCells))
  <2>1. x \in Seq(Request) /\ to_send \in Seq(Request)
    <3>1. stream_msgs \in Seq(Request) /\ Tokens(Whole(DownCells)) \in Seq(Request) /\ to_send \in Seq(Request)
      BY Types, CellTypes DEF IInv
    <3> QED
      BY <3>1, Joined
  <2>2. Coming = x \o to_send /\ Coming' = x \o Append(to_send, tk)
    BY <1>1, <1>2 DEF Coming
  <2> HIDE DEF x
  <2>3. x \o Append(to_send, tk) = Append(x \o to_send, tk)
    BY <2>1
  <2> QED
    BY <2>2, <2>3
<1>4. Abstract!Ask(tk)
  BY <1>1, <1>2, <1>3 DEF Abstract!Ask, Coming
<1> QED
  BY <1>4 DEF Abstract!Next

(* next_stream_fd takes the oldest request, with its own stream.           *)
LEMMA TakeMaps ==
  ASSUME IInv, NextStreamFd
  PROVE  Abstract!Take
<1> DEFINE x == stream_msgs \o Tokens(Whole(DownCells))
<1>1. /\ held' = held \cup {<<Head(stream_msgs), Head(stream_fds)>>}
      /\ UNCHANGED <<asked, to_send, srv_read, up, wrk_write, stream_tks, stream_close_tks>>
  BY DEF NextStreamFd, serverVars
<1>2. /\ Head(stream_msgs) = Head(stream_fds) /\ x # << >> /\ Head(x) = Head(stream_msgs)
      /\ x' = Tail(x)
  BY DownTakes DEF IInv
<1>3. x \in Seq(Request) /\ to_send \in Seq(Request)
  <2>1. stream_msgs \in Seq(Request) /\ Tokens(Whole(DownCells)) \in Seq(Request) /\ to_send \in Seq(Request)
    BY Types, CellTypes DEF IInv
  <2> QED
    BY <2>1, Joined
<1>4. Coming = x \o to_send /\ Coming' = Tail(x) \o to_send
  BY <1>1, <1>2 DEF Coming
<1> HIDE DEF x
<1>5. x \o to_send # << >> /\ Head(x \o to_send) = Head(x) /\ Tail(x \o to_send) = Tail(x) \o to_send
  BY <1>2, <1>3, TailJoin
<1>6. Coming # << >> /\ Head(Coming) = Head(stream_msgs) /\ Coming' = Tail(Coming)
  BY <1>2, <1>4, <1>5
<1>7. UpCells' = UpCells
  BY <1>1 DEF UpCells
<1> QED
  BY <1>1, <1>2, <1>6, <1>7 DEF Abstract!Take, Coming

(* The worker answers for a stream it holds, once.                         *)
LEMMA AnswerMaps ==
  ASSUME IInv, NEW tk \in Request, NEW kind \in Kind, Answer(tk, kind)
  PROVE  Abstract!Answer(tk, kind)
<1>1. /\ tk \in {p[1] : p \in held} /\ held' = {p \in held : p[1] # tk}
      /\ UNCHANGED <<asked, to_send, srv_write, down, wrk_read, stream_msgs, stream_tks, stream_close_tks>>
  BY DEF Answer, serverVars
<1>2. held \subseteq Request \X Request /\ \A p \in held : p[1] = p[2]
  BY Types DEF IInv, HeldInv
<1>3. \A p \in held : p = <<p[1], p[1]>>
  BY <1>2
<1>4. <<tk, tk>> \in held /\ held' = held \ {<<tk, tk>>}
  BY <1>1, <1>3
<1>5. Whole(UpCells)' = Append(Whole(UpCells), <<tk, kind>>)
  BY UpAnswers DEF IInv
<1>6. Coming' = Coming
  <2>1. DownCells' = DownCells
    BY <1>1 DEF DownCells
  <2> QED
    BY <1>1, <2>1 DEF Coming
<1> QED
  BY <1>1, <1>4, <1>5, <1>6 DEF Abstract!Answer, Coming

(* A read of the server delivers the answers that are complete, or none.   *)
LEMMA ReadMaps ==
  ASSUME IInv, ServerReads
  PROVE  Abstract!Next \/ UNCHANGED Abstract!vars
<1>1. UNCHANGED <<asked, to_send, srv_write, down, wrk_read, stream_msgs, held>>
  BY DEF ServerReads, workerVars
<1>2. Coming' = Coming
  <2>1. DownCells' = DownCells
    BY <1>1 DEF DownCells
  <2> QED
    BY <1>1, <2>1 DEF Coming
<1>3. PICK msgs \in Seq(Msg) :
        /\ Whole(UpCells) = msgs \o Whole(UpCells')
        /\ stream_tks' = stream_tks \o TokensOf(msgs, {"keep"})
        /\ stream_close_tks' = stream_close_tks \o TokensOf(msgs, Kind \ {"keep"})
  BY UpReads DEF IInv
<1>4. Whole(UpCells') \in Seq(Msg)
  <2>1. UpCells' \in Seq(Cell)
    <3>1. TypeOK'
      BY <1>1, InvariantStep DEF IInv, Next
    <3>2. srv_read' \in Seq(Cell) /\ up' \in Seq(Cell) /\ wrk_write' \in Seq(Cell)
      BY <3>1 DEF TypeOK
    <3> QED
      BY <3>2 DEF UpCells
  <2> QED
    BY <2>1, WholeIs
<1> DEFINE a == Whole(UpCells)
           z == Whole(UpCells')
           n == Len(msgs)
<1> HIDE DEF z
<1>5. CASE msgs = << >>
  <2>1. stream_tks' = stream_tks /\ stream_close_tks' = stream_close_tks
    <3>1. TokensOf(msgs, {"keep"}) = << >> /\ TokensOf(msgs, Kind \ {"keep"}) = << >>
      BY <1>5, TokensOfIs
    <3>2. stream_tks \in Seq(Request) /\ stream_close_tks \in Seq(Request)
      BY Types DEF IInv
    <3> QED
      BY <1>3, <3>1, <3>2, ConcatEmptySeq
  <2>2. a = z
    BY <1>3, <1>4, <1>5, ConcatEmptySeq DEF z
  <2>3. UNCHANGED Abstract!vars
    BY <1>1, <1>2, <2>1, <2>2 DEF Abstract!vars, Coming, z
  <2> QED
    BY <2>3
<1>6. CASE msgs # << >>
  <2>1. a = msgs \o z /\ z \in Seq(Msg)
    BY <1>3, <1>4 DEF z
  <2>2. n \in Nat \ {0} /\ n <= Len(a) /\ Len(a) \in Nat
    <3>1. Len(msgs \o z) = Len(msgs) + Len(z) /\ Len(msgs) \in Nat /\ Len(z) \in Nat
      BY <2>1, Joined
    <3> QED
      BY <1>6, <2>1, <3>1
  <2>3. First(a, n) = msgs /\ Rest(a, n) = z
    BY <2>1, Parts
  <2> HIDE DEF a, n
  <2>4. SubSeq(a, 1, n) = msgs /\ SubSeq(a, n + 1, Len(a)) = z
    BY <2>3 DEF First, Rest
  <2>5. /\ stream_tks' = stream_tks \o Abstract!TokensOf(msgs, {"keep"})
        /\ stream_close_tks' = stream_close_tks \o Abstract!TokensOf(msgs, Kind \ {"keep"})
    <3>1. \A K : Abstract!TokensOf(msgs, K) = TokensOf(msgs, K)
      BY DEF TokensOf, Abstract!TokensOf, FlattenSeq, Abstract!FlattenSeq
    <3> QED
      BY <1>3, <3>1
  <2>6. Abstract!Deliver(n)
    BY <1>1, <1>2, <2>4, <2>5 DEF Abstract!Deliver, Coming, a, z
  <2>7. n \in 1 .. Len(a)
    BY <2>2
  <2> QED
    BY <2>6, <2>7 DEF Abstract!Next, a
<1> QED
  BY <1>5, <1>6

(* Reads and writes of the request side, and writes of the answers, are    *)
(* no steps of Handover: they only move bytes.                             *)
LEMMA HandoverStep == IInv /\ [Next]_vars => [Abstract!Next]_(Abstract!vars)
<1> SUFFICES ASSUME IInv, [Next]_vars PROVE Abstract!Next \/ UNCHANGED Abstract!vars
  BY DEF IInv
<1>1. ASSUME NEW tk \in Request, Ask(tk) PROVE Abstract!Next
  BY <1>1, AskMaps
<1>2. ASSUME NEW tk \in Request, NEW kind \in Kind, Answer(tk, kind) PROVE Abstract!Next
  BY <1>2, AnswerMaps DEF Abstract!Next
<1>3. ASSUME NEW n \in 1 .. SocketSize, ServerWrites(n) PROVE UNCHANGED Abstract!vars
  <2>1. /\ to_send' = Rest(to_send, Enqueued)
        /\ UNCHANGED <<asked, stream_msgs, held, srv_read, up, wrk_write, stream_tks, stream_close_tks>>
    BY <1>3 DEF ServerWrites, workerVars
  <2>2. Coming' = Coming
    BY <1>3, <2>1, DownWrites, ComingFramed DEF IInv
  <2>3. UpCells' = UpCells
    BY <2>1 DEF UpCells
  <2> QED
    BY <2>1, <2>2, <2>3 DEF Abstract!vars, Coming
<1>4. ASSUME NEW n \in 1 .. SocketSize, WorkerWrites(n) PROVE UNCHANGED Abstract!vars
  <2>1. UNCHANGED <<asked, to_send, srv_write, down, wrk_read, stream_msgs, held, stream_tks, stream_close_tks>>
    BY <1>4 DEF WorkerWrites, serverVars
  <2>2. UpCells' = UpCells
    BY <1>4, UpWrites DEF IInv
  <2>3. DownCells' = DownCells
    BY <2>1 DEF DownCells
  <2> QED
    BY <2>1, <2>2, <2>3 DEF Abstract!vars
<1>5. CASE ServerWriteBlocks
  <2>1. /\ to_send' = Rest(to_send, Enqueued)
        /\ UNCHANGED <<asked, stream_msgs, held, srv_read, up, wrk_write, stream_tks, stream_close_tks>>
    BY <1>5 DEF ServerWriteBlocks, workerVars
  <2>2. Coming' = Coming
    BY <1>5, <2>1, DownBlocks, ComingFramed DEF IInv
  <2>3. UpCells' = UpCells
    BY <2>1 DEF UpCells
  <2> QED
    BY <2>1, <2>2, <2>3 DEF Abstract!vars, Coming
<1>6. CASE WorkerReads
  <2>1. UNCHANGED <<asked, to_send, srv_read, up, wrk_write, held, stream_tks, stream_close_tks>>
    BY <1>6 DEF WorkerReads, serverVars
  <2>2. Coming' = Coming
    BY <1>6, <2>1, DownReads DEF IInv, Coming
  <2>3. UpCells' = UpCells
    BY <2>1 DEF UpCells
  <2> QED
    BY <2>1, <2>2, <2>3 DEF Abstract!vars, Coming
<1>7. CASE NextStreamFd
  BY <1>7, TakeMaps DEF Abstract!Next
<1>8. CASE ServerReads
  BY <1>8, ReadMaps
<1>9. CASE NextStreamTk
  <2>1. UNCHANGED <<asked, to_send, srv_write, down, wrk_read, stream_msgs, held, srv_read, up, wrk_write>>
    BY <1>9 DEF NextStreamTk, workerVars
  <2>2. UpCells' = UpCells /\ DownCells' = DownCells
    BY <2>1 DEF UpCells, DownCells
  <2>3. Abstract!Return
    BY <1>9, <2>1, <2>2 DEF NextStreamTk, Abstract!Return
  <2> QED
    BY <2>3 DEF Abstract!Next
<1>10. CASE Reregister \/ Idle \/ UNCHANGED vars
  <2>1. Reregister \/ UNCHANGED vars
    BY <1>10 DEF Idle
  <2>2. UNCHANGED <<asked, to_send, srv_write, down, wrk_read, stream_msgs, held, srv_read, up, wrk_write,
                    stream_tks, stream_close_tks>>
    BY <2>1 DEF Reregister, vars, serverVars, workerVars
  <2>3. UpCells' = UpCells /\ DownCells' = DownCells
    BY <2>2 DEF UpCells, DownCells
  <2> QED
    BY <2>2, <2>3 DEF Abstract!vars
<1> QED
  BY <1>1, <1>2, <1>3, <1>4, <1>5, <1>6, <1>7, <1>8, <1>9, <1>10 DEF Next

(* The message buffers and the byte stream between them hand over whole    *)
(* messages, once and in order, and each request with its own descriptor   *)
(* (msgs/mod.rs:33-112, 137-209).                                          *)
THEOREM ChannelHandsOver == Spec => HandsOver
<1>1. Init => Abstract!Init
  <2> SUFFICES ASSUME Init PROVE Abstract!Init
    OBVIOUS
  <2>1. Whole(DownCells) = << >> /\ Whole(UpCells) = << >>
    BY InitIs
  <2>2. stream_msgs \o Tokens(Whole(DownCells)) \o to_send = << >>
    <3>1. stream_msgs = << >> /\ to_send = << >> /\ << >> \o << >> = << >>
      BY DEF Init
    <3> QED
      BY <2>1, <3>1, Nothing
  <2> QED
    BY <2>1, <2>2 DEF Init, Abstract!Init
<1>2. IInv /\ [Next]_vars => [Abstract!Next]_(Abstract!vars)
  BY HandoverStep
<1> QED
  BY ChannelInvariant, <1>1, <1>2, PTL DEF Spec, HandsOver, Abstract!Spec
=============================================================================
