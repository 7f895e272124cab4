----------------------------- MODULE ChannelInv -----------------------------
(***************************************************************************)
(* The inductive invariant behind the safety properties of MsgChannel and  *)
(* behind its refinement of Handover: the bytes on their way are frames,   *)
(* one after the other, and the descriptors on their way are those of the  *)
(* messages on their way, never later than the last byte of their message. *)
(***************************************************************************)
EXTENDS MsgChannel

-----------------------------------------------------------------------------
(* Bytes in frames.                                                        *)

(* A byte of a message, and the byte after it: the next of its frame, or   *)
(* the first of another.                                                   *)
Follows(c, d) == IF LastOf(c) THEN d.at = 1 ELSE d = [msg |-> c.msg, at |-> c.at + 1]

(* Cells that begin with a frame and go on frame after frame; the last one *)
(* may be cut.                                                             *)
Framed(cells) ==
  /\ \A i \in 1 .. Len(cells) : cells[i].at \in 1 .. Size[cells[i].msg[2]]
  /\ \A i \in 1 .. Len(cells) - 1 : Follows(cells[i], cells[i + 1])
  /\ cells # << >> => cells[1].at = 1

(* The last frame is complete.                                             *)
Ended(cells) == cells # << >> => LastOf(cells[Len(cells)])

(* What a read may leave: the beginning of one frame.                      *)
Begun(cells) == cells # << >> => Len(cells) < Size[cells[1].msg[2]]

-----------------------------------------------------------------------------
(* Requests are numbered as they are handed over, and none is handed over  *)
(* twice.                                                                  *)
AskedInv == \E n \in Nat : asked = 1 .. n

(* What goes down is requests in frames, with the descriptors of those and *)
(* of the messages that wait for theirs to be taken.                       *)
DownInv ==
  /\ Framed(DownCells) /\ Ended(DownCells)
  /\ \A i \in 1 .. Len(DownCells) : DownCells[i].msg[2] = "request"
  /\ stream_fds \o Fds(down) \o outfds = stream_msgs \o Tokens(Whole(DownCells))

(* However much of it the worker has read, it has the descriptors of the   *)
(* messages that are complete.                                             *)
LeadInv ==
  \A k \in 0 .. Len(down) :
    Len(stream_msgs) + Len(Whole(wrk_read \o Cells(First(down, k))))
      <= Len(stream_fds) + Len(Fds(First(down, k)))

(* What goes up is answers in frames.                                      *)
UpInv == Framed(UpCells) /\ Ended(UpCells)

(* The worker answers for a stream by the number it came as.               *)
HeldInv == \A p \in held : p[1] = p[2]

(* A read buffer holds less than a frame, in the length it has.            *)
ReadInv ==
  /\ Begun(wrk_read) /\ Begun(srv_read)
  /\ srv_len > 0 /\ Len(srv_read) <= srv_len

IInv == TypeOK /\ AskedInv /\ DownInv /\ LeadInv /\ UpInv /\ HeldInv /\ ReadInv
=============================================================================
