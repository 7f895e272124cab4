------------------------------ MODULE Handover ------------------------------
(***************************************************************************)
(* What server and worker may count on between them: requests go over      *)
(* whole, once and in order, each with the descriptor of its own stream;   *)
(* answers come back whole, once and in order.  MsgChannel implements it   *)
(* with a byte stream and descriptors that travel beside the bytes.        *)
(***************************************************************************)
EXTENDS Naturals, SequencesExt

CONSTANTS Request, Kind     (* requests; kinds of answers, "keep" among them *)

VARIABLES
  asked,      (* requests the server has handed over                        *)
  requests,   (* those on the way, oldest first                             *)
  held,       (* those the worker has, with the stream it took for each     *)
  answers,    (* answers on the way: <<request, kind>>                      *)
  keep,       (* streams the server may use again                           *)
  close       (* streams the server has to close                            *)

vars == <<asked, requests, held, answers, keep, close>>

Init ==
  /\ asked = {} /\ requests = << >> /\ held = {}
  /\ answers = << >> /\ keep = << >> /\ close = << >>

Ask(r) ==
  /\ r \notin asked
  /\ asked' = asked \cup {r}
  /\ requests' = Append(requests, r)
  /\ UNCHANGED <<held, answers, keep, close>>

(* The stream that comes with a request is the stream of that request.     *)
Take ==
  /\ requests # << >>
  /\ held' = held \cup {<<Head(requests), Head(requests)>>}
  /\ requests' = Tail(requests)
  /\ UNCHANGED <<asked, answers, keep, close>>

Answer(r, kind) ==
  /\ <<r, r>> \in held
  /\ held' = held \ {<<r, r>>}
  /\ answers' = Append(answers, <<r, kind>>)
  /\ UNCHANGED <<asked, requests, keep, close>>

(* The requests that the answers of these kinds are about.                 *)
TokensOf(msgs, kinds) ==
  FlattenSeq([i \in DOMAIN msgs |-> IF msgs[i][2] \in kinds THEN <<msgs[i][1]>> ELSE << >>])

(* The server reads n answers.                                             *)
Deliver(n) ==
  /\ LET read == SubSeq(answers, 1, n)
     IN /\ keep'  = keep  \o TokensOf(read, {"keep"})
        /\ close' = close \o TokensOf(read, Kind \ {"keep"})
  /\ answers' = SubSeq(answers, n + 1, Len(answers))
  /\ UNCHANGED <<asked, requests, held>>

Return ==
  /\ \/ keep # << >> /\ keep' = Tail(keep) /\ UNCHANGED close
     \/ close # << >> /\ close' = Tail(close) /\ UNCHANGED keep
  /\ UNCHANGED <<asked, requests, held, answers>>

Next ==
  \/ Take \/ Return
  \/ \E r \in Request : Ask(r) \/ \E kind \in Kind : Answer(r, kind)
  \/ \E n \in 1 .. Len(answers) : Deliver(n)

Spec == Init /\ [][Next]_vars
=============================================================================
