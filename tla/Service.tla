------------------------------- MODULE Service -------------------------------
(***************************************************************************)
(* What a worker does for the requests of its server, told without loop,   *)
(* timers or threads.  A request waits from the moment the server sends it *)
(* until it is settled what becomes of it: python code is run for it, or   *)
(* casket makes the response itself (a 408, 503 or 504), or it is handed   *)
(* back with an error.  It is settled once and answered once.              *)
(*                                                                         *)
(* A response may go out while the code still runs for its request (the    *)
(* 504 of worker/mod.rs:380), and the code may end long after; what may    *)
(* never happen is that it starts for a request that has been refused or   *)
(* answered, or starts twice.                                              *)
(***************************************************************************)
CONSTANT Request

VARIABLES
  stage,       (* of each request                                            *)
  executing    (* the requests python code runs for                          *)

vars == <<stage, executing>>

Move(S, from, to) ==
  /\ \A r \in S : stage[r] \in from
  /\ stage' = [r \in Request |-> IF r \in S THEN to ELSE stage[r]]

Init ==
  /\ stage = [r \in Request |-> "unknown"]
  /\ executing = {}

Arrive(r) == Move({r}, {"unknown"}, "waiting") /\ UNCHANGED executing

(* A thread starts the code of a request that waits for it.                *)
Execute(r) == Move({r}, {"waiting"}, "settled") /\ executing' = executing \cup {r}

(* The code of a request has ended, and so has its response body.          *)
Finish(r) == r \in executing /\ executing' = executing \ {r} /\ UNCHANGED stage

(* Requests that will not be executed: casket has refused one, or a thread *)
(* has died with these in its channel.                                     *)
Refuse(S) == S # {} /\ Move(S, {"waiting"}, "settled") /\ UNCHANGED executing

(* The loss of the channel and the end of the code, in one panic.          *)
Die(r, S) == r \in executing /\ executing' = executing \ {r} /\ Move(S, {"waiting"}, "settled")

(* The answer is buffered for the server, and the stream handed back.      *)
Answer(r) == Move({r}, {"waiting", "settled"}, "answered") /\ UNCHANGED executing

Next ==
  \/ \E r \in Request : Arrive(r) \/ Execute(r) \/ Finish(r) \/ Answer(r)
  \/ \E S \in SUBSET Request : Refuse(S)
  \/ \E r \in Request, S \in SUBSET Request : Die(r, S)

Spec == Init /\ [][Next]_vars
=============================================================================
