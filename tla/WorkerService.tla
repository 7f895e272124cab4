---------------------------- MODULE WorkerService ----------------------------
(***************************************************************************)
(* Worker implements Service: where each request is, read off the maps,    *)
(* buffers and channels of the worker.                                     *)
(***************************************************************************)
EXTENDS WorkerInv

(* Early(tk): the request is on its way to a thread and none has taken it. *)
Stage(tk) ==
  IF tk \notin requested THEN "unknown"
  ELSE IF tk \in Buffered \cup answered THEN "answered"
  ELSE IF Early(tk) THEN "waiting"
  ELSE "settled"

StageOf == [tk \in Token |-> Stage(tk)]

(* Code runs for a request until its body has been streamed.               *)
InCode == {tk \in Token : \E t \in Thread : current[t] = tk}

Abstract == INSTANCE Service WITH Request <- Token, stage <- StageOf, executing <- InCode

(* Python code is started at most once for a request, and never for one    *)
(* that was refused (408, 503, 504) or answered; each request is answered  *)
(* at most once and not taken up again, although the response, the code    *)
(* start and the timers of a request reach the loop by different ways and  *)
(* its code may outlive its answer (pythonexec/mod.rs:84-131,              *)
(* pythonthreads.rs:68-97, worker/mod.rs:175-191).                         *)
ServesEachOnce == Abstract!Spec
=============================================================================
