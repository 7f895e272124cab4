------------------------------ MODULE WorkerInv ------------------------------
(***************************************************************************)
(* The inductive invariant behind the safety properties of Worker: what    *)
(* is true between any two steps, told token by token.                     *)
(***************************************************************************)
EXTENDS Worker

(* A buffer is empty outside the part of the loop that fills and drains    *)
(* it; the results the timeouts push are all responses of casket.          *)
PhaseInv ==
  /\ loc \in {"top", "results", "timeouts", "timeoutResults"} => events = {}
  /\ loc \in {"top", "timeoutResults"} => timeouts = {}
  /\ loc = "top" => results = {}
  /\ loc \in {"timeouts", "timeoutResults"} =>
       \A r \in results : r[2] = "ServerCasketResponseNew"

-----------------------------------------------------------------------------
(* OneOwner for one token, and without the condition that the worker runs. *)

Has(tk, act) == <<tk, act>> \in results
Arrived(tk) == <<tk, "NewStreamFd">> \in events
Acted(tk)   == \E act \in StreamAction : Has(tk, act)

Owned(tk) ==
  /\ tk \in server_fds <=>
       \/ Arrived(tk) \/ tk \in reading \/ tk \in pending
       \/ tk \in writing \/ tk \in casket \/ Acted(tk)
  /\ Arrived(tk) =>
       tk \notin reading /\ tk \notin pending /\ tk \notin writing /\ tk \notin casket /\ ~Acted(tk)
  /\ tk \in reading => tk \notin pending /\ tk \notin writing /\ tk \notin casket /\ ~Acted(tk)
  /\ tk \in pending => tk \notin writing /\ tk \notin casket /\ ~Acted(tk)
  /\ tk \in writing => tk \notin casket /\ ~Acted(tk)
  /\ tk \in casket => ~Acted(tk)
  /\ \A act, other \in StreamAction : Has(tk, act) /\ Has(tk, other) => act = other

OwnInv == \A tk \in Token : Owned(tk)

-----------------------------------------------------------------------------
(* A stream that epoll watches is in the map of its event, with the event  *)
(* filed or just taken out, or on its way to be registered again or not.   *)
WatchedRight(tk) ==
  /\ interest[tk] = "read" =>
       \/ tk \in reading /\ (tk \in reg_read \/ <<tk, "ServerStreamRead">> \in events)
       \/ \E act \in {"ServerContinueRead", "ServerReadDone", "ServerStreamEOF", "Error"} : Has(tk, act)
  /\ interest[tk] = "write" =>
       \/ /\ tk \in writing
          /\ reg_write[tk] = "ServerStreamWrite" \/ <<tk, "ServerStreamWrite">> \in events
       \/ /\ tk \in casket
          /\ reg_write[tk] = "CasketResponseWrite" \/ <<tk, "CasketResponseWrite">> \in events
       \/ \E act \in {"ServerContinueWrite", "ServerDoneWrite", "ServerCasketResponseContinue",
                      "ServerCasketResponseDone", "Error"} : Has(tk, act)
  /\ <<tk, "ServerStreamRead">> \in events => tk \in reading
  /\ <<tk, "ServerStreamWrite">> \in events => tk \in writing
  /\ <<tk, "CasketResponseWrite">> \in events => tk \in casket

WatchInv == \A tk \in Token : WatchedRight(tk)

-----------------------------------------------------------------------------
(* The way of a request up to the thread that takes it ...                 *)
Early(tk) ==
  \/ tk \in unix_in \/ tk \in stream_fds \/ Arrived(tk) \/ tk \in reading
  \/ \E act \in {"NewServerRequest", "ServerContinueRead", "ServerReadDone"} : Has(tk, act)
  \/ tk \in queued_reqs
  \/ \E t \in Thread : tk \in req_recv[t]

(* ... and everything that exists only because a thread has taken it.      *)
Started(tk) ==
  \/ tk \in code_start
  \/ Has(tk, "ServerPythonCodeTimeoutNew")
  \/ <<tk, "PythonCodeTimeout">> \in timerq
  \/ <<tk, "PythonCodeTimeout">> \in events
  \/ <<tk, "PythonCodeTimeout">> \in timeouts
  \/ tk \in timed_out_reqs
  \/ \E t \in Thread : current[t] = tk
  \/ tk \in resp

StartedInv == \A tk \in Token : Started(tk) => tk \in requested /\ ~Early(tk)

(* A request is in one place among the threads and their channels, and the *)
(* worker waits for its response: as pending, or as timed out.             *)
Executing(t, tk) == thread[t] = "execute" /\ current[t] = tk

OnePlace(tk) ==
  /\ tk \in resp =>
       \A t \in Thread : tk \notin req_recv[t] /\ ~Executing(t, tk)
  /\ \A t, u \in Thread :
       /\ tk \in req_recv[t] => ~Executing(u, tk)
       /\ t # u => ~(tk \in req_recv[t] /\ tk \in req_recv[u])
       /\ t # u => ~(Executing(t, tk) /\ Executing(u, tk))

AtThreads(tk) ==
  \/ tk \in resp
  \/ \E t \in Thread : tk \in req_recv[t]
  \/ \E t \in Thread : Executing(t, tk)

Expected(tk) ==
  \/ tk \in pending /\ tk \notin queued_reqs /\ ~Has(tk, "ServerNewResponse")
  \/ tk \in timed_out_reqs

Awaited(tk) ==
  /\ AtThreads(tk) => Expected(tk)
  /\ (\A t \in Thread : thread[t] # "dead") => (Expected(tk) => AtThreads(tk))
  /\ tk \in queued_reqs => tk \in pending
  /\ tk \in timed_out_reqs => tk \notin pending
  /\ Has(tk, "ServerNewResponse") =>
       tk \in pending /\ tk \notin queued_reqs /\ tk \notin timed_out_reqs

AwaitInv == \A tk \in Token : OnePlace(tk) /\ Awaited(tk)

IInv ==
  /\ TypeOK /\ PhaseInv /\ RequestsAccounted /\ OwnInv
  /\ WatchInv /\ StartedInv /\ AwaitInv /\ PendingAccounting
=============================================================================
