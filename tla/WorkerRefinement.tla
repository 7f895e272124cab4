-------------------------- MODULE WorkerRefinement --------------------------
(***************************************************************************)
(* The worker implements Service, for any set of tokens and threads, any   *)
(* limit on the requests and any set of faults.  Which step of Service a   *)
(* step of the worker is follows from what it does to two facts about each *)
(* request: whether it is still on its way to a thread (Early), and        *)
(* whether the server has its answer (Done).                               *)
(***************************************************************************)
EXTENDS WorkerService, WorkerSafety

Done(tk) == tk \in Buffered \cup answered

(* No request is with two threads at once.                                 *)
OneThread ==
  \A t, u \in Thread : current[t] \in Token /\ current[t] = current[u] => t = u

-----------------------------------------------------------------------------
(* A request on its way has been sent and has no answer: it waits.         *)
LEMMA EarlyWaits ==
  ASSUME IInv, NEW tk \in Token, Early(tk)
  PROVE  Stage(tk) = "waiting"
<1>1. tk \in unix_in \cup stream_fds \cup server_fds
  <2>1. CASE tk \in queued_reqs \/ \E t \in Thread : tk \in req_recv[t]
    <3>1. tk \in pending
      BY <2>1 DEF IInv, AwaitInv, Awaited, AtThreads, Expected, StartedInv, Started
    <3> QED
      BY <3>1 DEF IInv, OwnInv, Owned
  <2>2. CASE ~(tk \in queued_reqs \/ \E t \in Thread : tk \in req_recv[t])
    BY <2>2 DEF Early, IInv, OwnInv, Owned, Acted, StreamAction, ActionKind
  <2> QED
    BY <2>1, <2>2
<1>2. tk \in requested /\ tk \notin Buffered \cup answered
  BY <1>1 DEF IInv, RequestsAccounted
<1> QED
  BY <1>2 DEF Stage

(* The stages of Service move as those of the requests do.                 *)
LEMMA StagesMove ==
  ASSUME NEW S \in SUBSET Token, NEW from, NEW to,
         \A u \in S : Stage(u) \in from /\ Stage(u)' = to,
         \A u \in Token \ S : Stage(u)' = Stage(u)
  PROVE  Abstract!Move(S, from, to)
BY DEF Abstract!Move, StageOf

(* What has been sent, what is on its way and what is answered is all that *)
(* a stage is made of.                                                     *)
LEMMA StageKept ==
  ASSUME NEW tk \in Token, UNCHANGED requested, Done(tk)' <=> Done(tk), Early(tk)' <=> Early(tk)
  PROVE  Stage(tk)' = Stage(tk)
BY DEF Stage, Done

(* A step that answers nothing, and lets no request on its way again, is   *)
(* a refusal of those that no longer are; or nothing, if there are none.   *)
LEMMA LeavesOrStays ==
  ASSUME IInv, UNCHANGED requested,
         \A tk \in Token : (Done(tk)' <=> Done(tk)) /\ (Early(tk)' => Early(tk))
  PROVE  LET left == {tk \in Token : Early(tk) /\ ~Early(tk)'}
         IN  Abstract!Move(left, {"waiting"}, "settled")
<1> DEFINE left == {tk \in Token : Early(tk) /\ ~Early(tk)'}
<1>1. ASSUME NEW tk \in left PROVE Stage(tk) = "waiting" /\ Stage(tk)' = "settled"
  <2>1. Stage(tk) = "waiting"
    BY EarlyWaits
  <2>2. tk \in requested' /\ ~Done(tk)'
    BY <2>1 DEF Stage, Done
  <2> QED
    BY <2>1, <2>2 DEF Stage, Done
<1>2. ASSUME NEW tk \in Token \ left PROVE Stage(tk)' = Stage(tk)
  BY StageKept
<1> QED
  BY <1>1, <1>2, StagesMove

LEMMA RefusesOrStays ==
  ASSUME IInv, UNCHANGED requested, UNCHANGED InCode,
         \A tk \in Token : (Done(tk)' <=> Done(tk)) /\ (Early(tk)' => Early(tk))
  PROVE  [Abstract!Next]_(Abstract!vars)
<1> DEFINE left == {tk \in Token : Early(tk) /\ ~Early(tk)'}
<1>1. Abstract!Move(left, {"waiting"}, "settled")
  BY LeavesOrStays
<1>2. CASE left = {}
  BY <1>1, <1>2 DEF Abstract!Move, Abstract!vars, StageOf
<1>3. CASE left # {}
  BY <1>1, <1>3 DEF Abstract!Next, Abstract!Refuse
<1> QED
  BY <1>2, <1>3

-----------------------------------------------------------------------------
(* The steps that start no code and answer nothing: of the loop ...        *)
LEMMA LoopSteps ==
  ASSUME IInv,
         \/ Still \/ EndRound \/ CtrlC \/ UnixStreamRead \/ UnixStreamWrite
         \/ TakeCodeStarts \/ TakeHttpResponses
  PROVE  [Abstract!Next]_(Abstract!vars)
<1> USE DEF CtrlC, UnixStreamRead, UnixStreamWrite, TakeCodeStarts, TakeHttpResponses, Take,
            Still, EndRound, unixVars, streamVars, msgVars, pollVars, queueVars, threadVars
<1>1. UNCHANGED requested /\ UNCHANGED current
  OBVIOUS
<1>2. ASSUME NEW tk \in Token PROVE Done(tk)' <=> Done(tk)
  <2>1. Buffered' \cup answered' = Buffered \cup answered
    BY DEF Buffered
  <2> QED
    BY <2>1 DEF Done
<1>3. ASSUME NEW tk \in Token PROVE Early(tk)' => Early(tk)
  BY DEF Early, Arrived, Has
<1> QED
  BY <1>1, <1>2, <1>3, RefusesOrStays DEF InCode

LEMMA GatherStep ==
  ASSUME IInv, AnyGather
  PROVE  [Abstract!Next]_(Abstract!vars)
<1>1. PICK expired \in SUBSET timerq, ready \in SUBSET Filed,
           others \in SUBSET ({UNIX_STREAM_TOKEN} \X {"UnixStreamRead", "UnixStreamWrite", "CtrlC"}) :
             Gather(expired, ready, others)
  BY DEF AnyGather
<1>2. ASSUME NEW tk \in Token PROVE (Done(tk)' <=> Done(tk)) /\ (Early(tk)' => Early(tk))
  <2>1. Arrived(tk)' <=> tk \in stream_fds
    BY <1>1, GatherEvents DEF IInv
  <2> QED
    BY <1>1, <2>1 DEF Gather, Done, Buffered, Early, Has, unixVars, streamVars, queueVars, threadVars
<1> QED
  BY <1>1, <1>2, RefusesOrStays DEF Gather, InCode, unixVars, threadVars

(* ... of an event or a timeout of one request ...                         *)
LEMMA EventSteps ==
  ASSUME IInv, NEW tk \in Token, OnAnyEvent(tk) \/ OnAnyTimeout(tk)
  PROVE  [Abstract!Next]_(Abstract!vars)
<1> USE DEF Early, Arrived, Has, streamVars, queueVars, threadVars, unixVars, msgVars
<1>1. ASSUME NEW u \in Token, NewStreamFd(tk) PROVE Early(u)' => Early(u)
  BY <1>1 DEF NewStreamFd, TakeStream, Take, First
<1>2. ASSUME NEW u \in Token,
             ServerStreamRead(tk) \/ ServerStreamWrite(tk) \/ CasketResponseWrite(tk)
      PROVE  Early(u)' => Early(u)
  BY <1>2 DEF ServerStreamRead, ServerStreamWrite, CasketResponseWrite, Outcome, TakeStream, Take
<1>3. ASSUME NEW u \in Token, NEW timer \in Timer, TimerEvent(tk, timer)
      PROVE  Early(u)' => Early(u)
  BY <1>3 DEF TimerEvent, TakeStream, Take
<1>4. ASSUME NEW u \in Token, NEW t \in Thread, SendQueuedRequest(tk, t)
      PROVE  Early(u)' => Early(u)
  BY <1>4 DEF SendQueuedRequest, IInv, TypeOK
<1>5. ASSUME NEW u \in Token, RequestReadTimeout(tk) \/ PythonCodeTimeout(tk)
      PROVE  Early(u)' => Early(u)
  BY <1>5 DEF RequestReadTimeout, PythonCodeTimeout, TakeTimeout
<1>6. ASSUME NEW u \in Token, NEW timer \in Timer, TimeoutIgnored(tk, timer)
      PROVE  Early(u)' => Early(u)
  BY <1>6 DEF TimeoutIgnored, TakeTimeout
<1>7. UNCHANGED <<requested, answered, write_buffer, current>>
  BY DEF OnAnyEvent, OnAnyTimeout, NewStreamFd, ServerStreamRead, ServerStreamWrite,
         CasketResponseWrite, TimerEvent, SendQueuedRequest, TakeStream, Take,
         RequestReadTimeout, PythonCodeTimeout, TimeoutIgnored, TakeTimeout
<1> HIDE DEF Early, Arrived, Has, streamVars, queueVars, threadVars, unixVars, msgVars
<1>8. \A u \in Token : Early(u)' => Early(u)
  BY <1>1, <1>2, <1>3, <1>4, <1>5, <1>6, Zenon DEF OnAnyEvent, OnAnyTimeout
<1> QED
  BY <1>7, <1>8, RefusesOrStays DEF Done, Buffered, InCode

(* ... and of a result that is not an answer.                              *)
LEMMA ResultSteps ==
  ASSUME IInv, NEW tk \in Token,
         \/ \E act \in {"NewServerRequest", "ServerContinueRead"} : ReadOn(tk, act)
         \/ ReadDone(tk)
         \/ \E act \in {"ServerNewResponse", "ServerContinueWrite"} : WriteOn(tk, act)
         \/ \E act \in {"ServerCasketResponseNew", "ServerCasketResponseContinue"} : CasketOn(tk, act)
         \/ ServerPythonCodeTimeoutNew(tk)
  PROVE  [Abstract!Next]_(Abstract!vars)
<1> USE DEF ReadOn, ReadDone, WriteOn, CasketOn, ServerPythonCodeTimeoutNew, TakeResult,
            unixVars, streamVars, threadVars
<1>1. UNCHANGED <<requested, answered, write_buffer, current>>
  OBVIOUS
<1>2. ASSUME NEW u \in Token PROVE Early(u)' => Early(u)
  BY DEF Early, Arrived, Has
<1> QED
  BY <1>1, <1>2, RefusesOrStays DEF Done, Buffered, InCode

-----------------------------------------------------------------------------
(* The server sends a request: it arrives.                                 *)
LEMMA DispatchStep ==
  ASSUME IInv, NEW tk \in Token, Dispatch(tk)
  PROVE  Abstract!Arrive(tk)
<1> USE DEF Dispatch, loopVars, streamVars, msgVars, pollVars, queueVars, threadVars
<1>1. Stage(tk) = "unknown"
  BY DEF Stage
<1>2. Stage(tk)' = "waiting"
  <2>1. ~Done(tk)
    BY DEF IInv, RequestsAccounted, Done
  <2> QED
    BY <2>1 DEF Stage, Done, Buffered, Early
<1>3. ASSUME NEW u \in Token \ {tk} PROVE Stage(u)' = Stage(u)
  BY DEF Stage, Buffered, Early, Arrived, Has
<1>4. Abstract!Move({tk}, {"unknown"}, "waiting")
  BY <1>1, <1>2, <1>3, StagesMove
<1> QED
  BY <1>4 DEF Abstract!Arrive, InCode

(* A stream is handed back: its request is answered.                       *)
LEMMA AnswerStep ==
  ASSUME IInv, NEW tk \in Token, NEW act \in ActionKind, NEW keep_alive \in BOOLEAN,
         Returned(tk, act, keep_alive)
  PROVE  Abstract!Answer(tk)
<1> USE DEF Returned, TakeResult, Answer, unixVars, threadVars
<1>1. tk \in requested /\ ~Done(tk)
  BY DEF IInv, RequestsAccounted, Done
<1>2. Stage(tk) \in {"waiting", "settled"}
  BY <1>1 DEF Stage, Done
<1>3. \A u : Done(u)' <=> Done(u) \/ u = tk
  <2> DEFINE new == [token |-> tk, keep_alive |-> keep_alive]
  <2>1. write_buffer' = write_buffer \cup {new} /\ new.token = tk
    OBVIOUS
  <2> HIDE DEF new
  <2>2. \A u : u \in Buffered' <=> u \in Buffered \/ u = tk
    BY <2>1 DEF Buffered
  <2>3. UNCHANGED answered
    OBVIOUS
  <2> QED
    BY <2>2, <2>3 DEF Done
<1>4. Stage(tk)' = "answered"
  BY <1>1, <1>3 DEF Stage, Done
<1>5. ASSUME NEW u \in Token \ {tk} PROVE Stage(u)' = Stage(u)
  <2>1. Early(u)' <=> Early(u)
    BY DEF Early, Arrived, Has
  <2> QED
    BY <1>3, <2>1, StageKept
<1>6. Abstract!Move({tk}, {"waiting", "settled"}, "answered")
  BY <1>2, <1>4, <1>5, StagesMove
<1> QED
  BY <1>6 DEF Abstract!Answer, InCode

(* A thread takes a request: it is executed.                               *)
LEMMA ExecuteStep ==
  ASSUME IInv, NEW t \in Thread, NEW tk \in Token, CodeStart(t, tk)
  PROVE  Abstract!Execute(tk)
<1> USE DEF CodeStart, ThreadStep, unixVars, loopVars, streamVars, msgVars, pollVars, queueVars
<1>1. Early(tk)
  BY DEF Early
<1>2. tk \in pending /\ tk \notin queued_reqs
  BY <1>1 DEF AtThreads, IInv, AwaitInv, Awaited, Expected, StartedInv, Started
<1>3. tk \in server_fds /\ ~Arrived(tk) /\ tk \notin reading /\ ~Acted(tk)
  BY <1>2 DEF IInv, OwnInv, Owned
<1>4. tk \notin unix_in /\ tk \notin stream_fds
  BY <1>3 DEF IInv, RequestsAccounted
<1>5. \A u \in Thread : tk \notin req_recv'[u]
  BY DEF IInv, AwaitInv, OnePlace, TypeOK
<1>6. ~Early(tk)'
  BY <1>2, <1>3, <1>4, <1>5 DEF Early, Arrived, Acted, Has, StreamAction, ActionKind
<1>7. \A u \in Token : Done(u)' <=> Done(u)
  BY DEF Done, Buffered
<1>8. Stage(tk) = "waiting" /\ Stage(tk)' = "settled"
  BY <1>1, <1>6, <1>7, EarlyWaits DEF Stage, Done
<1>9. ASSUME NEW u \in Token \ {tk} PROVE Stage(u)' = Stage(u)
  <2>1. Early(u)' <=> Early(u)
    BY DEF Early, Arrived, Has, IInv, TypeOK
  <2> QED
    BY <1>7, <2>1, StageKept
<1>10. Abstract!Move({tk}, {"waiting"}, "settled")
  BY <1>8, <1>9, StagesMove
<1>11. InCode' = InCode \cup {tk}
  <2>1. /\ \A u \in Thread \ {t} : current'[u] = current[u]
        /\ current'[t] = tk
    BY DEF IInv, TypeOK
  <2>2. current[t] \notin Token
    BY TokenAssumption DEF IInv, TypeOK
  <2> QED
    BY <2>1, <2>2 DEF InCode
<1> QED
  BY <1>10, <1>11 DEF Abstract!Execute

(* The other steps of a thread: the code goes on, ends or dies.            *)
LEMMA ThreadSteps ==
  ASSUME IInv, OneThread, NEW t \in Thread, SendResponse(t) \/ BodyDone(t) \/ ThreadDies(t)
  PROVE  [Abstract!Next]_(Abstract!vars)
<1> USE DEF SendResponse, BodyDone, ThreadDies, ThreadStep, unixVars, loopVars, streamVars,
            msgVars, pollVars, queueVars
<1>1. UNCHANGED requested
  OBVIOUS
<1>2. \A u \in Token : Done(u)' <=> Done(u)
  BY DEF Done, Buffered
<1>3. ASSUME NEW u \in Token PROVE Early(u)' => Early(u)
  BY DEF Early, Arrived, Has, IInv, TypeOK
<1>4. CASE UNCHANGED current
  BY <1>1, <1>2, <1>3, <1>4, RefusesOrStays DEF InCode
<1>5. CASE ~UNCHANGED current
  <2> DEFINE left == {u \in Token : Early(u) /\ ~Early(u)'}
  <2>1. /\ current[t] \in Token /\ current' = [current EXCEPT ![t] = NO_TOKEN]
        /\ thread[t] # "recv"
    BY <1>5 DEF IInv, TypeOK
  <2>2. InCode' = InCode \ {current[t]}
    <3>1. /\ \A u \in Thread \ {t} : current'[u] = current[u]
          /\ current'[t] = NO_TOKEN
      BY <2>1 DEF IInv, TypeOK
    <3> QED
      BY <2>1, <3>1, TokenAssumption DEF InCode, OneThread
  <2>3. current[t] \in InCode
    BY <2>1 DEF InCode
  <2>4. Abstract!Move(left, {"waiting"}, "settled")
    BY <1>1, <1>2, <1>3, LeavesOrStays
  <2>5. Abstract!Die(current[t], left)
    BY <2>2, <2>3, <2>4 DEF Abstract!Die
  <2> QED
    BY <2>1, <2>5 DEF Abstract!Next
<1> QED
  BY <1>4, <1>5

-----------------------------------------------------------------------------
LEMMA OneThreadStep ==
  ASSUME IInv, OneThread, [Next]_vars
  PROVE  OneThread'
<1>1. ASSUME NEW t \in Thread, NEW tk \in Token, CodeStart(t, tk) PROVE OneThread'
  <2>1. \A u \in Thread : current[u] # tk
    BY <1>1 DEF CodeStart, IInv, StartedInv, Started, Early
  <2> QED
    BY <1>1, <2>1 DEF CodeStart, IInv, TypeOK, OneThread
<1>2. ASSUME NEW t \in Thread, SendResponse(t) \/ BodyDone(t) \/ ThreadDies(t) PROVE OneThread'
  BY <1>2, TokenAssumption DEF SendResponse, BodyDone, ThreadDies, IInv, TypeOK, OneThread
<1>3. ASSUME UNCHANGED current PROVE OneThread'
  BY <1>3 DEF OneThread
<1>4. Loop \/ (\E tk \in Token : Dispatch(tk)) \/ Stop \/ UNCHANGED vars => UNCHANGED current
  <2>1. OnEvent => UNCHANGED current
    BY DEF OnEvent, CtrlC, UnixStreamRead, UnixStreamWrite, UnixStreamFails, TakeCodeStarts,
           TakeHttpResponses, PythonThreadsDied, SendQueuedRequest, NewStreamFd, ServerStreamRead,
           ServerStreamWrite, CasketResponseWrite, TimerEvent, TakeStream, Take, Goto, threadVars
  <2>2. OnResult \/ OnTimeout => UNCHANGED current
    BY DEF OnResult, NewServerRequest, ServerContinueRead, ServerReadDone, ServerStreamEOF,
           ServerNewResponse, ServerContinueWrite, ServerDoneWrite, ServerCasketResponseNew,
           ServerCasketResponseContinue, ServerCasketResponseDone, ServerPythonCodeTimeoutNew,
           HandleError, HandBack, CasketResponse, TakeResult, OnTimeout, RequestReadTimeout,
           PythonCodeTimeout, TimeoutIgnored, TakeTimeout, threadVars
  <2>3. Exit \/ Poll \/ PollFails \/ NextPhase \/ EndRound \/ RegistryFails => UNCHANGED current
    BY DEF Exit, Poll, Tick, Interrupt, Gather, PollFails, NextPhase, EndRound, RegistryFails,
           Goto, threadVars
  <2>4. (\E tk \in Token : Dispatch(tk)) \/ Stop \/ UNCHANGED vars => UNCHANGED current
    BY DEF Dispatch, Stop, vars, threadVars
  <2> QED
    BY <2>1, <2>2, <2>3, <2>4, Zenon DEF Loop
<1> QED
  BY <1>1, <1>2, <1>3, <1>4, Zenon DEF Next, Threads

(* Every step of the worker is a step of Service, or none.                 *)
LEMMA ServiceStep ==
  ASSUME IInv, OneThread, [Next]_vars
  PROVE  [Abstract!Next]_(Abstract!vars)
<1>1. AnyStep
  BY Steps DEF IInv
<1>2. ASSUME NEW tk \in Token, Dispatch(tk) PROVE Abstract!Next
  BY <1>2, DispatchStep DEF Abstract!Next
<1>3. ASSUME NEW tk \in Token, OnAnyResult(tk) PROVE [Abstract!Next]_(Abstract!vars)
  <2>1. ASSUME NEW act \in ActionKind, NEW keep_alive \in BOOLEAN, Returned(tk, act, keep_alive)
        PROVE  Abstract!Next
    BY <2>1, AnswerStep DEF Abstract!Next
  <2> QED
    BY <1>3, <2>1, ResultSteps, Zenon DEF OnAnyResult
<1>4. ASSUME NEW t \in Thread, OnAnyThread(t) PROVE [Abstract!Next]_(Abstract!vars)
  <2>1. ASSUME NEW tk \in Token, CodeStart(t, tk) PROVE Abstract!Next
    BY <2>1, ExecuteStep DEF Abstract!Next
  <2> QED
    BY <1>4, <2>1, ThreadSteps, Zenon DEF OnAnyThread
<1> QED
  BY <1>1, <1>2, <1>3, <1>4, LoopSteps, GatherStep, EventSteps, Zenon DEF AnyStep

(* Python code is started at most once for a request, and never for one    *)
(* that casket has refused or answered; a request is settled and answered  *)
(* once, although the thread that takes it, the timers and the response    *)
(* reach the loop by different ways (pythonexec/mod.rs:84-131,             *)
(* pythonthreads.rs:68-97, worker/mod.rs:175-191).                         *)
THEOREM WorkerServes == Spec => ServesEachOnce
<1>1. Init => OneThread /\ Abstract!Init
  <2>1. ASSUME Init PROVE OneThread
    BY <2>1, TokenAssumption DEF Init, OneThread
  <2>2. ASSUME Init PROVE StageOf = [tk \in Token |-> "unknown"]
    BY <2>2 DEF Init, StageOf, Stage
  <2>3. ASSUME Init PROVE InCode = {}
    BY <2>3, TokenAssumption DEF Init, InCode
  <2> QED
    BY <2>1, <2>2, <2>3 DEF Abstract!Init
<1>2. IInv /\ OneThread /\ [Next]_vars => OneThread'
  BY OneThreadStep
<1>3. IInv /\ OneThread /\ [Next]_vars => [Abstract!Next]_(Abstract!vars)
  BY ServiceStep
<1> QED
  BY Invariant, <1>1, <1>2, <1>3, PTL DEF Spec, ServesEachOnce, Abstract!Spec
=============================================================================
