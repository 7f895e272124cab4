---------------------------- MODULE WorkerSafety ----------------------------
(***************************************************************************)
(* The safety of the worker, for any set of tokens and threads, any limit  *)
(* on the requests and any set of faults: types first; then the invariant  *)
(* of WorkerInv is inductive, and implies the safety properties of Worker. *)
(***************************************************************************)
EXTENDS WorkerInv, FiniteSetTheorems, TLAPS

-----------------------------------------------------------------------------
(* Types.                                                                  *)

USE TokenAssumption, ConfigAssumption

(* An answer (the resp_* functions of WorkerMsgBuffer) takes a descriptor  *)
(* out of server_fds and adds a response to write_buffer: both keep their  *)
(* types.                                                                  *)
LEMMA AnswerType ==
  ASSUME TypeOK, NEW tk \in Token, NEW keep_alive \in BOOLEAN, Answer(tk, keep_alive)
  PROVE  server_fds' \subseteq Token /\ write_buffer' \subseteq Response
<1>1. [token |-> tk, keep_alive |-> keep_alive] \in Response
  BY DEF Response
<1> QED
  BY <1>1 DEF TypeOK, Answer

(* A registry call that succeeds changes what one stream is watched for;   *)
(* one that fails answers the request. Both keep the types.                *)
LEMMA RegistryType ==
  ASSUME TypeOK, NEW tk \in Token, NEW for \in {"none", "read", "write"},
         NEW ok \in BOOLEAN, Registry(tk, for, ok)
  PROVE  /\ interest' \in [Token -> {"none", "read", "write"}]
         /\ server_fds' \subseteq Token /\ write_buffer' \subseteq Response
<1>1. CASE ok
  BY <1>1 DEF TypeOK, Registry, Watch, NoAnswer
<1>2. CASE ~ok
  <2>1. Answer(tk, FALSE) /\ Watch(tk, "none")
    BY <1>2 DEF Registry
  <2> QED
    BY <2>1, AnswerType DEF TypeOK, Watch
<1> QED
  BY <1>1, <1>2

(* Adding an element on a condition keeps the set within its type.         *)
LEMMA AddIfType ==
  ASSUME NEW T, NEW S \in SUBSET T, NEW e \in T, NEW ok
  PROVE  AddIf(ok, S, e) \subseteq T
BY DEF AddIf

(* Every step keeps the types; the pending count stays an integer because  *)
(* the responses of one take_responses are finitely many.                  *)
LEMMA TypeStep == TypeOK /\ [Next]_vars => TypeOK'
<1> SUFFICES ASSUME TypeOK, [Next]_vars PROVE TypeOK'
  OBVIOUS
<1> USE DEF TypeOK, Stopped, Timer, StreamWrite, EventKind, ActionKind, AnyToken, Response,
            unixVars, streamVars, msgVars, pollVars, queueVars, threadVars, loopVars
<1>0. CASE UNCHANGED vars
  BY <1>0 DEF vars
<1>1. ASSUME NEW tk \in Token, Dispatch(tk) PROVE TypeOK'
  BY <1>1 DEF Dispatch
<1>2. CASE Exit
  BY <1>2 DEF Exit, Goto
<1>3. ASSUME NEW expired \in SUBSET timerq, NEW ready \in SUBSET Filed,
             NEW others \in SUBSET ({UNIX_STREAM_TOKEN} \X {"UnixStreamRead", "UnixStreamWrite", "CtrlC"}),
             Gather(expired, ready, others)
      PROVE  TypeOK'
  <2>1. Gathered \subseteq AnyToken \X EventKind
    BY DEF Gathered
  <2>2. \A tk \in ready : Fired(tk) \in AnyToken \X EventKind
    BY DEF Filed, Watched, Fired
  <2>3. expired \cup others \subseteq AnyToken \X EventKind
    OBVIOUS
  <2>4. events' \subseteq AnyToken \X EventKind
    BY <1>3, <2>1, <2>2, <2>3 DEF Gather
  <2> QED
    BY <1>3, <2>4 DEF Gather
<1>4. CASE Tick
  <2>1. UnixReady \subseteq {UNIX_STREAM_TOKEN} \X {"UnixStreamRead", "UnixStreamWrite", "CtrlC"}
    BY DEF UnixReady
  <2> QED
    BY <1>3, <1>4, <2>1 DEF Tick
<1>5. CASE Interrupt
  <2>1. PICK expired \in SUBSET timerq : Gather(expired, {}, {<<UNIX_STREAM_TOKEN, "CtrlC">>})
    BY <1>5 DEF Interrupt
  <2>2. {<<UNIX_STREAM_TOKEN, "CtrlC">>}
          \in SUBSET ({UNIX_STREAM_TOKEN} \X {"UnixStreamRead", "UnixStreamWrite", "CtrlC"})
    OBVIOUS
  <2>3. {} \in SUBSET Filed
    OBVIOUS
  <2> QED
    BY <1>3, <2>1, <2>2, <2>3, Zenon
<1>6. CASE PollFails
  BY <1>6 DEF PollFails, Goto
<1>7. CASE OnEvent
  <2> USE DEF Take, TakeStream, First, Outcome
  <2>1. CASE CtrlC
    BY <2>1 DEF CtrlC
  <2>2. CASE UnixStreamRead
    BY <2>2 DEF UnixStreamRead
  <2>3. CASE UnixStreamWrite
    BY <2>3 DEF UnixStreamWrite
  <2>4. CASE UnixStreamFails
    BY <2>4 DEF UnixStreamFails, Goto
  <2>5. CASE TakeCodeStarts
    BY <2>5 DEF TakeCodeStarts
  <2>6. CASE TakeHttpResponses
    <3>1. IsFiniteSet(resp)
      BY FS_Subset
    <3>2. Cardinality(resp) \in Nat
      BY <3>1, FS_CardinalityType
    <3> QED
      BY <2>6, <3>2 DEF TakeHttpResponses
  <2>7. CASE PythonThreadsDied
    BY <2>7 DEF PythonThreadsDied, Goto
  <2>8. ASSUME NEW tk \in Token, NEW t \in Thread, SendQueuedRequest(tk, t) PROVE TypeOK'
    BY <2>8 DEF SendQueuedRequest
  <2>9. ASSUME NEW tk \in Token, NewStreamFd(tk) PROVE TypeOK'
    BY <2>9 DEF NewStreamFd
  <2>10. ASSUME NEW tk \in Token, ServerStreamRead(tk) PROVE TypeOK'
    BY <2>10 DEF ServerStreamRead
  <2>11. ASSUME NEW tk \in Token, ServerStreamWrite(tk) PROVE TypeOK'
    BY <2>11 DEF ServerStreamWrite
  <2>12. ASSUME NEW tk \in Token, CasketResponseWrite(tk) PROVE TypeOK'
    BY <2>12 DEF CasketResponseWrite
  <2>13. ASSUME NEW tk \in Token, NEW timer \in Timer, TimerEvent(tk, timer) PROVE TypeOK'
    BY <2>13 DEF TimerEvent
  <2> QED
    BY <1>7, <2>1, <2>2, <2>3, <2>4, <2>5, <2>6, <2>7, <2>8, <2>9, <2>10, <2>11, <2>12, <2>13
    DEF OnEvent
<1>8. CASE OnResult
  <2> USE DEF TakeResult
  <2>1. ASSUME NEW tk \in Token, NEW act, NEW ka \in BOOLEAN, HandBack(tk, act, ka) PROVE TypeOK'
    <3>1. server_fds' \subseteq Token /\ write_buffer' \subseteq Response
      BY <2>1, AnswerType DEF HandBack
    <3> QED
      BY <2>1, <3>1 DEF HandBack, Watch
  <2>2. ASSUME NEW tk \in Token, NewServerRequest(tk) PROVE TypeOK'
    <3>1. PICK ok \in BOOLEAN : /\ RegisterRead(tk, ok)
                            /\ timerq' = AddIf(ok, timerq, <<tk, "RequestReadTimeout">>)
                            /\ reading' = AddIf(ok, reading, tk)
      BY <2>2 DEF NewServerRequest
    <3>2. /\ interest' \in [Token -> {"none", "read", "write"}]
          /\ server_fds' \subseteq Token /\ write_buffer' \subseteq Response
      BY <3>1, RegistryType DEF RegisterRead
    <3>3. timerq' \subseteq Token \X Timer
      BY <3>1 DEF AddIf
    <3>4. reading' \subseteq Token
      BY <3>1, AddIfType
    <3> QED
      BY <2>2, <3>1, <3>2, <3>3, <3>4 DEF NewServerRequest, RegisterRead
  <2>3. ASSUME NEW tk \in Token, ServerContinueRead(tk) PROVE TypeOK'
    <3>1. PICK ok \in BOOLEAN : RegisterRead(tk, ok) /\ reading' = AddIf(ok, reading, tk)
      BY <2>3 DEF ServerContinueRead
    <3>2. /\ interest' \in [Token -> {"none", "read", "write"}]
          /\ server_fds' \subseteq Token /\ write_buffer' \subseteq Response
      BY <3>1, RegistryType DEF RegisterRead
    <3>3. reading' \subseteq Token
      BY <3>1, AddIfType
    <3> QED
      BY <2>3, <3>1, <3>2, <3>3 DEF ServerContinueRead, RegisterRead
  <2>4. ASSUME NEW tk \in Token, ServerReadDone(tk) PROVE TypeOK'
    <3>1. PICK ok \in BOOLEAN : /\ Registry(tk, "none", ok)
                            /\ queued_reqs' = AddIf(ok, queued_reqs, tk)
                            /\ pending' = AddIf(ok, pending, tk)
      BY <2>4 DEF ServerReadDone
    <3>2. /\ interest' \in [Token -> {"none", "read", "write"}]
          /\ server_fds' \subseteq Token /\ write_buffer' \subseteq Response
      BY <3>1, RegistryType DEF ServerReadDone
    <3>3. queued_reqs' \subseteq Token
      BY <3>1, AddIfType
    <3>4. pending' \subseteq Token
      BY <3>1, AddIfType
    <3> QED
      BY <2>4, <3>1, <3>2, <3>3, <3>4 DEF ServerReadDone
  <2>5. ASSUME NEW tk \in Token, ServerNewResponse(tk) PROVE TypeOK'
    <3>1. PICK ok \in BOOLEAN : RegisterWrite(tk, "ServerStreamWrite", ok) /\ writing' = AddIf(ok, writing, tk)
      BY <2>5 DEF ServerNewResponse
    <3>2. /\ interest' \in [Token -> {"none", "read", "write"}]
          /\ server_fds' \subseteq Token /\ write_buffer' \subseteq Response
      BY <3>1, RegistryType DEF RegisterWrite
    <3>3. writing' \subseteq Token
      BY <3>1, AddIfType
    <3> QED
      BY <2>5, <3>1, <3>2, <3>3 DEF ServerNewResponse, RegisterWrite
  <2>6. ASSUME NEW tk \in Token, ServerContinueWrite(tk) PROVE TypeOK'
    <3>1. PICK ok \in BOOLEAN : RegisterWrite(tk, "ServerStreamWrite", ok) /\ writing' = AddIf(ok, writing, tk)
      BY <2>6 DEF ServerContinueWrite
    <3>2. /\ interest' \in [Token -> {"none", "read", "write"}]
          /\ server_fds' \subseteq Token /\ write_buffer' \subseteq Response
      BY <3>1, RegistryType DEF RegisterWrite
    <3>3. writing' \subseteq Token
      BY <3>1, AddIfType
    <3> QED
      BY <2>6, <3>1, <3>2, <3>3 DEF ServerContinueWrite, RegisterWrite
  <2>7. ASSUME NEW tk \in Token, NEW act, CasketResponse(tk, act) PROVE TypeOK'
    <3>1. PICK ok \in BOOLEAN : /\ RegisterWrite(tk, "CasketResponseWrite", ok)
                               /\ casket' = AddIf(ok, casket, tk)
      BY <2>7 DEF CasketResponse
    <3>2. /\ interest' \in [Token -> {"none", "read", "write"}]
          /\ server_fds' \subseteq Token /\ write_buffer' \subseteq Response
      BY <3>1, RegistryType DEF RegisterWrite
    <3>3. casket' \subseteq Token
      BY <3>1, AddIfType
    <3> QED
      BY <2>7, <3>1, <3>2, <3>3 DEF CasketResponse, RegisterWrite
  <2>8. ASSUME NEW tk \in Token, ServerPythonCodeTimeoutNew(tk) PROVE TypeOK'
    BY <2>8 DEF ServerPythonCodeTimeoutNew
  <2>9. ASSUME NEW tk \in Token,
               \/ ServerStreamEOF(tk) \/ ServerDoneWrite(tk)
               \/ ServerCasketResponseDone(tk) \/ HandleError(tk)
        PROVE  TypeOK'
    <3>1. PICK act \in ActionKind, ka \in BOOLEAN : HandBack(tk, act, ka)
      BY <2>9 DEF ServerStreamEOF, ServerDoneWrite, ServerCasketResponseDone, HandleError
    <3> QED
      BY <3>1, <2>1
  <2>10. ASSUME NEW tk \in Token,
                ServerCasketResponseNew(tk) \/ ServerCasketResponseContinue(tk)
         PROVE  TypeOK'
    BY <2>7, <2>10, Zenon DEF ServerCasketResponseNew, ServerCasketResponseContinue
  <2> QED
    BY <1>8, <2>2, <2>3, <2>4, <2>5, <2>6, <2>8, <2>9, <2>10, Zenon DEF OnResult
<1>9. CASE OnTimeout
  <2> USE DEF TakeTimeout, Watch
  <2>1. ASSUME NEW tk \in Token, RequestReadTimeout(tk) PROVE TypeOK'
    BY <2>1 DEF RequestReadTimeout
  <2>2. ASSUME NEW tk \in Token, PythonCodeTimeout(tk) PROVE TypeOK'
    BY <2>2 DEF PythonCodeTimeout
  <2>3. ASSUME NEW tk \in Token, NEW timer \in Timer, TimeoutIgnored(tk, timer) PROVE TypeOK'
    BY <2>3 DEF TimeoutIgnored
  <2> QED
    BY <1>9, <2>1, <2>2, <2>3 DEF OnTimeout
<1>10. CASE NextPhase
  BY <1>10 DEF NextPhase, Goto
<1>11. CASE EndRound
  BY <1>11 DEF EndRound
<1>12. CASE RegistryFails
  BY <1>12 DEF RegistryFails, Goto
<1>13. ASSUME NEW t \in Thread, Threads PROVE TypeOK'
  <2> USE DEF ThreadStep
  <2>1. ASSUME NEW u \in Thread, NEW tk \in Token, CodeStart(u, tk) PROVE TypeOK'
    BY <2>1 DEF CodeStart
  <2>2. ASSUME NEW u \in Thread, SendResponse(u) PROVE TypeOK'
    BY <2>2 DEF SendResponse
  <2>3. ASSUME NEW u \in Thread, BodyDone(u) PROVE TypeOK'
    BY <2>3 DEF BodyDone
  <2>4. ASSUME NEW u \in Thread, ThreadDies(u) PROVE TypeOK'
    BY <2>4 DEF ThreadDies
  <2> QED
    BY <1>13, <2>1, <2>2, <2>3, <2>4 DEF Threads
<1> QED
  BY <1>0, <1>1, <1>2, <1>4, <1>5, <1>6, <1>7, <1>8, <1>9, <1>10, <1>11, <1>12, <1>13
  DEF Next, Loop, Poll, Stop, Threads

(* The initial state has the types.                                        *)
LEMMA InitType == Init => TypeOK
<1> SUFFICES ASSUME Init PROVE TypeOK
  OBVIOUS
<1> USE DEF Init
<1>1. /\ loc \in {"top", "events", "results", "timeouts", "timeoutResults"} \cup Stopped
      /\ num_pending_reqs \in Int
  BY DEF Stopped
<1>2. /\ interest \in [Token -> {"none", "read", "write"}]
      /\ reg_write \in [Token -> {"none"} \cup StreamWrite]
      /\ req_recv \in [Thread -> SUBSET Token]
      /\ thread \in [Thread -> {"recv", "execute", "stream", "dead"}]
      /\ current \in [Thread -> Token \cup {NO_TOKEN}]
  OBVIOUS
<1>3. \A t \in Thread : thread[t] \in {"execute", "stream"} <=> current[t] # NO_TOKEN
  OBVIOUS
<1>4. closing \in BOOLEAN /\ unix_writable \in BOOLEAN
  BY Zenon
<1> QED
  BY <1>1, <1>2, <1>3, <1>4 DEF TypeOK

(* Type correctness: whatever the clients, the threads and the signals do, *)
(* no map of run_worker, of the poller or of the msg buffer holds anything *)
(* but tokens the server sent, and a thread works on a request exactly     *)
(* while it executes or streams one (pythonexec/mod.rs:76-135).            *)
THEOREM TypeCorrect == Spec => []TypeOK
BY InitType, TypeStep, PTL DEF Spec

-----------------------------------------------------------------------------
(* The steps, by what they do.  A call of the registry that succeeds and   *)
(* one that fails are two steps here, and a failed one does the same as    *)
(* handing the stream back.                                                *)

(* Nothing changes, or the loop goes to another place.                     *)
Still ==
  /\ loc' \in Stopped \cup {loc} \/ NextPhase
  /\ UNCHANGED <<unixVars, closing, events, timeouts, results, streamVars, msgVars,
                 pollVars, queueVars, threadVars>>

Returned(tk, act, keep_alive) ==
  /\ TakeResult(tk, act)
  /\ act # "ServerPythonCodeTimeoutNew"
  /\ Answer(tk, keep_alive)
  /\ Watch(tk, "none")
  /\ reg_read \subseteq reg_read'
  /\ \A u \in Token \ {tk} : reg_write'[u] = reg_write[u]
  /\ act = "ServerNewResponse" => tk \in pending /\ pending' = pending \ {tk}
  /\ act # "ServerNewResponse" => pending' = pending
  /\ UNCHANGED <<timerq, reading, writing, casket, queued_reqs>>

ReadOn(tk, act) ==
  /\ TakeResult(tk, act)
  /\ reg_read' = reg_read \cup {tk}
  /\ Watch(tk, "read")
  /\ reading' = reading \cup {tk}
  /\ timerq' \in {timerq, timerq \cup {<<tk, "RequestReadTimeout">>}}
  /\ UNCHANGED <<server_fds, write_buffer, reg_write, pending, writing, casket, queued_reqs>>

ReadDone(tk) ==
  /\ TakeResult(tk, "ServerReadDone")
  /\ Watch(tk, "none")
  /\ queued_reqs' = queued_reqs \cup {tk}
  /\ pending' = pending \cup {tk}
  /\ UNCHANGED <<server_fds, write_buffer, reg_read, reg_write, timerq, reading, writing, casket>>

WriteOn(tk, act) ==
  /\ TakeResult(tk, act)
  /\ act = "ServerNewResponse" => tk \in pending /\ pending' = pending \ {tk}
  /\ act # "ServerNewResponse" => pending' = pending
  /\ reg_write' = [reg_write EXCEPT ![tk] = "ServerStreamWrite"]
  /\ Watch(tk, "write")
  /\ writing' = writing \cup {tk}
  /\ UNCHANGED <<server_fds, write_buffer, reg_read, timerq, reading, casket, queued_reqs>>

CasketOn(tk, act) ==
  /\ TakeResult(tk, act)
  /\ reg_write' = [reg_write EXCEPT ![tk] = "CasketResponseWrite"]
  /\ Watch(tk, "write")
  /\ casket' = casket \cup {tk}
  /\ UNCHANGED <<server_fds, write_buffer, reg_read, timerq, reading, pending, writing, queued_reqs>>

OnAnyEvent(tk) ==
  \/ NewStreamFd(tk) \/ ServerStreamRead(tk) \/ ServerStreamWrite(tk) \/ CasketResponseWrite(tk)
  \/ \E timer \in Timer : TimerEvent(tk, timer)
  \/ \E t \in Thread : SendQueuedRequest(tk, t)

OnAnyResult(tk) ==
  \/ \E act \in ActionKind, keep_alive \in BOOLEAN : Returned(tk, act, keep_alive)
  \/ \E act \in {"NewServerRequest", "ServerContinueRead"} : ReadOn(tk, act)
  \/ ReadDone(tk)
  \/ \E act \in {"ServerNewResponse", "ServerContinueWrite"} : WriteOn(tk, act)
  \/ \E act \in {"ServerCasketResponseNew", "ServerCasketResponseContinue"} : CasketOn(tk, act)
  \/ ServerPythonCodeTimeoutNew(tk)

OnAnyTimeout(tk) ==
  \/ RequestReadTimeout(tk) \/ PythonCodeTimeout(tk)
  \/ \E timer \in Timer : TimeoutIgnored(tk, timer)

OnAnyThread(t) ==
  \/ SendResponse(t) \/ BodyDone(t) \/ ThreadDies(t)
  \/ \E tk \in Token : CodeStart(t, tk)

AnyGather ==
  \E expired \in SUBSET timerq, ready \in SUBSET Filed,
     others \in SUBSET ({UNIX_STREAM_TOKEN} \X {"UnixStreamRead", "UnixStreamWrite", "CtrlC"}) :
    Gather(expired, ready, others)

AnyStep ==
  \/ Still \/ AnyGather \/ EndRound
  \/ CtrlC \/ UnixStreamRead \/ UnixStreamWrite \/ TakeCodeStarts \/ TakeHttpResponses
  \/ \E tk \in Token : Dispatch(tk) \/ OnAnyEvent(tk) \/ OnAnyResult(tk) \/ OnAnyTimeout(tk)
  \/ \E t \in Thread : OnAnyThread(t)

-----------------------------------------------------------------------------
(* A result is acted on in one of these ways.                              *)
LEMMA ReturnedSteps ==
  ASSUME TypeOK, NEW tk \in Token,
         \/ ServerStreamEOF(tk) \/ ServerDoneWrite(tk)
         \/ ServerCasketResponseDone(tk) \/ HandleError(tk)
  PROVE  OnAnyResult(tk)
<1>1. PICK act \in {"ServerStreamEOF", "ServerDoneWrite", "ServerCasketResponseDone", "Error"},
           keep_alive \in BOOLEAN : HandBack(tk, act, keep_alive)
  BY DEF ServerStreamEOF, ServerDoneWrite, ServerCasketResponseDone, HandleError
<1>2. Returned(tk, act, keep_alive)
  BY <1>1 DEF HandBack, Returned, streamVars
<1>3. act \in ActionKind
  BY DEF ActionKind
<1> QED
  BY <1>2, <1>3 DEF OnAnyResult

(* A stream that is to be read (on) is registered and put in the reading   *)
(* map, or, if the registration fails, handed back                         *)
(* (worker/mod.rs:224-256).                                                *)
LEMMA ReadSteps ==
  ASSUME TypeOK, NEW tk \in Token, NewServerRequest(tk) \/ ServerContinueRead(tk)
  PROVE  OnAnyResult(tk)
<1>1. PICK act \in {"NewServerRequest", "ServerContinueRead"}, ok \in BOOLEAN :
        /\ TakeResult(tk, act)
        /\ RegisterRead(tk, ok)
        /\ reading' = AddIf(ok, reading, tk)
        /\ timerq' \in {timerq, AddIf(ok, timerq, <<tk, "RequestReadTimeout">>)}
  BY DEF NewServerRequest, ServerContinueRead
<1>2. CASE ok
  <2>1. ReadOn(tk, act)
    BY <1>1, <1>2 DEF ReadOn, RegisterRead, Registry, AddIf, NoAnswer
  <2> QED
    BY <2>1 DEF OnAnyResult
<1>3. CASE ~ok
  <2>1. Returned(tk, act, FALSE)
    BY <1>1, <1>3 DEF Returned, RegisterRead, Registry, AddIf
  <2> QED
    BY <2>1 DEF OnAnyResult, ActionKind
<1> QED
  BY <1>2, <1>3

(* A request read to its end is queued for the threads with its stream     *)
(* pending, or handed back (worker/mod.rs:257-265).                        *)
LEMMA ReadDoneSteps ==
  ASSUME TypeOK, NEW tk \in Token, ServerReadDone(tk)
  PROVE  OnAnyResult(tk)
<1>1. PICK ok \in BOOLEAN :
        /\ Registry(tk, "none", ok)
        /\ queued_reqs' = AddIf(ok, queued_reqs, tk)
        /\ pending' = AddIf(ok, pending, tk)
  BY DEF ServerReadDone
<1>2. CASE ok
  BY <1>1, <1>2 DEF ServerReadDone, ReadDone, Registry, AddIf, NoAnswer, OnAnyResult
<1>3. CASE ~ok
  <2>1. Returned(tk, "ServerReadDone", FALSE)
    BY <1>1, <1>3 DEF ServerReadDone, Returned, Registry, AddIf
  <2> QED
    BY <2>1 DEF OnAnyResult, ActionKind
<1> QED
  BY <1>2, <1>3

(* A response of a thread is taken on, or written on, or its stream is     *)
(* handed back (worker/mod.rs:276-312).                                    *)
LEMMA WriteSteps ==
  ASSUME TypeOK, NEW tk \in Token, ServerNewResponse(tk) \/ ServerContinueWrite(tk)
  PROVE  OnAnyResult(tk)
<1>1. PICK act \in {"ServerNewResponse", "ServerContinueWrite"}, ok \in BOOLEAN :
        /\ TakeResult(tk, act)
        /\ act = "ServerNewResponse" => tk \in pending /\ pending' = pending \ {tk}
        /\ act # "ServerNewResponse" => pending' = pending
        /\ RegisterWrite(tk, "ServerStreamWrite", ok)
        /\ writing' = AddIf(ok, writing, tk)
        /\ UNCHANGED casket
  BY DEF ServerNewResponse, ServerContinueWrite
<1>2. CASE ok
  <2>1. WriteOn(tk, act)
    BY <1>1, <1>2 DEF WriteOn, RegisterWrite, Registry, AddIf, NoAnswer
  <2> QED
    BY <2>1 DEF OnAnyResult
<1>3. CASE ~ok
  <2>1. Returned(tk, act, FALSE)
    BY <1>1, <1>3 DEF Returned, RegisterWrite, Registry, AddIf, TypeOK
  <2> QED
    BY <2>1 DEF OnAnyResult, ActionKind
<1> QED
  BY <1>2, <1>3

(* The same of a response the worker makes itself (worker/mod.rs:335-363). *)
LEMMA CasketSteps ==
  ASSUME TypeOK, NEW tk \in Token,
         ServerCasketResponseNew(tk) \/ ServerCasketResponseContinue(tk)
  PROVE  OnAnyResult(tk)
<1>1. PICK act \in {"ServerCasketResponseNew", "ServerCasketResponseContinue"} :
        CasketResponse(tk, act)
  BY DEF ServerCasketResponseNew, ServerCasketResponseContinue
<1>2. PICK ok \in BOOLEAN :
        RegisterWrite(tk, "CasketResponseWrite", ok) /\ casket' = AddIf(ok, casket, tk)
  BY <1>1 DEF CasketResponse
<1>3. CASE ok
  <2>1. CasketOn(tk, act)
    BY <1>1, <1>2, <1>3 DEF CasketResponse, CasketOn, RegisterWrite, Registry, AddIf, NoAnswer
  <2> QED
    BY <2>1 DEF OnAnyResult
<1>4. CASE ~ok
  <2>1. Returned(tk, act, FALSE)
    BY <1>1, <1>2, <1>4 DEF CasketResponse, Returned, RegisterWrite, Registry, AddIf, TypeOK
  <2> QED
    BY <2>1 DEF OnAnyResult, ActionKind
<1> QED
  BY <1>3, <1>4

(* Every step of the worker is one of these.                               *)
LEMMA Steps == TypeOK /\ [Next]_vars => AnyStep
<1> SUFFICES ASSUME TypeOK, [Next]_vars PROVE AnyStep
  OBVIOUS
<1>1. CASE UNCHANGED vars \/ Exit \/ PollFails \/ NextPhase \/ RegistryFails \/ Stop
  <2>1. Still
    BY <1>1 DEF Still, Exit, PollFails, NextPhase, RegistryFails, Stop, Goto, Stopped, vars, loopVars
  <2> QED
    BY <2>1 DEF AnyStep
<1>2. CASE Tick
  <2>1. UnixReady \subseteq {UNIX_STREAM_TOKEN} \X {"UnixStreamRead", "UnixStreamWrite", "CtrlC"}
    BY DEF UnixReady
  <2>2. AnyGather
    BY <1>2, <2>1 DEF Tick, AnyGather
  <2> QED
    BY <2>2 DEF AnyStep
<1>3. CASE Interrupt
  <2>1. PICK expired \in SUBSET timerq : Gather(expired, {}, {<<UNIX_STREAM_TOKEN, "CtrlC">>})
    BY <1>3 DEF Interrupt
  <2>2. {<<UNIX_STREAM_TOKEN, "CtrlC">>}
          \in SUBSET ({UNIX_STREAM_TOKEN} \X {"UnixStreamRead", "UnixStreamWrite", "CtrlC"})
    OBVIOUS
  <2>3. {} \in SUBSET Filed
    OBVIOUS
  <2>4. AnyGather
    BY <2>1, <2>2, <2>3, Zenon DEF AnyGather
  <2> QED
    BY <2>4 DEF AnyStep
<1>4. CASE OnEvent
  <2>1. CASE UnixStreamFails \/ PythonThreadsDied
    <3>1. Still
      BY <2>1 DEF UnixStreamFails, PythonThreadsDied, Still, Goto, Stopped
    <3> QED
      BY <3>1 DEF AnyStep
  <2>2. CASE \E tk \in Token : OnAnyEvent(tk)
    BY <2>2 DEF AnyStep
  <2>3. CASE CtrlC \/ UnixStreamRead \/ UnixStreamWrite \/ TakeCodeStarts \/ TakeHttpResponses
    BY <2>3 DEF AnyStep
  <2> QED
    BY <1>4, <2>1, <2>2, <2>3, Zenon DEF OnEvent, OnAnyEvent
<1>5. CASE OnResult
  <2>1. PICK tk \in Token :
          \/ NewServerRequest(tk) \/ ServerContinueRead(tk) \/ ServerReadDone(tk)
          \/ ServerStreamEOF(tk) \/ ServerNewResponse(tk) \/ ServerContinueWrite(tk)
          \/ ServerDoneWrite(tk) \/ ServerCasketResponseNew(tk)
          \/ ServerCasketResponseContinue(tk) \/ ServerCasketResponseDone(tk)
          \/ ServerPythonCodeTimeoutNew(tk) \/ HandleError(tk)
    BY <1>5, Zenon DEF OnResult
  <2>2. ServerPythonCodeTimeoutNew(tk) => OnAnyResult(tk)
    BY Zenon DEF OnAnyResult
  <2>3. OnAnyResult(tk)
    BY <2>1, <2>2, ReturnedSteps, ReadSteps, ReadDoneSteps, WriteSteps, CasketSteps
  <2> QED
    BY <2>3 DEF AnyStep
<1>6. CASE OnTimeout
  BY <1>6, Zenon DEF OnTimeout, OnAnyTimeout, AnyStep
<1>7. CASE Threads
  BY <1>7, Zenon DEF Threads, OnAnyThread, AnyStep
<1>8. CASE EndRound \/ \E tk \in Token : Dispatch(tk)
  BY <1>8, Zenon DEF AnyStep
<1> QED
  BY <1>1, <1>2, <1>3, <1>4, <1>5, <1>6, <1>7, <1>8, Zenon DEF Next, Loop, Poll

-----------------------------------------------------------------------------
(* The buffers of the loop are empty where PhaseInv says so.               *)
LEMMA PhaseStep == TypeOK /\ PhaseInv /\ [Next]_vars => PhaseInv'
<1> SUFFICES ASSUME TypeOK, PhaseInv, [Next]_vars PROVE PhaseInv'
  OBVIOUS
<1> USE DEF PhaseInv
<1>1. CASE Still
  BY <1>1 DEF Still, NextPhase, Goto, Stopped
<1>2. CASE AnyGather \/ EndRound
  BY <1>2 DEF AnyGather, Gather, EndRound
<1>3. CASE CtrlC \/ UnixStreamRead \/ UnixStreamWrite \/ TakeCodeStarts \/ TakeHttpResponses
  BY <1>3 DEF CtrlC, UnixStreamRead, UnixStreamWrite, TakeCodeStarts, TakeHttpResponses, Take, First
<1>4. ASSUME NEW tk \in Token, Dispatch(tk) \/ OnAnyEvent(tk) PROVE PhaseInv'
  BY <1>4 DEF Dispatch, OnAnyEvent, NewStreamFd, ServerStreamRead, ServerStreamWrite,
              CasketResponseWrite, TimerEvent, SendQueuedRequest, TakeStream, Take, First, loopVars
<1>5. ASSUME NEW tk \in Token, OnAnyResult(tk) PROVE PhaseInv'
  <2>1. PICK act : TakeResult(tk, act)
    BY <1>5 DEF OnAnyResult, Returned, ReadOn, ReadDone, WriteOn, CasketOn, ServerPythonCodeTimeoutNew
  <2> QED
    BY <2>1 DEF TakeResult
<1>6. ASSUME NEW tk \in Token, OnAnyTimeout(tk) PROVE PhaseInv'
  <2>1. /\ loc = "timeouts" /\ loc' = "timeouts"
        /\ UNCHANGED events /\ timeouts' \subseteq timeouts
        /\ results' \in {results, results \cup {<<tk, "ServerCasketResponseNew">>}}
    BY <1>6 DEF OnAnyTimeout, RequestReadTimeout, PythonCodeTimeout, TimeoutIgnored, TakeTimeout
  <2> QED
    BY <2>1
<1>7. ASSUME NEW t \in Thread, OnAnyThread(t) PROVE PhaseInv'
  BY <1>7 DEF OnAnyThread, SendResponse, BodyDone, ThreadDies, CodeStart, ThreadStep, loopVars
<1> QED
  BY Steps, <1>1, <1>2, <1>3, <1>4, <1>5, <1>6, <1>7, Zenon DEF AnyStep

-----------------------------------------------------------------------------
(* Answering a request moves it from server_fds to the buffer of answers   *)
(* (msgs/mod.rs:211-273).                                                  *)
LEMMA AnswerAccounted ==
  ASSUME TypeOK, RequestsAccounted, NEW tk \in Token, NEW keep_alive \in BOOLEAN,
         Answer(tk, keep_alive), UNCHANGED <<unixVars, stream_fds>>
  PROVE  RequestsAccounted'
<1>1. Buffered' = Buffered \cup {tk}
  <2> DEFINE answer == [token |-> tk, keep_alive |-> keep_alive]
  <2>1. answer.token = tk
    OBVIOUS
  <2>2. write_buffer' = write_buffer \cup {answer}
    BY DEF Answer
  <2> HIDE DEF answer
  <2> QED
    BY <2>1, <2>2 DEF Buffered
<1>2. tk \in server_fds /\ tk \notin Buffered /\ server_fds' = server_fds \ {tk}
  BY DEF Answer, RequestsAccounted
<1>3. ASSUME NEW r \in write_buffer', NEW s \in write_buffer', r.token = s.token PROVE r = s
  <2>1. \A q \in write_buffer : q.token # tk
    BY <1>2 DEF Buffered
  <2> QED
    BY <1>3, <2>1 DEF Answer, RequestsAccounted
<1>4. UNCHANGED <<requested, unix_in, answered, stream_fds>>
  BY DEF unixVars
<1>5. server_fds' \cup Buffered' = server_fds \cup Buffered
  BY <1>1, <1>2
<1>6. server_fds' \cap Buffered' = {}
  BY <1>1, <1>2 DEF RequestsAccounted
<1> QED
  BY <1>1, <1>2, <1>3, <1>4, <1>5, <1>6 DEF RequestsAccounted

(* A step that leaves the unix stream and the msg buffer alone keeps the   *)
(* account.                                                                *)
LEMMA AccountedKept ==
  ASSUME RequestsAccounted, UNCHANGED <<unixVars, msgVars>>
  PROVE  RequestsAccounted'
BY DEF RequestsAccounted, Buffered, unixVars, msgVars

(* Every request is accounted for: only sending one, receiving some,       *)
(* taking them on, answering one and flushing the answers change where it  *)
(* is.                                                                     *)
LEMMA AccountedStep == TypeOK /\ RequestsAccounted /\ [Next]_vars => RequestsAccounted'
<1> SUFFICES ASSUME TypeOK, RequestsAccounted, [Next]_vars PROVE RequestsAccounted'
  OBVIOUS
<1>1. CASE AnyGather
  BY <1>1 DEF AnyGather, Gather, RequestsAccounted, Buffered, unixVars
<1>2. CASE Still \/ EndRound \/ CtrlC \/ TakeCodeStarts \/ TakeHttpResponses
  BY <1>2, AccountedKept
  DEF Still, EndRound, CtrlC, TakeCodeStarts, TakeHttpResponses, Take, unixVars, msgVars
<1>3. CASE UnixStreamRead
  BY <1>3 DEF UnixStreamRead, Take, RequestsAccounted, Buffered, TypeOK
<1>4. CASE UnixStreamWrite
  <2>1. PICK sent \in SUBSET write_buffer :
          /\ write_buffer' = write_buffer \ sent
          /\ answered' = answered \cup {r.token : r \in sent}
    BY <1>4 DEF UnixStreamWrite
  <2>2. Buffered' = Buffered \ {r.token : r \in sent}
    BY <2>1 DEF Buffered, RequestsAccounted
  <2> QED
    BY <1>4, <2>1, <2>2 DEF UnixStreamWrite, Take, RequestsAccounted, Buffered
<1>5. ASSUME NEW tk \in Token, Dispatch(tk) PROVE RequestsAccounted'
  BY <1>5 DEF Dispatch, RequestsAccounted, Buffered, msgVars
<1>6. ASSUME NEW tk \in Token, OnAnyEvent(tk) \/ OnAnyTimeout(tk) PROVE RequestsAccounted'
  BY <1>6, AccountedKept
  DEF OnAnyEvent, NewStreamFd, ServerStreamRead, ServerStreamWrite, CasketResponseWrite,
      TimerEvent, SendQueuedRequest, TakeStream, Take, OnAnyTimeout, RequestReadTimeout,
      PythonCodeTimeout, TimeoutIgnored, TakeTimeout, unixVars, msgVars
<1>7. ASSUME NEW tk \in Token, OnAnyResult(tk) PROVE RequestsAccounted'
  <2>1. CASE \E act \in ActionKind, keep_alive \in BOOLEAN : Returned(tk, act, keep_alive)
    BY <2>1, AnswerAccounted DEF Returned, TakeResult
  <2>2. CASE UNCHANGED <<unixVars, msgVars>>
    BY <2>2, AccountedKept
  <2> QED
    BY <1>7, <2>1, <2>2 DEF OnAnyResult, ReadOn, ReadDone, WriteOn, CasketOn,
                            ServerPythonCodeTimeoutNew, TakeResult, unixVars, msgVars
<1>8. ASSUME NEW t \in Thread, OnAnyThread(t) PROVE RequestsAccounted'
  BY <1>8, AccountedKept DEF OnAnyThread, SendResponse, BodyDone, ThreadDies, CodeStart, ThreadStep
<1> QED
  BY Steps, <1>1, <1>2, <1>3, <1>4, <1>5, <1>6, <1>7, <1>8, Zenon DEF AnyStep

-----------------------------------------------------------------------------
(* What a tick puts in the buffer, for one token.                          *)
LEMMA GatherEvents ==
  ASSUME TypeOK, PhaseInv, NEW expired \in SUBSET timerq, NEW ready \in SUBSET Filed,
         NEW others \in SUBSET ({UNIX_STREAM_TOKEN} \X {"UnixStreamRead", "UnixStreamWrite", "CtrlC"}),
         Gather(expired, ready, others), NEW tk \in Token
  PROVE  /\ Arrived(tk)' <=> tk \in stream_fds
         /\ <<tk, "PythonCodeTimeout">> \in events' <=> <<tk, "PythonCodeTimeout">> \in expired
         /\ <<tk, "ServerStreamRead">> \in events' <=> tk \in ready /\ interest[tk] = "read"
         /\ \A event \in StreamWrite : <<tk, event>> \in events' <=>
              tk \in ready /\ interest[tk] = "write" /\ reg_write[tk] = event
<1>1. events' = Gathered \cup expired \cup {Fired(u) : u \in ready} \cup others
  BY DEF Gather
<1>2. ASSUME NEW kind \in {"NewStreamFd", "PythonCodeTimeout", "ServerStreamRead",
                           "ServerStreamWrite", "CasketResponseWrite"}
      PROVE  /\ <<tk, kind>> \in Gathered <=> kind = "NewStreamFd" /\ tk \in stream_fds
             /\ <<tk, kind>> \notin others
             /\ <<tk, kind>> \in expired => kind = "PythonCodeTimeout"
             /\ <<tk, kind>> \in {Fired(u) : u \in ready} <=> tk \in ready /\ Fired(tk)[2] = kind
  <2>1. <<tk, kind>> \in Gathered <=> kind = "NewStreamFd" /\ tk \in stream_fds
    BY TokenAssumption DEF Gathered
  <2>2. <<tk, kind>> \notin others
    BY TokenAssumption
  <2>3. <<tk, kind>> \in expired => kind = "PythonCodeTimeout"
    BY DEF TypeOK, Timer
  <2>4. <<tk, kind>> \in {Fired(u) : u \in ready} <=> tk \in ready /\ Fired(tk)[2] = kind
    BY DEF Fired
  <2> QED
    BY <2>1, <2>2, <2>3, <2>4
<1>3. tk \in ready => /\ interest[tk] \in {"read", "write"}
                      /\ reg_write[tk] \in {"none"} \cup StreamWrite
                      /\ interest[tk] = "write" => reg_write[tk] # "none"
  BY DEF Filed, Watched, TypeOK
<1>4. \A kind : Fired(tk)[2] = kind <=>
        kind = IF interest[tk] = "read" THEN "ServerStreamRead" ELSE reg_write[tk]
  BY DEF Fired
<1> QED
  BY <1>1, <1>2, <1>3, <1>4 DEF Arrived, StreamWrite

(* A step that moves no stream leaves each in the place it has.            *)
LEMMA OwnKept ==
  ASSUME OwnInv, UNCHANGED <<server_fds, events, results, streamVars>>
  PROVE  OwnInv'
BY DEF OwnInv, Owned, Arrived, Acted, Has, streamVars

(* Each step keeps every stream the worker owes an answer for in one       *)
(* place.                                                                  *)
LEMMA OwnStep == TypeOK /\ PhaseInv /\ RequestsAccounted /\ OwnInv /\ [Next]_vars => OwnInv'
<1> SUFFICES ASSUME TypeOK, PhaseInv, RequestsAccounted, OwnInv, [Next]_vars PROVE OwnInv'
  OBVIOUS
<1> USE DEF StreamAction, ActionKind
<1>1. CASE AnyGather
  <2>1. PICK expired \in SUBSET timerq, ready \in SUBSET Filed,
             others \in SUBSET ({UNIX_STREAM_TOKEN} \X {"UnixStreamRead", "UnixStreamWrite", "CtrlC"}) :
               Gather(expired, ready, others)
    BY <1>1 DEF AnyGather
  <2>2. ASSUME NEW u \in Token PROVE Owned(u)'
    <3>1. Arrived(u)' <=> u \in stream_fds
      BY <2>1, GatherEvents
    <3>2. u \in stream_fds => u \notin server_fds
      BY DEF RequestsAccounted
    <3>3. ~Arrived(u) /\ server_fds' = server_fds \cup stream_fds /\ UNCHANGED <<results, streamVars>>
      BY <2>1 DEF Gather, PhaseInv, Arrived
    <3> QED
      BY <3>1, <3>2, <3>3 DEF OwnInv, Owned, Acted, Has, streamVars
  <2> QED
    BY <2>2 DEF OwnInv
<1>2. CASE Still \/ EndRound
  BY <1>2, OwnKept DEF Still, EndRound, msgVars
<1>3. CASE CtrlC \/ UnixStreamRead \/ UnixStreamWrite \/ TakeCodeStarts \/ TakeHttpResponses
  <2> SUFFICES ASSUME NEW u \in Token PROVE Owned(u)'
    BY DEF OwnInv
  <2>1. UNCHANGED <<server_fds, streamVars>>
    BY <1>3 DEF CtrlC, UnixStreamRead, UnixStreamWrite, TakeCodeStarts, TakeHttpResponses, Take, msgVars
  <2>2. Arrived(u)' <=> Arrived(u)
    BY <1>3 DEF CtrlC, UnixStreamRead, UnixStreamWrite, TakeCodeStarts, TakeHttpResponses, Take, Arrived
  <2>3. \A act \in StreamAction : Has(u, act)' <=> Has(u, act)
    BY <1>3 DEF CtrlC, UnixStreamRead, UnixStreamWrite, TakeCodeStarts, TakeHttpResponses, Has
  <2> QED
    BY <2>1, <2>2, <2>3 DEF OwnInv, Owned, Acted, streamVars
<1>4. ASSUME NEW tk \in Token, Dispatch(tk) PROVE OwnInv'
  BY <1>4, OwnKept DEF Dispatch, msgVars, loopVars
<1>5. ASSUME NEW tk \in Token, OnAnyEvent(tk) PROVE OwnInv'
  <2> SUFFICES ASSUME NEW u \in Token PROVE Owned(u)'
    BY DEF OwnInv
  <2> USE DEF TakeStream, Take, First, OwnInv, Owned, Arrived, Acted, Has
  <2>1. CASE NewStreamFd(tk)
    BY <1>5, <2>1 DEF NewStreamFd, streamVars
  <2>2. CASE ServerStreamRead(tk)
    BY <1>5, <2>2 DEF ServerStreamRead, Outcome
  <2>3. CASE ServerStreamWrite(tk)
    BY <1>5, <2>3 DEF ServerStreamWrite, Outcome
  <2>4. CASE CasketResponseWrite(tk)
    BY <1>5, <2>4 DEF CasketResponseWrite, Outcome
  <2>5. ASSUME NEW timer \in Timer, TimerEvent(tk, timer) PROVE Owned(u)'
    BY <1>5, <2>5 DEF TimerEvent, Timer, streamVars
  <2>6. ASSUME NEW t \in Thread, SendQueuedRequest(tk, t) PROVE Owned(u)'
    BY <1>5, <2>6 DEF SendQueuedRequest, streamVars, msgVars
  <2> QED
    BY <1>5, <2>1, <2>2, <2>3, <2>4, <2>5, <2>6 DEF OnAnyEvent
<1>6. ASSUME NEW tk \in Token, OnAnyResult(tk) PROVE OwnInv'
  <2> SUFFICES ASSUME NEW u \in Token PROVE Owned(u)'
    BY DEF OwnInv
  <2> USE DEF TakeResult, OwnInv, Owned, Arrived, Acted, Has
  <2>1. ASSUME NEW act \in ActionKind, NEW keep_alive \in BOOLEAN, Returned(tk, act, keep_alive)
        PROVE  Owned(u)'
    BY <2>1 DEF Returned, Answer
  <2>2. ASSUME NEW act \in {"NewServerRequest", "ServerContinueRead"}, ReadOn(tk, act) PROVE Owned(u)'
    BY <2>2 DEF ReadOn
  <2>3. CASE ReadDone(tk)
    BY <2>3 DEF ReadDone
  <2>4. ASSUME NEW act \in {"ServerNewResponse", "ServerContinueWrite"}, WriteOn(tk, act) PROVE Owned(u)'
    BY <2>4 DEF WriteOn
  <2>5. ASSUME NEW act \in {"ServerCasketResponseNew", "ServerCasketResponseContinue"}, CasketOn(tk, act)
        PROVE  Owned(u)'
    BY <2>5 DEF CasketOn
  <2>6. CASE ServerPythonCodeTimeoutNew(tk)
    BY <2>6 DEF ServerPythonCodeTimeoutNew, streamVars
  <2> HIDE DEF TakeResult, OwnInv, Owned, Arrived, Acted, Has, StreamAction, ActionKind
  <2> QED
    BY <1>6, <2>1, <2>2, <2>3, <2>4, <2>5, <2>6, Zenon DEF OnAnyResult
<1>7. ASSUME NEW tk \in Token, OnAnyTimeout(tk) PROVE OwnInv'
  <2> SUFFICES ASSUME NEW u \in Token PROVE Owned(u)'
    BY DEF OwnInv
  <2> USE DEF TakeTimeout, OwnInv, Owned, Arrived, Acted, Has, msgVars
  <2>1. CASE RequestReadTimeout(tk)
    BY <2>1 DEF RequestReadTimeout
  <2>2. CASE PythonCodeTimeout(tk)
    BY <2>2 DEF PythonCodeTimeout
  <2>3. ASSUME NEW timer \in Timer, TimeoutIgnored(tk, timer) PROVE Owned(u)'
    BY <2>3 DEF TimeoutIgnored
  <2> QED
    BY <1>7, <2>1, <2>2, <2>3 DEF OnAnyTimeout
<1>8. ASSUME NEW t \in Thread, OnAnyThread(t) PROVE OwnInv'
  BY <1>8, OwnKept DEF OnAnyThread, SendResponse, BodyDone, ThreadDies, CodeStart, ThreadStep,
                       loopVars, msgVars
<1> QED
  BY Steps, <1>1, <1>2, <1>3, <1>4, <1>5, <1>6, <1>7, <1>8, Zenon DEF AnyStep

-----------------------------------------------------------------------------
(* A step that neither moves a stream nor touches the poller keeps         *)
(* WatchInv.                                                               *)
LEMMA WatchKept ==
  ASSUME WatchInv, UNCHANGED <<events, results, streamVars, interest, reg_read, reg_write>>
  PROVE  WatchInv'
BY DEF WatchInv, WatchedRight, Has, streamVars

(* Each step keeps the watched streams in the maps of their events.        *)
LEMMA WatchStep == TypeOK /\ PhaseInv /\ OwnInv /\ WatchInv /\ [Next]_vars => WatchInv'
<1> SUFFICES ASSUME TypeOK, PhaseInv, OwnInv, WatchInv, [Next]_vars PROVE WatchInv'
  OBVIOUS
<1>1. CASE AnyGather
  <2>1. PICK expired \in SUBSET timerq, ready \in SUBSET Filed,
             others \in SUBSET ({UNIX_STREAM_TOKEN} \X {"UnixStreamRead", "UnixStreamWrite", "CtrlC"}) :
               Gather(expired, ready, others)
    BY <1>1 DEF AnyGather
  <2>2. ASSUME NEW u \in Token PROVE WatchedRight(u)'
    <3>1. /\ <<u, "ServerStreamRead">> \in events' <=> u \in ready /\ interest[u] = "read"
          /\ \A event \in StreamWrite : <<u, event>> \in events' <=>
               u \in ready /\ interest[u] = "write" /\ reg_write[u] = event
      BY <2>1, GatherEvents
    <3>2. /\ interest[u] = "read" => u \in reading /\ u \in reg_read
          /\ interest[u] = "write" => \/ u \in writing /\ reg_write[u] = "ServerStreamWrite"
                                      \/ u \in casket /\ reg_write[u] = "CasketResponseWrite"
      BY <2>1 DEF Gather, PhaseInv, WatchInv, WatchedRight, Has
    <3>3. /\ UNCHANGED <<interest, reading, writing, casket>>
          /\ u \in reg_read' <=> u \in reg_read /\ ~(u \in ready /\ interest[u] = "read")
          /\ reg_write'[u] = IF u \in ready /\ interest[u] = "write" THEN "none" ELSE reg_write[u]
      BY <2>1 DEF Gather, streamVars
    <3> QED
      BY <3>1, <3>2, <3>3 DEF WatchedRight, StreamWrite
  <2> QED
    BY <2>2 DEF WatchInv
<1>2. CASE Still \/ EndRound
  BY <1>2, WatchKept DEF Still, EndRound, pollVars
<1>3. CASE CtrlC \/ UnixStreamRead \/ UnixStreamWrite \/ TakeCodeStarts \/ TakeHttpResponses
  <2> SUFFICES ASSUME NEW u \in Token PROVE WatchedRight(u)'
    BY DEF WatchInv
  <2> USE DEF CtrlC, UnixStreamRead, UnixStreamWrite, TakeCodeStarts, TakeHttpResponses, Take
  <2>1. UNCHANGED <<interest, reg_read, reg_write, streamVars>>
    BY <1>3 DEF pollVars
  <2>2. \A event \in {"ServerStreamRead"} \cup StreamWrite : <<u, event>> \in events' <=> <<u, event>> \in events
    BY <1>3 DEF StreamWrite
  <2>3. \A act : Has(u, act) => Has(u, act)'
    BY <1>3 DEF Has
  <2> QED
    BY <2>1, <2>2, <2>3 DEF WatchInv, WatchedRight, streamVars, StreamWrite
<1>4. ASSUME NEW tk \in Token, Dispatch(tk) PROVE WatchInv'
  BY <1>4, WatchKept DEF Dispatch, loopVars, pollVars
<1>5. ASSUME NEW tk \in Token, OnAnyEvent(tk) PROVE WatchInv'
  <2> SUFFICES ASSUME NEW u \in Token PROVE WatchedRight(u)'
    BY DEF WatchInv
  <2> USE DEF TakeStream, Take, First, WatchInv, WatchedRight, Has, OwnInv, Owned, pollVars
  <2>1. CASE NewStreamFd(tk)
    BY <2>1 DEF NewStreamFd, streamVars
  <2>2. CASE ServerStreamRead(tk)
    BY <2>2 DEF ServerStreamRead, Outcome
  <2>3. CASE ServerStreamWrite(tk)
    BY <2>3 DEF ServerStreamWrite, Outcome
  <2>4. CASE CasketResponseWrite(tk)
    BY <2>4 DEF CasketResponseWrite, Outcome
  <2>5. ASSUME NEW timer \in Timer, TimerEvent(tk, timer) PROVE WatchedRight(u)'
    BY <2>5 DEF TimerEvent, Timer, streamVars
  <2>6. ASSUME NEW t \in Thread, SendQueuedRequest(tk, t) PROVE WatchedRight(u)'
    BY <2>6 DEF SendQueuedRequest, streamVars
  <2> HIDE DEF TakeStream, Take, First, WatchInv, WatchedRight, Has, OwnInv, Owned, pollVars
  <2> QED
    BY <1>5, <2>1, <2>2, <2>3, <2>4, <2>5, <2>6, Zenon DEF OnAnyEvent
<1>6. ASSUME NEW tk \in Token, OnAnyResult(tk) PROVE WatchInv'
  <2> SUFFICES ASSUME NEW u \in Token PROVE WatchedRight(u)'
    BY DEF WatchInv
  <2> USE DEF TakeResult, Watch, TypeOK, WatchInv, WatchedRight, Has
  <2>1. ASSUME NEW act \in ActionKind, NEW keep_alive \in BOOLEAN, Returned(tk, act, keep_alive)
        PROVE  WatchedRight(u)'
    BY <2>1 DEF Returned
  <2>2. ASSUME NEW act \in {"NewServerRequest", "ServerContinueRead"}, ReadOn(tk, act)
        PROVE  WatchedRight(u)'
    BY <2>2 DEF ReadOn
  <2>3. CASE ReadDone(tk)
    BY <2>3 DEF ReadDone
  <2>4. ASSUME NEW act \in {"ServerNewResponse", "ServerContinueWrite"}, WriteOn(tk, act)
        PROVE  WatchedRight(u)'
    BY <2>4 DEF WriteOn
  <2>5. ASSUME NEW act \in {"ServerCasketResponseNew", "ServerCasketResponseContinue"}, CasketOn(tk, act)
        PROVE  WatchedRight(u)'
    BY <2>5 DEF CasketOn
  <2>6. CASE ServerPythonCodeTimeoutNew(tk)
    BY <2>6 DEF ServerPythonCodeTimeoutNew, streamVars
  <2> HIDE DEF TakeResult, Watch, TypeOK, WatchInv, WatchedRight, Has
  <2> QED
    BY <1>6, <2>1, <2>2, <2>3, <2>4, <2>5, <2>6, Zenon DEF OnAnyResult
<1>7. ASSUME NEW tk \in Token, OnAnyTimeout(tk) PROVE WatchInv'
  <2> SUFFICES ASSUME NEW u \in Token PROVE WatchedRight(u)'
    BY DEF WatchInv
  <2> USE DEF TakeTimeout, Watch, TypeOK, PhaseInv, WatchInv, WatchedRight, Has
  <2>1. CASE RequestReadTimeout(tk)
    BY <2>1 DEF RequestReadTimeout
  <2>2. CASE PythonCodeTimeout(tk)
    BY <2>2 DEF PythonCodeTimeout
  <2>3. ASSUME NEW timer \in Timer, TimeoutIgnored(tk, timer) PROVE WatchedRight(u)'
    BY <2>3 DEF TimeoutIgnored
  <2> HIDE DEF TakeTimeout, Watch, TypeOK, PhaseInv, WatchInv, WatchedRight, Has
  <2> QED
    BY <1>7, <2>1, <2>2, <2>3, Zenon DEF OnAnyTimeout
<1>8. ASSUME NEW t \in Thread, OnAnyThread(t) PROVE WatchInv'
  BY <1>8, WatchKept DEF OnAnyThread, SendResponse, BodyDone, ThreadDies, CodeStart, ThreadStep,
                         loopVars, pollVars
<1> QED
  BY Steps, <1>1, <1>2, <1>3, <1>4, <1>5, <1>6, <1>7, <1>8, Zenon DEF AnyStep

-----------------------------------------------------------------------------
(* A step after which nothing new is early or started keeps StartedInv.    *)
LEMMA StartedKept ==
  ASSUME StartedInv, requested \subseteq requested',
         \A tk \in Token : /\ Started(tk)' => Started(tk)
                           /\ Early(tk)' => Early(tk)
  PROVE  StartedInv'
BY DEF StartedInv

(* The set of requests with the threads, told request by request.          *)
LEMMA WithThreadsOf ==
  ASSUME TypeOK, NEW tk \in Token
  PROVE  tk \in WithThreads <=> AtThreads(tk)
<1> DEFINE Sent  == UNION {req_recv[t] : t \in Thread}
           Busy  == {u \in Thread : thread[u] = "execute"}
           Taken == {current[t] : t \in Busy}
<1>1. tk \in Sent <=> \E t \in Thread : tk \in req_recv[t]
  OBVIOUS
<1>2. tk \in Taken <=> \E t \in Thread : Executing(t, tk)
  <2>1. \A t : t \in Busy <=> t \in Thread /\ thread[t] = "execute"
    OBVIOUS
  <2> HIDE DEF Busy
  <2> QED
    BY <2>1 DEF Executing
<1>3. WithThreads = resp \cup Sent \cup Taken
  BY Zenon DEF WithThreads
<1> HIDE DEF Sent, Taken
<1> QED
  BY <1>1, <1>2, <1>3 DEF AtThreads

(* A request that a thread has taken never comes back to where it was      *)
(* before: only a request that is sent gets there, and only one that a     *)
(* thread takes leaves for good (pythonexec/mod.rs:76-88).                 *)
LEMMA StartedStep ==
  /\ TypeOK /\ PhaseInv /\ RequestsAccounted /\ OwnInv /\ StartedInv /\ AwaitInv /\ [Next]_vars
  => StartedInv'
<1> SUFFICES ASSUME TypeOK, PhaseInv, RequestsAccounted, OwnInv, StartedInv, AwaitInv, [Next]_vars
             PROVE  StartedInv'
  OBVIOUS
<1>1. CASE AnyGather
  <2>1. PICK expired \in SUBSET timerq, ready \in SUBSET Filed,
             others \in SUBSET ({UNIX_STREAM_TOKEN} \X {"UnixStreamRead", "UnixStreamWrite", "CtrlC"}) :
               Gather(expired, ready, others)
    BY <1>1 DEF AnyGather
  <2>2. ASSUME NEW u \in Token
        PROVE  (Started(u)' => Started(u)) /\ (Early(u)' => Early(u))
    <3>1. /\ Arrived(u)' <=> u \in stream_fds
          /\ <<u, "PythonCodeTimeout">> \in events' <=> <<u, "PythonCodeTimeout">> \in expired
      BY <2>1, GatherEvents
    <3> QED
      BY <2>1, <3>1 DEF Gather, Started, Early, Has, unixVars, streamVars, queueVars, threadVars
  <2>3. UNCHANGED requested
    BY <2>1 DEF Gather, unixVars
  <2> QED
    BY <2>2, <2>3, StartedKept
<1>2. CASE Still \/ EndRound
  <2>1. ASSUME NEW u \in Token
        PROVE  (Started(u)' => Started(u)) /\ (Early(u)' => Early(u))
    BY <1>2 DEF Still, EndRound, Started, Early, Arrived, Has, unixVars, streamVars, msgVars,
                pollVars, queueVars, threadVars
  <2> QED
    BY <1>2, <2>1, StartedKept DEF Still, EndRound, unixVars
<1>3. CASE CtrlC \/ UnixStreamRead \/ UnixStreamWrite \/ TakeCodeStarts \/ TakeHttpResponses
  <2> USE DEF CtrlC, UnixStreamRead, UnixStreamWrite, TakeCodeStarts, TakeHttpResponses, Take
  <2>1. ASSUME NEW u \in Token
        PROVE  (Started(u)' => Started(u)) /\ (Early(u)' => Early(u))
    BY <1>3 DEF Started, Early, Arrived, Has, unixVars, streamVars, msgVars, pollVars, queueVars,
                threadVars
  <2> QED
    BY <1>3, <2>1, StartedKept DEF unixVars
<1>4. ASSUME NEW tk \in Token, Dispatch(tk) PROVE StartedInv'
  <2>1. ASSUME NEW u \in Token
        PROVE  /\ Started(u)' => Started(u)
               /\ Early(u)' => Early(u) \/ u = tk
    BY <1>4 DEF Dispatch, Started, Early, Arrived, Has, loopVars, streamVars, msgVars, pollVars,
                queueVars, threadVars
  <2> QED
    BY <1>4, <2>1 DEF StartedInv, Dispatch
<1>5. ASSUME NEW tk \in Token, OnAnyEvent(tk) PROVE StartedInv'
  <2> USE DEF TakeStream, Take, First, Started, Early, Arrived, Has, streamVars, queueVars
  <2>1. ASSUME NEW u \in Token, NewStreamFd(tk)
        PROVE  (Started(u)' => Started(u)) /\ (Early(u)' => Early(u))
    BY <2>1 DEF NewStreamFd, pollVars
  <2>2. ASSUME NEW u \in Token,
               ServerStreamRead(tk) \/ ServerStreamWrite(tk) \/ CasketResponseWrite(tk)
        PROVE  (Started(u)' => Started(u)) /\ (Early(u)' => Early(u))
    BY <2>2 DEF ServerStreamRead, ServerStreamWrite, CasketResponseWrite, Outcome, pollVars
  <2>3. ASSUME NEW u \in Token, NEW timer \in Timer, TimerEvent(tk, timer)
        PROVE  (Started(u)' => Started(u)) /\ (Early(u)' => Early(u))
    BY <2>3 DEF TimerEvent, pollVars
  <2>4. ASSUME NEW u \in Token, NEW t \in Thread, SendQueuedRequest(tk, t)
        PROVE  (Started(u)' => Started(u)) /\ (Early(u)' => Early(u))
    BY <2>4 DEF SendQueuedRequest, TypeOK, unixVars, msgVars, pollVars
  <2>5. UNCHANGED requested
    BY <1>5 DEF OnAnyEvent, NewStreamFd, ServerStreamRead, ServerStreamWrite, CasketResponseWrite,
                TimerEvent, SendQueuedRequest, unixVars
  <2> HIDE DEF TakeStream, Take, First, Started, Early, Arrived, Has, streamVars, queueVars
  <2>6. \A u \in Token : (Started(u)' => Started(u)) /\ (Early(u)' => Early(u))
    BY <1>5, <2>1, <2>2, <2>3, <2>4, Zenon DEF OnAnyEvent
  <2> QED
    BY <2>5, <2>6, StartedKept
<1>6. ASSUME NEW tk \in Token, OnAnyResult(tk) PROVE StartedInv'
  <2> USE DEF TakeResult, Started, Early, Arrived, Has, threadVars
  <2>1. ASSUME NEW u \in Token, NEW act \in ActionKind, NEW keep_alive \in BOOLEAN,
               Returned(tk, act, keep_alive)
        PROVE  (Started(u)' => Started(u)) /\ (Early(u)' => Early(u))
    BY <2>1 DEF Returned, unixVars
  <2>2. ASSUME NEW u \in Token, NEW act \in {"NewServerRequest", "ServerContinueRead"}, ReadOn(tk, act)
        PROVE  (Started(u)' => Started(u)) /\ (Early(u)' => Early(u))
    BY <2>2 DEF ReadOn, unixVars
  <2>3. ASSUME NEW u \in Token, ReadDone(tk)
        PROVE  (Started(u)' => Started(u)) /\ (Early(u)' => Early(u))
    BY <2>3 DEF ReadDone, unixVars
  <2>4. ASSUME NEW u \in Token, NEW act \in {"ServerNewResponse", "ServerContinueWrite"}, WriteOn(tk, act)
        PROVE  (Started(u)' => Started(u)) /\ (Early(u)' => Early(u))
    BY <2>4 DEF WriteOn, unixVars
  <2>5. ASSUME NEW u \in Token, NEW act \in {"ServerCasketResponseNew", "ServerCasketResponseContinue"},
               CasketOn(tk, act)
        PROVE  (Started(u)' => Started(u)) /\ (Early(u)' => Early(u))
    BY <2>5 DEF CasketOn, unixVars
  <2>6. ASSUME NEW u \in Token, ServerPythonCodeTimeoutNew(tk)
        PROVE  (Started(u)' => Started(u)) /\ (Early(u)' => Early(u))
    BY <2>6 DEF ServerPythonCodeTimeoutNew, unixVars, streamVars
  <2> HIDE DEF TakeResult, Started, Early, Arrived, Has, threadVars
  <2>7. UNCHANGED requested
    BY <1>6 DEF OnAnyResult, Returned, ReadOn, ReadDone, WriteOn, CasketOn,
                ServerPythonCodeTimeoutNew, TakeResult, unixVars
  <2>8. \A u \in Token : (Started(u)' => Started(u)) /\ (Early(u)' => Early(u))
    BY <1>6, <2>1, <2>2, <2>3, <2>4, <2>5, <2>6, Zenon DEF OnAnyResult
  <2> QED
    BY <2>7, <2>8, StartedKept
<1>7. ASSUME NEW tk \in Token, OnAnyTimeout(tk) PROVE StartedInv'
  <2>1. ASSUME NEW u \in Token
        PROVE  (Started(u)' => Started(u)) /\ (Early(u)' => Early(u))
    BY <1>7 DEF OnAnyTimeout, RequestReadTimeout, PythonCodeTimeout, TimeoutIgnored, TakeTimeout,
                Started, Early, Arrived, Has, unixVars, msgVars, threadVars
  <2> QED
    BY <1>7, <2>1, StartedKept
    DEF OnAnyTimeout, RequestReadTimeout, PythonCodeTimeout, TimeoutIgnored, TakeTimeout, unixVars
<1>8. ASSUME NEW t \in Thread, SendResponse(t) \/ BodyDone(t) \/ ThreadDies(t) PROVE StartedInv'
  <2>1. ASSUME NEW u \in Token
        PROVE  (Started(u)' => Started(u)) /\ (Early(u)' => Early(u))
    BY <1>8, TokenAssumption
    DEF SendResponse, BodyDone, ThreadDies, ThreadStep, TypeOK, Started, Early, Arrived, Has,
        unixVars, loopVars, streamVars, msgVars, pollVars, queueVars
  <2> QED
    BY <1>8, <2>1, StartedKept DEF SendResponse, BodyDone, ThreadDies, ThreadStep, unixVars
<1>9. ASSUME NEW t \in Thread, NEW tk \in Token, CodeStart(t, tk) PROVE StartedInv'
  <2>1. ASSUME NEW u \in Token
        PROVE  /\ Started(u)' => Started(u) \/ u = tk
               /\ Early(u)' => Early(u)
               /\ u \in requested' <=> u \in requested
    BY <1>9 DEF CodeStart, ThreadStep, TypeOK, Started, Early, Arrived, Has,
                unixVars, loopVars, streamVars, msgVars, pollVars, queueVars
  <2>2. tk \in pending /\ tk \notin queued_reqs
    <3>1. AtThreads(tk) /\ Early(tk)
      BY <1>9 DEF CodeStart, AtThreads, Early
    <3> QED
      BY <3>1 DEF AwaitInv, Awaited, Expected, StartedInv, Started
  <2>3. tk \in server_fds /\ ~Arrived(tk) /\ tk \notin reading /\ ~Acted(tk)
    BY <2>2 DEF OwnInv, Owned
  <2>4. tk \in requested /\ tk \notin unix_in /\ tk \notin stream_fds
    BY <2>3 DEF RequestsAccounted
  <2>5. \A u \in Thread : tk \notin req_recv'[u]
    BY <1>9 DEF CodeStart, AwaitInv, OnePlace, TypeOK
  <2>6. ~Early(tk)'
    BY <1>9, <2>2, <2>3, <2>4, <2>5
    DEF CodeStart, ThreadStep, Early, Arrived, Acted, Has, StreamAction, ActionKind,
        unixVars, loopVars, streamVars, msgVars, queueVars
  <2> QED
    BY <2>1, <2>4, <2>6 DEF StartedInv
<1> QED
  BY Steps, <1>1, <1>2, <1>3, <1>4, <1>5, <1>6, <1>7, <1>8, <1>9, Zenon DEF AnyStep, OnAnyThread

-----------------------------------------------------------------------------
(* A step that leaves the queues and the threads alone keeps AwaitInv.     *)
LEMMA AwaitKept ==
  ASSUME AwaitInv, UNCHANGED <<pending, queued_reqs, timed_out_reqs, req_recv, thread, current, resp>>,
         \A tk \in Token : Has(tk, "ServerNewResponse")' <=> Has(tk, "ServerNewResponse")
  PROVE  AwaitInv'
BY DEF AwaitInv, OnePlace, Awaited, AtThreads, Expected, Executing

(* Each step keeps every request of the threads awaited by the loop: as    *)
(* pending, or as one that timed out (pythonthreads.rs:64-66, 82-90).      *)
LEMMA AwaitStep ==
  TypeOK /\ PhaseInv /\ OwnInv /\ StartedInv /\ AwaitInv /\ [Next]_vars => AwaitInv'
<1> SUFFICES ASSUME TypeOK, PhaseInv, OwnInv, StartedInv, AwaitInv, [Next]_vars PROVE AwaitInv'
  OBVIOUS
<1>1. CASE Still \/ AnyGather \/ EndRound
  BY <1>1, AwaitKept DEF Still, AnyGather, Gather, EndRound, Has, streamVars, queueVars, threadVars
<1>2. CASE CtrlC \/ UnixStreamRead \/ UnixStreamWrite \/ TakeCodeStarts
  BY <1>2, AwaitKept DEF CtrlC, UnixStreamRead, UnixStreamWrite, TakeCodeStarts, Take, Has,
                         streamVars, queueVars
<1>3. CASE TakeHttpResponses
  <2> SUFFICES ASSUME NEW u \in Token PROVE (OnePlace(u) /\ Awaited(u))'
    BY DEF AwaitInv
  <2>1. Has(u, "ServerNewResponse")' <=>
          Has(u, "ServerNewResponse") \/ (u \in resp /\ u \notin timed_out_reqs)
    BY <1>3 DEF TakeHttpResponses, Has
  <2>2. /\ UNCHANGED <<pending, queued_reqs, req_recv, thread, current>>
        /\ timed_out_reqs' = timed_out_reqs \ resp /\ resp' = {}
    BY <1>3 DEF TakeHttpResponses, Take, streamVars
  <2> QED
    BY <2>1, <2>2 DEF AwaitInv, OnePlace, Awaited, AtThreads, Expected, Executing
<1>4. ASSUME NEW tk \in Token, Dispatch(tk) PROVE AwaitInv'
  BY <1>4, AwaitKept DEF Dispatch, Has, loopVars, streamVars, queueVars, threadVars
<1>5. ASSUME NEW tk \in Token,
             \/ NewStreamFd(tk) \/ ServerStreamRead(tk) \/ ServerStreamWrite(tk)
             \/ CasketResponseWrite(tk)
             \/ \E timer \in Timer : TimerEvent(tk, timer)
      PROVE  AwaitInv'
  BY <1>5, AwaitKept DEF NewStreamFd, ServerStreamRead, ServerStreamWrite, CasketResponseWrite,
                         TimerEvent, Outcome, TakeStream, Take, Has, streamVars, queueVars
<1>6. ASSUME NEW tk \in Token, NEW t \in Thread, SendQueuedRequest(tk, t) PROVE AwaitInv'
  <2> SUFFICES ASSUME NEW u \in Token PROVE (OnePlace(u) /\ Awaited(u))'
    BY DEF AwaitInv
  <2>1. /\ tk \in queued_reqs /\ queued_reqs' = queued_reqs \ {tk}
        /\ req_recv' = [req_recv EXCEPT ![t] = @ \cup {tk}]
        /\ UNCHANGED <<results, pending, timed_out_reqs, thread, current, resp>>
    BY <1>6 DEF SendQueuedRequest, streamVars
  <2>2. ~AtThreads(tk)
    BY <2>1 DEF StartedInv, Started, Early, AwaitInv, Awaited, Expected
  <2>3. /\ req_recv'[t] = req_recv[t] \cup {tk}
        /\ \A v \in Thread \ {t} : req_recv'[v] = req_recv[v]
    BY <2>1 DEF TypeOK
  <2> QED
    BY <2>1, <2>2, <2>3 DEF AwaitInv, OnePlace, Awaited, AtThreads, Expected, Executing, Has
<1>7. ASSUME NEW tk \in Token, OnAnyResult(tk) PROVE AwaitInv'
  <2>1. CASE ReadDone(tk)
    <3> SUFFICES ASSUME NEW u \in Token PROVE (OnePlace(u) /\ Awaited(u))'
      BY DEF AwaitInv
    <3>1. Has(tk, "ServerReadDone") /\ tk \notin pending
      BY <2>1 DEF ReadDone, TakeResult, Has, OwnInv, Owned, Acted, StreamAction, ActionKind
    <3>2. ~AtThreads(tk) /\ tk \notin timed_out_reqs
      BY <3>1 DEF StartedInv, Started, Early, AwaitInv, Awaited, Expected
    <3> QED
      BY <2>1, <3>1, <3>2 DEF ReadDone, TakeResult, threadVars,
        AwaitInv, OnePlace, Awaited, AtThreads, Expected, Executing, Has
  <2>2. ASSUME NEW act \in ActionKind, TakeResult(tk, act), UNCHANGED queued_reqs,
               act = "ServerNewResponse" => pending' = pending \ {tk},
               act # "ServerNewResponse" => pending' = pending
        PROVE  AwaitInv'
    <3>1. CASE act = "ServerNewResponse"
      <4> SUFFICES ASSUME NEW u \in Token PROVE (OnePlace(u) /\ Awaited(u))'
        BY DEF AwaitInv
      <4>1. /\ Has(tk, "ServerNewResponse") /\ pending' = pending \ {tk}
            /\ Has(u, "ServerNewResponse")' <=> Has(u, "ServerNewResponse") /\ u # tk
            /\ UNCHANGED <<queued_reqs, timed_out_reqs, req_recv, thread, current, resp>>
        BY <2>2, <3>1 DEF TakeResult, threadVars, Has
      <4> QED
        BY <4>1 DEF AwaitInv, OnePlace, Awaited, AtThreads, Expected, Executing
    <3>2. CASE act # "ServerNewResponse"
      BY <2>2, <3>2, AwaitKept DEF TakeResult, threadVars, Has
    <3> QED
      BY <3>1, <3>2
  <2>3. ASSUME NEW act \in ActionKind, NEW keep_alive \in BOOLEAN, Returned(tk, act, keep_alive)
        PROVE  AwaitInv'
    BY <2>2, <2>3 DEF Returned
  <2>4. ASSUME NEW act \in {"NewServerRequest", "ServerContinueRead"}, ReadOn(tk, act) PROVE AwaitInv'
    BY <2>2, <2>4 DEF ReadOn, ActionKind
  <2>5. ASSUME NEW act \in {"ServerNewResponse", "ServerContinueWrite"}, WriteOn(tk, act) PROVE AwaitInv'
    BY <2>2, <2>5 DEF WriteOn, ActionKind
  <2>6. ASSUME NEW act \in {"ServerCasketResponseNew", "ServerCasketResponseContinue"}, CasketOn(tk, act)
        PROVE  AwaitInv'
    BY <2>2, <2>6 DEF CasketOn, ActionKind
  <2>7. CASE ServerPythonCodeTimeoutNew(tk)
    BY <2>2, <2>7 DEF ServerPythonCodeTimeoutNew, ActionKind, streamVars
  <2> QED
    BY <1>7, <2>1, <2>3, <2>4, <2>5, <2>6, <2>7, Zenon DEF OnAnyResult
<1>8. ASSUME NEW tk \in Token, OnAnyTimeout(tk) PROVE AwaitInv'
  <2>1. CASE PythonCodeTimeout(tk)
    <3> SUFFICES ASSUME NEW u \in Token PROVE (OnePlace(u) /\ Awaited(u))'
      BY DEF AwaitInv
    <3>1. tk \notin queued_reqs
      BY <2>1 DEF PythonCodeTimeout, TakeTimeout, StartedInv, Started, Early
    <3>2. ~Has(tk, "ServerNewResponse")
      BY <2>1 DEF PythonCodeTimeout, TakeTimeout, PhaseInv, Has
    <3> QED
      BY <2>1, <3>1, <3>2 DEF PythonCodeTimeout, TakeTimeout, threadVars,
        AwaitInv, OnePlace, Awaited, AtThreads, Expected, Executing, Has
  <2>2. CASE RequestReadTimeout(tk) \/ \E timer \in Timer : TimeoutIgnored(tk, timer)
    BY <2>2, AwaitKept DEF RequestReadTimeout, TimeoutIgnored, TakeTimeout, Has, threadVars
  <2> QED
    BY <1>8, <2>1, <2>2 DEF OnAnyTimeout
<1>9. ASSUME NEW t \in Thread, OnAnyThread(t) PROVE AwaitInv'
  <2> SUFFICES ASSUME NEW u \in Token PROVE (OnePlace(u) /\ Awaited(u))'
    BY DEF AwaitInv
  <2> USE TokenAssumption DEF ThreadStep, TypeOK, AwaitInv, OnePlace, Awaited, AtThreads, Expected,
          Executing, Has, loopVars, streamVars, queueVars
  <2>1. CASE SendResponse(t)
    BY <2>1 DEF SendResponse
  <2>2. CASE BodyDone(t)
    BY <2>2 DEF BodyDone
  <2>3. CASE ThreadDies(t)
    BY <2>3 DEF ThreadDies
  <2>4. ASSUME NEW tk \in Token, CodeStart(t, tk) PROVE (OnePlace(u) /\ Awaited(u))'
    BY <2>4 DEF CodeStart
  <2> HIDE DEF ThreadStep, TypeOK, AwaitInv, OnePlace, Awaited, AtThreads, Expected,
               Executing, Has, loopVars, streamVars, queueVars
  <2> QED
    BY <1>9, <2>1, <2>2, <2>3, <2>4, Zenon DEF OnAnyThread
<1> QED
  BY Steps, <1>1, <1>2, <1>3, <1>4, <1>5, <1>6, <1>7, <1>8, <1>9, Zenon DEF AnyStep, OnAnyEvent

-----------------------------------------------------------------------------
(* The set of outstanding requests, told request by request.               *)
LEMMA OutstandingOf ==
  ASSUME NEW tk \in Token
  PROVE  tk \in Outstanding <=> Expected(tk)
BY DEF Outstanding, Expected, Of, Has

(* The outstanding requests are finitely many, so they can be counted.     *)
LEMMA OutstandingFinite ==
  ASSUME TypeOK PROVE Outstanding \subseteq Token /\ IsFiniteSet(Outstanding)
<1>1. Outstanding \subseteq Token
  BY DEF TypeOK, Outstanding
<1> QED
  BY <1>1, FS_Subset, TokenAssumption

(* A step that changes neither the counter nor what is expected keeps the  *)
(* count.                                                                  *)
LEMMA CountKept ==
  ASSUME TypeOK, TypeOK', PendingAccounting, num_pending_reqs' = num_pending_reqs,
         \A tk \in Token : Expected(tk)' <=> Expected(tk)
  PROVE  PendingAccounting'
<1>1. \A tk \in Token : tk \in Outstanding' <=> Expected(tk)'
  BY DEF Outstanding, Expected, Of, Has
<1>2. Outstanding' \subseteq Token /\ Outstanding \subseteq Token
  BY DEF TypeOK, Outstanding
<1>3. Outstanding' = Outstanding
  BY <1>1, <1>2, OutstandingOf
<1> QED
  BY <1>3 DEF PendingAccounting

(* Each step keeps num_pending_reqs the number of the requests the loop    *)
(* waits for: one more for each request sent to a thread, one less for     *)
(* each response taken, nothing for a timeout (pythonthreads.rs:52-98).    *)
LEMMA CountStep ==
  /\ TypeOK /\ PhaseInv /\ OwnInv /\ StartedInv /\ AwaitInv /\ PendingAccounting /\ [Next]_vars
  => PendingAccounting'
<1> SUFFICES ASSUME TypeOK, PhaseInv, OwnInv, StartedInv, AwaitInv, PendingAccounting, [Next]_vars
             PROVE  PendingAccounting'
  OBVIOUS
<1>0. TypeOK'
  BY TypeStep
<1>a. Outstanding' \subseteq Token /\ \A u \in Token : u \in Outstanding' <=> Expected(u)'
  BY <1>0 DEF TypeOK, Outstanding, Expected, Of, Has
<1>b. Outstanding \subseteq Token /\ IsFiniteSet(Outstanding)
  BY OutstandingFinite
<1>1. CASE Still \/ AnyGather \/ EndRound
  BY <1>0, <1>1, CountKept DEF Still, AnyGather, Gather, EndRound, Expected, Has, streamVars, queueVars
<1>2. CASE CtrlC \/ UnixStreamRead \/ UnixStreamWrite \/ TakeCodeStarts
  BY <1>0, <1>2, CountKept DEF CtrlC, UnixStreamRead, UnixStreamWrite, TakeCodeStarts, Expected, Has,
                               streamVars, queueVars
<1>3. CASE TakeHttpResponses
  <2>1. ASSUME NEW u \in Token PROVE Expected(u)' <=> Expected(u) /\ u \notin resp
    <3>1. Has(u, "ServerNewResponse")' <=>
            Has(u, "ServerNewResponse") \/ (u \in resp /\ u \notin timed_out_reqs)
      BY <1>3 DEF TakeHttpResponses, Has
    <3>2. /\ UNCHANGED <<pending, queued_reqs>> /\ timed_out_reqs' = timed_out_reqs \ resp
      BY <1>3 DEF TakeHttpResponses, streamVars
    <3>3. u \in resp => Expected(u)
      BY DEF AwaitInv, Awaited, AtThreads
    <3>4. u \in timed_out_reqs => u \notin pending
      BY DEF AwaitInv, Awaited
    <3> QED
      BY <3>1, <3>2, <3>3, <3>4 DEF Expected
  <2>2. resp \subseteq Outstanding
    BY OutstandingOf DEF AwaitInv, Awaited, AtThreads, TypeOK
  <2>3. Outstanding' = Outstanding \ resp
    BY <1>a, <1>b, <2>1, OutstandingOf
  <2>4. Cardinality(Outstanding') = Cardinality(Outstanding) - Cardinality(Outstanding \cap resp)
    BY <1>b, <2>3, FS_Difference
  <2>5. Outstanding \cap resp = resp
    BY <2>2
  <2> QED
    BY <1>3, <2>4, <2>5 DEF TakeHttpResponses, PendingAccounting
<1>4. ASSUME NEW tk \in Token, Dispatch(tk) PROVE PendingAccounting'
  BY <1>0, <1>4, CountKept DEF Dispatch, Expected, Has, loopVars, streamVars, queueVars
<1>5. ASSUME NEW tk \in Token,
             \/ NewStreamFd(tk) \/ ServerStreamRead(tk) \/ ServerStreamWrite(tk)
             \/ CasketResponseWrite(tk)
             \/ \E timer \in Timer : TimerEvent(tk, timer)
      PROVE  PendingAccounting'
  BY <1>0, <1>5, CountKept
  DEF NewStreamFd, ServerStreamRead, ServerStreamWrite, CasketResponseWrite, TimerEvent, Outcome,
      TakeStream, Take, Expected, Has, streamVars, queueVars
<1>6. ASSUME NEW tk \in Token, NEW t \in Thread, SendQueuedRequest(tk, t) PROVE PendingAccounting'
  <2>1. /\ tk \in queued_reqs /\ queued_reqs' = queued_reqs \ {tk}
        /\ num_pending_reqs' = num_pending_reqs + 1
        /\ UNCHANGED <<results, pending, timed_out_reqs>>
    BY <1>6 DEF SendQueuedRequest, streamVars
  <2>2. ~Expected(tk)
    BY <2>1 DEF StartedInv, Started, Early, Expected
  <2>3. tk \in pending /\ ~Has(tk, "ServerNewResponse")
    BY <2>1 DEF AwaitInv, Awaited
  <2>4. \A u \in Token : Expected(u)' <=> Expected(u) \/ u = tk
    BY <2>1, <2>3 DEF Expected, Has
  <2>5. tk \notin Outstanding /\ Outstanding' = Outstanding \cup {tk}
    BY <1>a, <1>b, <2>2, <2>4, OutstandingOf
  <2> QED
    BY <1>b, <2>1, <2>5, FS_AddElement DEF PendingAccounting
<1>7. ASSUME NEW tk \in Token, OnAnyResult(tk) PROVE PendingAccounting'
  <2> USE DEF TakeResult, Expected, Has
  <2>1. CASE ReadDone(tk)
    <3>1. Has(tk, "ServerReadDone") /\ tk \notin pending
      BY <2>1 DEF ReadDone, OwnInv, Owned, Acted, StreamAction, ActionKind
    <3>2. tk \notin timed_out_reqs
      BY <3>1 DEF StartedInv, Started, Early
    <3> QED
      BY <1>0, <2>1, <3>1, <3>2, CountKept DEF ReadDone
  <2>2. ASSUME NEW act \in ActionKind, TakeResult(tk, act), UNCHANGED queued_reqs,
               act = "ServerNewResponse" => pending' = pending \ {tk},
               act # "ServerNewResponse" => pending' = pending
        PROVE  PendingAccounting'
    <3>1. \A u \in Token : Expected(u)' <=> Expected(u)
      BY <2>2
    <3> QED
      BY <1>0, <2>2, <3>1, CountKept
  <2> HIDE DEF TakeResult, Expected, Has
  <2>3. ASSUME NEW act \in ActionKind, NEW keep_alive \in BOOLEAN, Returned(tk, act, keep_alive)
        PROVE  PendingAccounting'
    BY <2>2, <2>3 DEF Returned
  <2>4. ASSUME NEW act \in {"NewServerRequest", "ServerContinueRead"}, ReadOn(tk, act)
        PROVE  PendingAccounting'
    BY <2>2, <2>4 DEF ReadOn, ActionKind
  <2>5. ASSUME NEW act \in {"ServerNewResponse", "ServerContinueWrite"}, WriteOn(tk, act)
        PROVE  PendingAccounting'
    BY <2>2, <2>5 DEF WriteOn, ActionKind
  <2>6. ASSUME NEW act \in {"ServerCasketResponseNew", "ServerCasketResponseContinue"}, CasketOn(tk, act)
        PROVE  PendingAccounting'
    BY <2>2, <2>6 DEF CasketOn, ActionKind
  <2>7. CASE ServerPythonCodeTimeoutNew(tk)
    BY <2>2, <2>7 DEF ServerPythonCodeTimeoutNew, ActionKind, streamVars
  <2> QED
    BY <1>7, <2>1, <2>3, <2>4, <2>5, <2>6, <2>7, Zenon DEF OnAnyResult
<1>8. ASSUME NEW tk \in Token, OnAnyTimeout(tk) PROVE PendingAccounting'
  <2>1. CASE PythonCodeTimeout(tk)
    <3>1. tk \notin queued_reqs
      BY <2>1 DEF PythonCodeTimeout, TakeTimeout, StartedInv, Started, Early
    <3>2. ~Has(tk, "ServerNewResponse")
      BY <2>1 DEF PythonCodeTimeout, TakeTimeout, PhaseInv, Has
    <3> QED
      BY <1>0, <2>1, <3>1, <3>2, CountKept DEF PythonCodeTimeout, TakeTimeout, Expected, Has
  <2>2. CASE RequestReadTimeout(tk) \/ \E timer \in Timer : TimeoutIgnored(tk, timer)
    BY <1>0, <2>2, CountKept DEF RequestReadTimeout, TimeoutIgnored, TakeTimeout, Expected, Has
  <2> QED
    BY <1>8, <2>1, <2>2 DEF OnAnyTimeout
<1>9. ASSUME NEW t \in Thread, OnAnyThread(t) PROVE PendingAccounting'
  BY <1>0, <1>9, CountKept DEF OnAnyThread, SendResponse, BodyDone, ThreadDies, CodeStart, ThreadStep,
                               Expected, Has, loopVars, streamVars, queueVars
<1> QED
  BY Steps, <1>1, <1>2, <1>3, <1>4, <1>5, <1>6, <1>7, <1>8, <1>9, Zenon DEF AnyStep, OnAnyEvent

-----------------------------------------------------------------------------
(* A worker that starts satisfies the invariant.                           *)
LEMMA InitInv == Init => IInv
<1> SUFFICES ASSUME Init PROVE IInv
  OBVIOUS
<1>1. TypeOK
  BY InitType
<1>2. PhaseInv /\ RequestsAccounted /\ OwnInv
  BY DEF Init, PhaseInv, RequestsAccounted, Buffered, OwnInv, Owned, Arrived, Acted, Has
<1>3. WatchInv /\ StartedInv
  BY TokenAssumption DEF Init, WatchInv, WatchedRight, Has, StartedInv, Started
<1>4. AwaitInv
  BY DEF Init, AwaitInv, OnePlace, Awaited, AtThreads, Expected, Executing, Has
<1>5. PendingAccounting
  <2>1. Outstanding = {}
    BY DEF Init, Outstanding
  <2> QED
    BY <2>1, FS_EmptySet DEF Init, PendingAccounting
<1> QED
  BY <1>1, <1>2, <1>3, <1>4, <1>5 DEF IInv

(* Every step of the worker, its threads and the server keeps the          *)
(* invariant.                                                              *)
LEMMA StepInv == IInv /\ [Next]_vars => IInv'
BY TypeStep, PhaseStep, AccountedStep, OwnStep, WatchStep, StartedStep, AwaitStep, CountStep DEF IInv

(* The inductive invariant of the worker: it holds in every state of       *)
(* run_worker (worker/mod.rs:70-217), and everything below follows from    *)
(* it.                                                                     *)
THEOREM Invariant == Spec => []IInv
BY InitInv, StepInv, PTL DEF Spec

(* No request is lost or answered twice: each one the server has sent is   *)
(* in one of the stages from the unix stream to its answer                 *)
(* (msgs/mod.rs:81-273).                                                   *)
THEOREM EveryRequestAccounted == Spec => []RequestsAccounted
<1>1. IInv => RequestsAccounted
  BY DEF IInv
<1> QED
  BY Invariant, <1>1, PTL

(* OneOwner is OwnInv said of sets instead of tokens.                      *)
LEMMA OwnedInOnePlace == TypeOK /\ OwnInv => OneOwner
<1> SUFFICES ASSUME TypeOK, OwnInv PROVE OneOwner
  OBVIOUS
<1>1. /\ \A tk \in Token : tk \in Of(events, {"NewStreamFd"}) <=> Arrived(tk)
      /\ \A tk \in Token : tk \in Of(results, StreamAction) <=> Acted(tk)
      /\ Of(events, {"NewStreamFd"}) \subseteq Token /\ Of(results, StreamAction) \subseteq Token
  BY DEF Of, Arrived, Acted, Has
<1>2. /\ DOMAIN Place = {"arrived", "reading", "pending", "writing", "casket", "acted"}
      /\ Place["arrived"] = Of(events, {"NewStreamFd"}) /\ Place["reading"] = reading
      /\ Place["pending"] = pending /\ Place["writing"] = writing /\ Place["casket"] = casket
      /\ Place["acted"] = Of(results, StreamAction)
  BY DEF Place
<1>3. \A p \in DOMAIN Place : Place[p] \subseteq Token
  BY <1>1, <1>2 DEF TypeOK
<1>4. \A tk \in Token : tk \in server_fds <=> \E p \in DOMAIN Place : tk \in Place[p]
  BY <1>1, <1>2 DEF OwnInv, Owned
<1>5. server_fds = UNION {Place[p] : p \in DOMAIN Place}
  BY <1>3, <1>4 DEF TypeOK
<1>6. ASSUME NEW p \in DOMAIN Place, NEW q \in DOMAIN Place, p # q,
             NEW tk \in Place[p], tk \in Place[q]
      PROVE  FALSE
  BY <1>1, <1>2, <1>3, <1>6 DEF OwnInv, Owned
<1>7. ASSUME NEW r \in results, NEW s \in results,
             r[1] = s[1], r[2] \in StreamAction, s[2] \in StreamAction
      PROVE  r = s
  BY <1>7 DEF OwnInv, Owned, Has, TypeOK
<1> QED
  BY <1>5, <1>6, <1>7 DEF OneOwner

(* Every stream the worker has taken on is in one of its maps, and only in *)
(* one, whatever timeouts and late responses do (worker/mod.rs:38-41).     *)
THEOREM EveryStreamOwned == Spec => []OneOwner
<1>1. IInv => OneOwner
  BY OwnedInOnePlace DEF IInv
<1> QED
  BY Invariant, <1>1, PTL

(* The invariant makes every expect of the loop hold.                      *)
LEMMA InvExpectsHold == IInv => ExpectsHold
<1> SUFFICES ASSUME IInv PROVE ExpectsHold
  OBVIOUS
<1>1. /\ Of(events, {"ServerStreamRead"}) \subseteq reading
      /\ Of(events, {"ServerStreamWrite"}) \subseteq writing
      /\ Of(events, {"CasketResponseWrite"}) \subseteq casket
  BY DEF IInv, WatchInv, WatchedRight, Of
<1>2. Of(results, {"ServerNewResponse"}) \subseteq pending
  BY DEF IInv, AwaitInv, Awaited, Has, Of
<1>3. Of(results, StreamAction) \cup pending \subseteq server_fds
  BY DEF IInv, TypeOK, OwnInv, Owned, Acted, Has, Of
<1>4. loc = "top" => Watched = Filed
  <2> SUFFICES ASSUME loc = "top", NEW tk \in Token, interest[tk] # "none"
               PROVE  IF interest[tk] = "read" THEN tk \in reg_read ELSE reg_write[tk] # "none"
    BY DEF Watched, Filed
  <2>1. events = {} /\ results = {}
    BY DEF IInv, PhaseInv
  <2> QED
    BY <2>1 DEF IInv, TypeOK, WatchInv, WatchedRight, Has
<1>5. Cardinality(resp) <= num_pending_reqs
  <2>1. resp \subseteq Outstanding
    BY OutstandingOf DEF IInv, TypeOK, AwaitInv, Awaited, AtThreads
  <2> QED
    BY <2>1, OutstandingFinite, FS_Subset DEF IInv, PendingAccounting
<1> QED
  BY <1>1, <1>2, <1>3, <1>4, <1>5 DEF ExpectsHold

(* No expect of the loop panics: not on an event or a result whose stream  *)
(* has been timed out, not on a readiness report without an event, not on  *)
(* the pending count (worker/mod.rs:131,143,154,280, poller.rs:92,100,     *)
(* pythonthreads.rs:90).                                                   *)
THEOREM NoExpectPanics == Spec => []ExpectsHold
BY Invariant, InvExpectsHold, PTL

(* num_pending_reqs, which max_requests and the exit test read, counts the *)
(* requests the threads still owe a response for, timed out ones included  *)
(* (pythonthreads.rs:52-98).                                               *)
THEOREM PendingCounted == Spec => []PendingAccounting
<1>1. IInv => PendingAccounting
  BY DEF IInv
<1> QED
  BY Invariant, <1>1, PTL

(* The loop and the threads agree on the requests that are with the        *)
(* threads: none is forgotten by a 504, none is waited for that no thread  *)
(* has, unless a thread died (pythonthreads.rs:64-98).                     *)
THEOREM LoopAndThreadsAgree == Spec => []ThreadsAgree
<1>1. ASSUME IInv PROVE ThreadsAgree
  <2>1. \A tk \in Token : tk \in WithThreads <=> AtThreads(tk)
    BY <1>1, WithThreadsOf DEF IInv
  <2>2. \A tk \in Token : tk \in Outstanding <=> Expected(tk)
    BY OutstandingOf
  <2>3. Outstanding \subseteq Token
    BY <1>1, OutstandingFinite DEF IInv
  <2>4. WithThreads \subseteq Token
    <3>1. resp \subseteq Token /\ \A t \in Thread : req_recv[t] \subseteq Token
      BY <1>1 DEF IInv, TypeOK
    <3>2. \A t \in Thread : thread[t] = "execute" => current[t] \in Token
      BY <1>1 DEF IInv, TypeOK
    <3> QED
      BY <3>1, <3>2 DEF WithThreads
  <2> QED
    BY <1>1, <2>1, <2>2, <2>3, <2>4 DEF IInv, AwaitInv, Awaited, ThreadsAgree
<1> QED
  BY Invariant, <1>1, PTL

(* An event is taken in the first phase, and at worst the worker fails.    *)
LEMMA EventStep ==
  ASSUME OnEvent PROVE loc = "events" /\ loc' \in {"events", "failed"}
BY DEF OnEvent, CtrlC, UnixStreamRead, UnixStreamWrite, UnixStreamFails, TakeCodeStarts,
       TakeHttpResponses, PythonThreadsDied, SendQueuedRequest, NewStreamFd, ServerStreamRead,
       ServerStreamWrite, CasketResponseWrite, TimerEvent, TakeStream, Take, First, Goto

(* Acting on a result does not move the loop.                              *)
LEMMA ResultStep ==
  ASSUME TypeOK, OnResult PROVE loc \in {"results", "timeoutResults"} /\ loc' = loc
BY DEF OnResult, NewServerRequest, ServerContinueRead, ServerReadDone, ServerStreamEOF,
       ServerNewResponse, ServerContinueWrite, ServerDoneWrite, ServerCasketResponseNew,
       ServerCasketResponseContinue, ServerCasketResponseDone, ServerPythonCodeTimeoutNew,
       HandleError, HandBack, CasketResponse, TakeResult

(* Where the other steps start and end.                                    *)
LEMMA OtherSteps ==
  /\ OnTimeout => loc = "timeouts" /\ loc' = "timeouts"
  /\ Threads \/ (\E tk \in Token : Dispatch(tk)) => Running /\ loc' = loc
  /\ Poll => loc = "top" /\ loc' = "events"
  /\ PollFails \/ RegistryFails => loc \notin Stopped /\ loc' = "failed"
  /\ NextPhase \/ EndRound => loc \notin Stopped /\ loc' \notin Stopped
  /\ Exit => loc = "top"
  /\ Stop => UNCHANGED vars
<1>1. OnTimeout => loc = "timeouts" /\ loc' = "timeouts"
  BY DEF OnTimeout, RequestReadTimeout, PythonCodeTimeout, TimeoutIgnored, TakeTimeout
<1>2. Threads \/ (\E tk \in Token : Dispatch(tk)) => Running /\ loc' = loc
  BY DEF Threads, SendResponse, BodyDone, ThreadDies, CodeStart, ThreadStep, Dispatch, loopVars
<1>3. Poll => loc = "top" /\ loc' = "events"
  BY DEF Poll, Tick, Interrupt, Gather
<1>4. PollFails \/ RegistryFails => loc \notin Stopped /\ loc' = "failed"
  BY DEF PollFails, RegistryFails, Goto, Stopped
<1>5. NextPhase \/ EndRound => loc \notin Stopped /\ loc' \notin Stopped
  BY DEF NextPhase, EndRound, Goto, Stopped
<1> QED
  BY <1>1, <1>2, <1>3, <1>4, <1>5, Zenon DEF Exit, Stop

(* A worker that has returned from run_worker takes no step.               *)
LEMMA NothingAfterStop ==
  ASSUME TypeOK, loc \in Stopped, [Next]_vars PROVE UNCHANGED vars
<1>1. ~OnEvent /\ ~OnResult
  BY EventStep, ResultStep DEF Stopped
<1>2. /\ ~OnTimeout /\ ~Threads /\ ~(\E tk \in Token : Dispatch(tk)) /\ ~Poll
      /\ ~PollFails /\ ~RegistryFails /\ ~NextPhase /\ ~EndRound /\ ~Exit
  BY OtherSteps DEF Stopped, Running
<1> QED
  BY <1>1, <1>2, OtherSteps, Zenon DEF Next, Loop

(* Only the exit at the top of the loop leads to "exited".                 *)
LEMMA OnlyExitExits ==
  ASSUME TypeOK, [Next]_vars, loc # "exited", loc' = "exited" PROVE Exit
<1>1. ~OnEvent /\ ~OnResult
  BY EventStep, ResultStep DEF Stopped
<1>2. /\ ~OnTimeout /\ ~Threads /\ ~(\E tk \in Token : Dispatch(tk)) /\ ~Poll
      /\ ~PollFails /\ ~RegistryFails /\ ~NextPhase /\ ~EndRound
  BY OtherSteps DEF Stopped
<1>3. ~Stop /\ ~UNCHANGED vars
  BY OtherSteps DEF vars, loopVars
<1> QED
  BY <1>1, <1>2, <1>3, Zenon DEF Next, Loop

(* The exit test lets the worker go only when nothing is queued, executing *)
(* or unanswered.                                                          *)
LEMMA ExitIdle == IInv /\ ExitedIdle /\ [Next]_vars => ExitedIdle'
<1> SUFFICES ASSUME IInv, ExitedIdle, [Next]_vars, loc' = "exited" PROVE ExitedIdle'
  BY DEF ExitedIdle
<1>1. CASE loc = "exited"
  <2>1. UNCHANGED vars
    BY <1>1, NothingAfterStop DEF IInv, Stopped
  <2> QED
    BY <1>1, <2>1 DEF ExitedIdle, vars, unixVars, loopVars, streamVars, msgVars, queueVars, threadVars
<1>2. CASE loc # "exited"
  <2>1. Exit
    BY <1>2, OnlyExitExits DEF IInv
  <2>2. /\ write_buffer = {} /\ num_pending_reqs = 0 /\ queued_reqs = {} /\ writing = {}
        /\ loc = "top"
    BY <2>1 DEF Exit, MayExit
  <2>3. Outstanding = {}
    BY <2>2, OutstandingFinite, FS_EmptySet DEF IInv, PendingAccounting
  <2>4. \A tk \in Token : ~Expected(tk)
    BY <2>3, OutstandingOf
  <2>5. pending = {} /\ timed_out_reqs = {}
    BY <2>2, <2>4 DEF IInv, PhaseInv, TypeOK, Expected, Has
  <2>6. \A t \in Thread : thread[t] # "execute"
    BY <2>4 DEF IInv, TypeOK, AwaitInv, Awaited, AtThreads, Executing
  <2> QED
    BY <2>1, <2>2, <2>5, <2>6
    DEF Exit, Goto, ExitedIdle, streamVars, msgVars, queueVars, threadVars
<1> QED
  BY <1>1, <1>2

(* When a worker has exited, no request waits for a thread, no callable is *)
(* being executed, and every response of a callable has been written or    *)
(* given up: MayExit, the exit test of worker/mod.rs:72-79, leaves out     *)
(* neither the requests that timed out nor what the threads still have.    *)
(* Iterators that are still asked for chunks, and casket's own 408, 503    *)
(* and 504, are not among these.                                           *)
THEOREM ExitsIdle == Spec => []ExitedIdle
<1>1. Init => ExitedIdle
  BY DEF Init, ExitedIdle
<1> QED
  BY Invariant, <1>1, ExitIdle, PTL DEF Spec
=============================================================================
