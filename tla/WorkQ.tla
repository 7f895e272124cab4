-------------------------------- MODULE WorkQ --------------------------------
(***************************************************************************)
(* The queue in front of the python threads: src/workq.rs, as spawn and    *)
(* run of src/pythonexec/mod.rs use it.                                    *)
(*                                                                         *)
(* The sender deals requests out round robin, to one mpsc channel for each *)
(* thread.  A thread may end at any time, between two attempts of one send *)
(* as well; the next attempt to use its channel finds it closed.           *)
(***************************************************************************)
EXTENDS Integers, Sequences

CONSTANTS
  NumThreads,           (* cfg.num_threads                                   *)
  MaxSends              (* bound: calls of send                              *)

ASSUME WorkQAssumption == NumThreads \in Nat \ {0} /\ MaxSends \in Nat

VARIABLES
  created,      (* threads spawned                                           *)
  alive,        (* of these, the ones that still have their receiver         *)
  pos,
  senders,      (* the threads whose channels the sender still has           *)
  calls,        (* calls of send                                             *)
  result,       (* of the last call: "none" before it, "running", "ok", "err" *)
  given         (* history: how many requests each thread has been given     *)

vars == <<created, alive, pos, senders, calls, result, given>>

Thread == 1 .. NumThreads
sending == result = "running"

Init ==
  /\ created = 0 /\ alive = {} /\ pos = 0 /\ senders = << >>
  /\ calls = 0 /\ result = "none" /\ given = [t \in Thread |-> 0]

-----------------------------------------------------------------------------
(* Mutant: the thread is numbered from 0.                                  *)
NewRecv_FromZero ==
  /\ created < NumThreads
  /\ created' = created + 1
  /\ senders' = Append(senders, created)
  /\ alive' = alive \cup {created}
  /\ UNCHANGED <<pos, calls, result, given>>

(* spawn creates the threads one after the other, new_recv for each; the   *)
(* sender is not used before it has returned.                              *)
NewRecv ==
  /\ created < NumThreads
  /\ created' = created + 1
  /\ senders' = Append(senders, created + 1)
  /\ alive' = alive \cup {created + 1}
  /\ UNCHANGED <<pos, calls, result, given>>

(* A thread ends, and its receiver goes.                                   *)
Die(t) ==
  /\ t \in alive
  /\ alive' = alive \ {t}
  /\ UNCHANGED <<created, pos, senders, calls, result, given>>

(* send up to its loop.                                                    *)
Send ==
  /\ created = NumThreads /\ ~sending /\ calls < MaxSends
  /\ calls' = calls + 1
  /\ pos' = pos + 1
  /\ result' = "running"
  /\ UNCHANGED <<created, alive, senders, given>>

(* Mutants: the end of the vector is noticed late; the sender is not       *)
(* removed.                                                                *)
Wrap_Late(p, n) == IF p > n THEN 0 ELSE p
RemoveAt_Keeps(s, p) == s

(* The position goes back to 0 at the end of the vector.                   *)
Wrap(p, n) == IF p = n THEN 0 ELSE p

(* Vec::remove, with p counted from 0.                                     *)
RemoveAt(s, p) == [i \in 1 .. Len(s) - 1 |-> IF i <= p THEN s[i] ELSE s[i + 1]]

(* What a turn of the loop tries, an index from 0.                         *)
Tried == Wrap(pos, Len(senders))
Turn == senders[Tried + 1]

Deliver ==
  /\ sending /\ senders # << >> /\ Turn \in alive
  /\ pos' = Tried
  /\ given' = [given EXCEPT ![Turn] = @ + 1]
  /\ result' = "ok"
  /\ UNCHANGED <<created, alive, senders, calls>>

(* Mutant: the sender that moves up into the gap loses its turn.           *)
Drop_Advances ==
  /\ sending /\ senders # << >> /\ Turn \notin alive
  /\ pos' = Wrap(Tried + 1, Len(senders))
  /\ senders' = RemoveAt(senders, Tried)
  /\ UNCHANGED <<created, alive, calls, result, given>>

(* The channel of a thread that has ended is given up, and the sender that *)
(* moves up into its place is tried next.                                  *)
Drop ==
  /\ sending /\ senders # << >> /\ Turn \notin alive
  /\ pos' = Tried
  /\ senders' = RemoveAt(senders, Tried)
  /\ UNCHANGED <<created, alive, calls, result, given>>

(* Mutant: the call gives up with the first thread that has ended.         *)
Fail_First ==
  /\ sending /\ (senders = << >> \/ Turn \notin alive)
  /\ result' = "err"
  /\ UNCHANGED <<created, alive, pos, senders, calls, given>>

Fail ==
  /\ sending /\ senders = << >>
  /\ result' = "err"
  /\ UNCHANGED <<created, alive, pos, senders, calls, given>>

(* No request comes any more.                                              *)
Stop == created = NumThreads /\ calls = MaxSends /\ ~sending /\ UNCHANGED vars

SendLoop == Deliver \/ Drop \/ Fail
Next == NewRecv \/ Send \/ SendLoop \/ Stop \/ \E t \in Thread : Die(t)

Spec == Init /\ [][Next]_vars
FairSpec == Spec /\ WF_vars(SendLoop)

-----------------------------------------------------------------------------
(* The state of the queue has the types of workq.rs:14-17, and the sender  *)
(* knows no thread that was not spawned.                                   *)
TypeOK ==
  /\ created \in 0 .. NumThreads /\ alive \subseteq 1 .. created
  /\ pos \in Nat /\ senders \in Seq(Thread)
  /\ calls \in 0 .. MaxSends /\ result \in {"none", "running", "ok", "err"}
  /\ given \in [Thread -> Nat]

(* The index self.senders[self.pos] of workq.rs:36 does not panic, however *)
(* many senders were removed before it.                                    *)
IndexInBounds == sending /\ senders # << >> => Tried + 1 \in DOMAIN senders

(* send fails only when every thread has ended (workq.rs:31-44), which is  *)
(* when the worker gives up: a dead thread costs no other its requests.    *)
FailsOnlyWithoutThreads == result = "err" => alive = {}

(* Round robin: the threads of the sender have been given the same number  *)
(* of requests, give or take one, whichever others were removed on the way *)
(* (workq.rs:29-41).                                                       *)
Balanced ==
  \A i, j \in DOMAIN senders : given[senders[i]] <= given[senders[j]] + 1

(* A call of send comes to an end (workq.rs:31-44).                        *)
SendEnds == sending ~> ~sending
=============================================================================
