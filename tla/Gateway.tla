------------------------------- MODULE Gateway -------------------------------
(***************************************************************************)
(* What the server does for its clients, told without tokens, maps or      *)
(* workers: it lets at most Limit of them in, gives a stream away when     *)
(* its client has sent something, and takes it back, to keep or to close   *)
(* it, as the verdict on the request says and never before there is one.   *)
(* A shutdown waits for the streams it has given away, and gives them up   *)
(* only when the time it waits is over.                                    *)
(***************************************************************************)
EXTENDS Naturals, FiniteSets

CONSTANTS Client, Limit

VARIABLES
  conn,       (* "new", "backlog", "idle", "busy" or "closed"                *)
  verdict,    (* on the request of a busy stream: "none", "keep" or "close"  *)
  closing,    (* the server is shutting down                                *)
  expired     (* it has waited for the busy streams as long as it may       *)

vars == <<conn, verdict, closing, expired>>

Init ==
  /\ conn = [c \in Client |-> "new"]
  /\ verdict = [c \in Client |-> "none"]
  /\ closing = FALSE /\ expired = FALSE

In(state) == {c \in Client : conn[c] = state}
Put(C, state) == conn' = [c \in Client |-> IF c \in C THEN state ELSE conn[c]]
Forget(c) == verdict' = [verdict EXCEPT ![c] = "none"]

Connect(c) == conn[c] = "new" /\ Put({c}, "backlog") /\ UNCHANGED <<verdict, closing, expired>>

Admit(c) ==
  /\ conn[c] = "backlog" /\ Cardinality(In("idle") \cup In("busy")) < Limit
  /\ Put({c}, "idle") /\ UNCHANGED <<verdict, closing, expired>>

(* A newcomer beyond the limit, or whose registration fails.               *)
TurnAway(c) == conn[c] = "backlog" /\ Put({c}, "closed") /\ UNCHANGED <<verdict, closing, expired>>

GiveAway(c) == conn[c] = "idle" /\ Put({c}, "busy") /\ UNCHANGED <<verdict, closing, expired>>

(* An idle stream that can no longer be watched.                           *)
Drop(c) == conn[c] = "idle" /\ Put({c}, "closed") /\ UNCHANGED <<verdict, closing, expired>>

Judge(c, v) ==
  /\ conn[c] = "busy" /\ verdict[c] = "none" /\ v \in {"keep", "close"}
  /\ verdict' = [verdict EXCEPT ![c] = v]
  /\ UNCHANGED <<conn, closing, expired>>

Keep(c) ==
  /\ conn[c] = "busy" /\ verdict[c] = "keep" /\ ~closing
  /\ Put({c}, "idle") /\ Forget(c) /\ UNCHANGED <<closing, expired>>

(* A stream that is kept may have to be closed all the same.               *)
Close(c) ==
  /\ conn[c] = "busy" /\ verdict[c] # "none"
  /\ Put({c}, "closed") /\ Forget(c) /\ UNCHANGED <<closing, expired>>

(* The idle streams are given up; a newcomer whose connection was reported *)
(* together with the signal may still be let in (server/mod.rs:136-167).   *)
ShutDown ==
  /\ ~closing /\ closing' = TRUE
  /\ Put(In("idle"), "closed") /\ UNCHANGED <<verdict, expired>>

(* ctrlc_wait_time passes; until then every busy stream is waited for.     *)
WaitEnds ==
  /\ closing /\ ~expired /\ expired' = TRUE
  /\ UNCHANGED <<conn, verdict, closing>>

(* The busy streams are given up, all of them.                             *)
Halt ==
  /\ closing /\ expired /\ Put(In("busy"), "closed")
  /\ verdict' = [c \in Client |-> "none"] /\ UNCHANGED <<closing, expired>>

Next ==
  \/ ShutDown \/ WaitEnds \/ Halt
  \/ \E c \in Client :
       \/ Connect(c) \/ Admit(c) \/ TurnAway(c) \/ GiveAway(c) \/ Drop(c)
       \/ Judge(c, "keep") \/ Judge(c, "close") \/ Keep(c) \/ Close(c)

Spec == Init /\ [][Next]_vars
=============================================================================
