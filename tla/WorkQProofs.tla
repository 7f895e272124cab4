----------------------------- MODULE WorkQProofs -----------------------------
(***************************************************************************)
(* The queue is safe for any number of threads and of requests.            *)
(*                                                                         *)
(* The heart of the invariant is Ordered: seen from the sender whose turn  *)
(* it is, the counts of the senders rise by at most one on the way round.  *)
(***************************************************************************)
EXTENDS WorkQ, SequenceTheorems, TLAPS

(* The index, from 0, that the next attempt will use, in a call of send or *)
(* before it.                                                              *)
Upcoming == Wrap(IF sending THEN pos ELSE pos + 1, Len(senders))

(* In which turn index i, from 1, is served, when index u, from 0, is next  *)
(* of n; and the sender at i.                                              *)
Place(i, u, n) == IF i > u THEN i - u ELSE i - u + n
Rank(i) == Place(i, Upcoming, Len(senders))

Ordered ==
  \A i, j \in DOMAIN senders : Rank(i) <= Rank(j) =>
    /\ given[senders[i]] <= given[senders[j]]
    /\ given[senders[j]] <= given[senders[i]] + 1

(* The sender has the threads that live, each once.                        *)
Known ==
  /\ \A i, j \in DOMAIN senders : senders[i] = senders[j] => i = j
  /\ \A t \in alive : \E i \in DOMAIN senders : senders[i] = t
  /\ \A i \in DOMAIN senders : senders[i] <= created

(* The position is that of a sender, or one beyond it in a call of send.   *)
PosOK == senders # << >> => pos < Len(senders) \/ (sending /\ pos = Len(senders))

(* Nothing is sent while threads are still spawned.                        *)
Spawning ==
  created < NumThreads => result = "none" /\ pos = 0 /\ \A t \in Thread : given[t] = 0

IInv == TypeOK /\ Known /\ PosOK /\ Spawning /\ FailsOnlyWithoutThreads /\ Ordered

-----------------------------------------------------------------------------
(* Vec::remove leaves a vector shorter by one: what was before the gap     *)
(* stays, what was after it moves up (workq.rs:41).                        *)
LEMMA Removed ==
  ASSUME NEW S, NEW s \in Seq(S), NEW p \in Nat, s # << >>
  PROVE  /\ RemoveAt(s, p) \in Seq(S)
         /\ Len(RemoveAt(s, p)) = Len(s) - 1
         /\ \A i \in 1 .. Len(s) - 1 : RemoveAt(s, p)[i] = IF i <= p THEN s[i] ELSE s[i + 1]
<1> DEFINE n == Len(s) - 1
           r == [i \in 1 .. n |-> IF i <= p THEN s[i] ELSE s[i + 1]]
<1>1. n \in Nat
  BY EmptySeq
<1>2. \A i \in 1 .. n : s[i] \in S /\ s[i + 1] \in S
  <2>1. Len(s) \in Nat /\ \A i \in 1 .. Len(s) : s[i] \in S
    BY ElementOfSeq, LenProperties
  <2> QED BY <1>1, <2>1
<1>3. r \in [1 .. n -> S]
  BY <1>2
<1>4. r \in Seq(S)
  BY <1>1, <1>3, SeqDef
<1>5. Len(r) = n
  BY <1>1, <1>3, <1>4, LenProperties
<1> QED BY <1>4, <1>5 DEF RemoveAt

(* Wrap gives an index.                                                    *)
LEMMA Wraps ==
  ASSUME NEW p \in Nat, NEW n \in Nat \ {0}, p < n \/ p = n
  PROVE  Wrap(p, n) \in 0 .. n - 1
BY DEF Wrap

(* The one that is served goes from the first place to the last, and the   *)
(* others move up.                                                         *)
LEMMA Served ==
  ASSUME NEW n \in Nat \ {0}, NEW p \in 0 .. n - 1, NEW k \in 1 .. n
  PROVE  /\ Place(k, p, n) \in 1 .. n
         /\ k = p + 1 <=> Place(k, p, n) = 1
         /\ Place(k, Wrap(p + 1, n), n) = IF k = p + 1 THEN n ELSE Place(k, p, n) - 1
<1>1. CASE p + 1 = n
  BY <1>1 DEF Wrap, Place
<1>2. CASE p + 1 < n
  BY <1>2 DEF Wrap, Place
<1> QED BY <1>1, <1>2

(* When the one whose turn it is is removed the others move up.            *)
LEMMA MovedUp ==
  ASSUME NEW n \in Nat \ {0}, NEW p \in 0 .. n - 1, NEW k \in 1 .. n - 1
  PROVE  Place(k, Wrap(p, n - 1), n - 1) = Place(IF k <= p THEN k ELSE k + 1, p, n) - 1
<1>1. CASE p = n - 1
  BY <1>1 DEF Wrap, Place
<1>2. CASE p < n - 1
  BY <1>2 DEF Wrap, Place
<1> QED BY <1>1, <1>2

(* The index that is tried, and the thread it gives, when there is any.    *)
LEMMA Tries ==
  ASSUME TypeOK, PosOK, sending, senders # << >>
  PROVE  /\ Tried \in 0 .. Len(senders) - 1
         /\ Len(senders) \in Nat \ {0} /\ DOMAIN senders = 1 .. Len(senders)
         /\ Tried + 1 \in DOMAIN senders
         /\ Turn \in Thread
         /\ Upcoming = Tried
<1>1. Len(senders) \in Nat \ {0} /\ DOMAIN senders = 1 .. Len(senders)
  BY EmptySeq, LenProperties DEF TypeOK
<1>2. Tried \in 0 .. Len(senders) - 1
  <2>1. pos \in Nat
    BY DEF TypeOK
  <2>2. pos < Len(senders) \/ pos = Len(senders)
    BY DEF PosOK
  <2> QED BY <1>1, <2>1, <2>2, Wraps DEF Tried
<1>3. Turn \in Thread
  BY <1>1, <1>2, ElementOfSeq DEF TypeOK, Turn
<1> QED BY <1>1, <1>2, <1>3 DEF Upcoming, Tried

-----------------------------------------------------------------------------
(* The types are kept by every step.                                       *)
LEMMA TypeStep == TypeOK /\ [Next]_vars => TypeOK'
<1> SUFFICES ASSUME TypeOK, [Next]_vars PROVE TypeOK'
  OBVIOUS
<1> USE WorkQAssumption DEF TypeOK, Thread
<1>1. CASE NewRecv
  <2>1. senders' \in Seq(Thread)
    BY <1>1, AppendProperties DEF NewRecv
  <2> QED BY <1>1, <2>1 DEF NewRecv
<1>2. ASSUME NEW t \in Thread, Die(t) PROVE TypeOK'
  BY <1>2 DEF Die
<1>3. CASE Send
  BY <1>3 DEF Send, sending
<1>4. CASE Deliver
  <2>1. Tried \in Nat
    BY LenProperties DEF Tried, Wrap
  <2>2. Turn \in Thread
    BY <1>4 DEF Deliver
  <2> QED BY <1>4, <2>1, <2>2 DEF Deliver
<1>5. CASE Drop
  <2>1. Tried \in Nat
    BY LenProperties DEF Tried, Wrap
  <2>2. senders' \in Seq(Thread)
    BY <1>5, <2>1, Removed DEF Drop
  <2> QED BY <1>5, <2>1, <2>2 DEF Drop
<1>6. CASE Fail
  BY <1>6 DEF Fail
<1>7. CASE UNCHANGED vars
  BY <1>7 DEF vars
<1> QED BY <1>1, <1>2, <1>3, <1>4, <1>5, <1>6, <1>7 DEF Next, SendLoop, Stop

(* Type correctness of the queue (workq.rs:14-17).                         *)
THEOREM TypeCorrect == Spec => []TypeOK
<1>1. Init => TypeOK
  BY WorkQAssumption, EmptySeq DEF Init, TypeOK, Thread
<1> QED BY <1>1, TypeStep, PTL DEF Spec

-----------------------------------------------------------------------------
(* The senders keep the threads that live: only one found dead is removed  *)
(* (workq.rs:36-41).                                                       *)
LEMMA KnownStep == TypeOK /\ PosOK /\ Known /\ [Next]_vars => Known'
<1> SUFFICES ASSUME TypeOK, PosOK, Known, [Next]_vars PROVE Known'
  OBVIOUS
<1>0. Len(senders) \in Nat /\ DOMAIN senders = 1 .. Len(senders)
  BY LenProperties DEF TypeOK
<1>1. CASE NewRecv
  <2>1. /\ Len(senders') = Len(senders) + 1 /\ DOMAIN senders' = 1 .. Len(senders) + 1
        /\ \A i \in 1 .. Len(senders) : senders'[i] = senders[i]
        /\ senders'[Len(senders) + 1] = created + 1
    BY <1>0, <1>1, AppendProperties DEF NewRecv, TypeOK, Thread
  <2>2. \A i \in DOMAIN senders : senders[i] \in Thread /\ senders[i] <= created
    BY <1>0, ElementOfSeq DEF Known, TypeOK
  <2>3. \A i, j \in DOMAIN senders' : senders'[i] = senders'[j] => i = j
    BY <1>0, <2>1, <2>2 DEF Known, TypeOK, Thread
  <2>4. \A t \in alive' : \E i \in DOMAIN senders' : senders'[i] = t
    BY <1>0, <1>1, <2>1 DEF NewRecv, Known
  <2>5. \A i \in DOMAIN senders' : senders'[i] <= created'
    BY <1>0, <1>1, <2>1, <2>2 DEF NewRecv, TypeOK, Thread
  <2> QED BY <2>3, <2>4, <2>5 DEF Known
<1>2. ASSUME NEW t \in Thread, Die(t) PROVE Known'
  BY <1>2 DEF Die, Known
<1>3. CASE Send
  BY <1>3 DEF Send, Known
<1>4. CASE Deliver
  BY <1>4 DEF Deliver, Known
<1>5. CASE Drop
  <2>1. /\ Tried \in 0 .. Len(senders) - 1 /\ Len(senders) \in Nat \ {0}
        /\ Turn \notin alive /\ senders # << >>
    BY <1>5, Tries DEF Drop
  <2>2. /\ DOMAIN senders' = 1 .. Len(senders) - 1
        /\ \A i \in 1 .. Len(senders) - 1 :
             senders'[i] = IF i <= Tried THEN senders[i] ELSE senders[i + 1]
    <3>1. Tried \in Nat /\ senders \in Seq(Thread)
      BY <2>1 DEF TypeOK
    <3> QED BY <1>5, <2>1, <3>1, Removed, LenProperties DEF Drop
  <2>3. \A i, j \in DOMAIN senders' : senders'[i] = senders'[j] => i = j
    BY <1>0, <2>1, <2>2 DEF Known
  <2>4. ASSUME NEW t \in alive' PROVE \E i \in DOMAIN senders' : senders'[i] = t
    <3>1. PICK i \in DOMAIN senders : senders[i] = t
      BY <1>5 DEF Drop, Known
    <3>2. i # Tried + 1
      BY <1>5, <2>1, <3>1 DEF Drop, Turn
    <3>3. CASE i <= Tried
      BY <1>0, <2>1, <2>2, <3>1, <3>3
    <3>4. CASE i > Tried
      <4>1. i - 1 \in DOMAIN senders' /\ senders'[i - 1] = senders[i]
        BY <1>0, <2>1, <2>2, <3>1, <3>2, <3>4
      <4> QED BY <3>1, <4>1
    <3> QED BY <1>0, <2>1, <3>3, <3>4
  <2>5. \A i \in DOMAIN senders' : senders'[i] <= created'
    BY <1>0, <1>5, <2>1, <2>2 DEF Drop, Known
  <2> QED BY <2>3, <2>4, <2>5 DEF Known
<1>6. CASE Fail
  BY <1>6 DEF Fail, Known
<1>7. CASE UNCHANGED vars
  BY <1>7 DEF vars, Known
<1> QED BY <1>1, <1>2, <1>3, <1>4, <1>5, <1>6, <1>7 DEF Next, SendLoop, Stop

(* The position stays within the vector, and one beyond it only between    *)
(* the increment and the loop (workq.rs:29-34).                            *)
LEMMA PosStep ==
  TypeOK /\ TypeOK' /\ Spawning /\ PosOK /\ [Next]_vars => PosOK'
<1> SUFFICES ASSUME TypeOK, TypeOK', Spawning, PosOK, [Next]_vars PROVE PosOK'
  OBVIOUS
<1>0. /\ Len(senders) \in Nat /\ Len(senders') \in Nat
      /\ senders # << >> => Len(senders) \in Nat \ {0}
      /\ senders' # << >> => Len(senders') \in Nat \ {0}
  BY EmptySeq DEF TypeOK
<1>1. CASE NewRecv
  <2>1. pos' = 0
    BY <1>1 DEF NewRecv, Spawning
  <2> QED BY <1>0, <2>1 DEF PosOK
<1>2. ASSUME NEW t \in Thread, Die(t) PROVE PosOK'
  BY <1>2 DEF Die, PosOK, sending
<1>3. CASE Send
  BY <1>0, <1>3 DEF Send, PosOK, TypeOK, sending
<1>4. CASE Deliver
  <2>1. Tried \in 0 .. Len(senders) - 1
    BY <1>4, Tries DEF Deliver
  <2> QED BY <1>0, <1>4, <2>1 DEF Deliver, PosOK
<1>5. CASE Drop
  <2>1. Tried \in 0 .. Len(senders) - 1 /\ Tried \in Nat /\ senders # << >>
    BY <1>0, <1>5, Tries DEF Drop
  <2>2. Len(senders') = Len(senders) - 1
    BY <1>5, <2>1, Removed DEF Drop, TypeOK
  <2> QED BY <1>0, <1>5, <2>1, <2>2 DEF Drop, PosOK, sending
<1>6. CASE Fail
  BY <1>6 DEF Fail, PosOK
<1>7. CASE UNCHANGED vars
  BY <1>7 DEF vars, PosOK, sending
<1> QED BY <1>1, <1>2, <1>3, <1>4, <1>5, <1>6, <1>7 DEF Next, SendLoop, Stop

(* Until spawn returns nothing is sent, and the sender has a thread to give *)
(* up for each one that has ended.                                         *)
LEMMA SpawningStep == TypeOK /\ Spawning /\ [Next]_vars => Spawning'
<1> SUFFICES ASSUME TypeOK, Spawning, [Next]_vars PROVE Spawning'
  OBVIOUS
<1> USE WorkQAssumption DEF Spawning, Thread, TypeOK
<1>1. CASE NewRecv
  BY <1>1 DEF NewRecv
<1>2. ASSUME NEW t \in Thread, Die(t) PROVE Spawning'
  BY <1>2 DEF Die
<1>3. CASE Send
  BY <1>3 DEF Send
<1>4. CASE SendLoop
  <2>1. created = NumThreads /\ created' = created
    BY <1>4 DEF SendLoop, Deliver, Drop, Fail, sending
  <2> QED BY <2>1
<1>5. CASE UNCHANGED vars
  BY <1>5 DEF vars
<1> QED BY <1>1, <1>2, <1>3, <1>4, <1>5 DEF Next, Stop

(* A call fails only when the sender has no thread left (workq.rs:31-44).  *)
LEMMA FailsStep ==
  Known /\ Spawning /\ FailsOnlyWithoutThreads /\ [Next]_vars => FailsOnlyWithoutThreads'
<1> SUFFICES ASSUME Known, Spawning, FailsOnlyWithoutThreads, [Next]_vars
             PROVE  FailsOnlyWithoutThreads'
  OBVIOUS
<1> USE DEF FailsOnlyWithoutThreads
<1>1. CASE NewRecv
  BY <1>1 DEF NewRecv, Spawning
<1>2. ASSUME NEW t \in Thread, Die(t) PROVE FailsOnlyWithoutThreads'
  BY <1>2 DEF Die
<1>3. CASE Send
  BY <1>3 DEF Send
<1>4. CASE Deliver
  BY <1>4 DEF Deliver
<1>5. CASE Drop
  BY <1>5 DEF Drop
<1>6. CASE Fail
  <2>1. DOMAIN senders = {}
    BY <1>6 DEF Fail
  <2> QED BY <1>6, <2>1 DEF Fail, Known
<1>7. CASE UNCHANGED vars
  BY <1>7 DEF vars
<1> QED BY <1>1, <1>2, <1>3, <1>4, <1>5, <1>6, <1>7 DEF Next, SendLoop, Stop

(* Round robin: the one that is served goes to the end of the round, and   *)
(* the one that is removed leaves the others in their order.               *)
LEMMA OrderStep ==
  TypeOK /\ TypeOK' /\ Known /\ PosOK /\ Spawning /\ Ordered /\ [Next]_vars => Ordered'
<1> SUFFICES ASSUME TypeOK, TypeOK', Known, PosOK, Spawning, Ordered, [Next]_vars
             PROVE  Ordered'
  OBVIOUS
<1>0. /\ Len(senders) \in Nat /\ DOMAIN senders = 1 .. Len(senders)
      /\ Len(senders') \in Nat /\ DOMAIN senders' = 1 .. Len(senders')
      /\ \A i \in DOMAIN senders : senders[i] \in Thread /\ given[senders[i]] \in Nat
      /\ \A i \in DOMAIN senders' : senders'[i] \in Thread
  BY LenProperties, ElementOfSeq DEF TypeOK
<1>1. CASE NewRecv
  <2>1. \A t \in Thread : given'[t] = 0
    BY <1>1 DEF NewRecv, Spawning
  <2> QED BY <1>0, <2>1 DEF Ordered
<1>2. ASSUME NEW t \in Thread, Die(t) PROVE Ordered'
  BY <1>2 DEF Die, Ordered, Rank, Place, Upcoming, sending
<1>3. CASE Send
  <2>1. Upcoming' = Upcoming
    BY <1>3 DEF Send, Upcoming, sending
  <2> QED BY <1>3, <2>1 DEF Send, Ordered, Rank
<1>4. CASE Deliver
  <2> DEFINE n == Len(senders)
             p == Tried
  <2>1. /\ p \in 0 .. n - 1 /\ n \in Nat \ {0} /\ p + 1 \in DOMAIN senders
        /\ Upcoming = p /\ senders' = senders
    BY <1>4, Tries DEF Deliver
  <2>2. Upcoming' = Wrap(p + 1, n)
    BY <1>4 DEF Deliver, Upcoming, sending
  <2>3. \A i \in DOMAIN senders :
          given'[senders[i]] = IF i = p + 1 THEN given[senders[i]] + 1 ELSE given[senders[i]]
    BY <1>0, <1>4, <2>1 DEF Deliver, Turn, Known, TypeOK
  <2> SUFFICES ASSUME NEW i \in DOMAIN senders, NEW j \in DOMAIN senders, Rank(i)' <= Rank(j)'
               PROVE  /\ given'[senders[i]] <= given'[senders[j]]
                      /\ given'[senders[j]] <= given'[senders[i]] + 1
    BY <2>1 DEF Ordered
  <2>4. ASSUME NEW k \in DOMAIN senders
        PROVE  /\ Rank(k) \in 1 .. n /\ (k = p + 1 <=> Rank(k) = 1)
               /\ Rank(k)' = IF k = p + 1 THEN n ELSE Rank(k) - 1
    <3>1. k \in 1 .. n
      BY <1>0
    <3>2. Rank(k) = Place(k, p, n)
      BY <2>1 DEF Rank
    <3>3. Rank(k)' = Place(k, Wrap(p + 1, n), n)
      BY <2>1, <2>2 DEF Rank
    <3>4. /\ Place(k, p, n) \in 1 .. n
          /\ k = p + 1 <=> Place(k, p, n) = 1
          /\ Place(k, Wrap(p + 1, n), n) = IF k = p + 1 THEN n ELSE Place(k, p, n) - 1
      BY <2>1, <3>1, Served
    <3> QED BY <3>2, <3>3, <3>4
  <2>5. CASE i = p + 1 /\ j = p + 1
    BY <1>0, <2>3, <2>5
  <2>7. CASE i # p + 1 /\ j # p + 1
    <3>1. Rank(i) <= Rank(j)
      BY <2>4, <2>7
    <3> QED BY <2>3, <2>7, <3>1 DEF Ordered
  <2>8. CASE i = p + 1 /\ j # p + 1
    BY <2>1, <2>4, <2>8
  <2>9. CASE i # p + 1 /\ j = p + 1
    <3>1. Rank(j) <= Rank(i)
      BY <2>4, <2>9
    <3> QED BY <1>0, <2>3, <2>9, <3>1 DEF Ordered
  <2> QED BY <2>5, <2>7, <2>8, <2>9
<1>5. CASE Drop
  <2> DEFINE n == Len(senders)
             p == Tried
             old(i) == IF i <= p THEN i ELSE i + 1
  <2>1. /\ p \in 0 .. n - 1 /\ n \in Nat \ {0} /\ Upcoming = p /\ senders # << >>
    BY <1>5, Tries DEF Drop
  <2>2. /\ Len(senders') = n - 1
        /\ \A i \in 1 .. n - 1 : senders'[i] = senders[old(i)]
    <3>1. p \in Nat /\ senders \in Seq(Thread)
      BY <2>1 DEF TypeOK
    <3> QED BY <1>5, <2>1, <3>1, Removed DEF Drop
  <2>3. Upcoming' = Wrap(p, n - 1)
    BY <1>5, <2>2 DEF Drop, Upcoming, sending
  <2> SUFFICES ASSUME NEW i \in 1 .. n - 1, NEW j \in 1 .. n - 1, Rank(i)' <= Rank(j)'
               PROVE  /\ given[senders[old(i)]] <= given[senders[old(j)]]
                      /\ given[senders[old(j)]] <= given[senders[old(i)]] + 1
    BY <1>0, <1>5, <2>2 DEF Ordered, Drop
  <2>4. \A k \in 1 .. n - 1 :
          /\ old(k) \in DOMAIN senders
          /\ Rank(k)' = Rank(old(k)) - 1
    BY <1>0, <2>1, <2>2, <2>3, MovedUp DEF Rank
  <2>5. Rank(old(i)) <= Rank(old(j))
    <3>1. \A k \in DOMAIN senders : Rank(k) \in Int
      BY <1>0, <2>1 DEF Rank, Place
    <3> QED BY <2>4, <3>1
  <2> QED BY <2>4, <2>5 DEF Ordered
<1>6. CASE Fail
  <2>1. DOMAIN senders' = {}
    BY <1>6 DEF Fail
  <2> QED BY <2>1 DEF Ordered
<1>7. CASE UNCHANGED vars
  BY <1>7 DEF vars, Ordered, Rank, Place, Upcoming, sending
<1> QED BY <1>1, <1>2, <1>3, <1>4, <1>5, <1>6, <1>7 DEF Next, SendLoop, Stop

-----------------------------------------------------------------------------
(* The invariant holds in every state.                                     *)
THEOREM Invariant == Spec => []IInv
<1>1. Init => IInv
  <2> SUFFICES ASSUME Init PROVE IInv
    OBVIOUS
  <2>1. TypeOK
    BY WorkQAssumption, EmptySeq DEF Init, TypeOK, Thread
  <2>2. DOMAIN senders = {}
    BY DEF Init
  <2> QED BY <2>1, <2>2 DEF Init, IInv, Known, PosOK, Spawning, FailsOnlyWithoutThreads, Ordered, Thread
<1>2. IInv /\ [Next]_vars => IInv'
  BY TypeStep, KnownStep, PosStep, SpawningStep, FailsStep, OrderStep DEF IInv
<1> QED BY <1>1, <1>2, PTL DEF Spec

(* No index of senders in send panics (workq.rs:36, 41).                   *)
THEOREM NoIndexPanics == Spec => []IndexInBounds
<1>1. IInv => IndexInBounds
  BY Tries DEF IInv, IndexInBounds
<1> QED BY <1>1, Invariant, PTL

(* A request is refused only when every thread has ended (workq.rs:44).    *)
THEOREM RefusedWithoutThreads == Spec => []FailsOnlyWithoutThreads
<1>1. IInv => FailsOnlyWithoutThreads
  BY DEF IInv
<1> QED BY <1>1, Invariant, PTL

(* Requests are dealt out evenly, whatever threads end (workq.rs:29-41).   *)
THEOREM DealtEvenly == Spec => []Balanced
<1>1. IInv => Balanced
  <2> SUFFICES ASSUME IInv, NEW i \in DOMAIN senders, NEW j \in DOMAIN senders
               PROVE  given[senders[i]] <= given[senders[j]] + 1
    BY DEF Balanced
  <2>1. /\ given[senders[i]] \in Nat /\ given[senders[j]] \in Nat
        /\ Rank(i) \in Int /\ Rank(j) \in Int
    <3>1. Len(senders) \in Nat /\ DOMAIN senders = 1 .. Len(senders)
      BY LenProperties DEF IInv, TypeOK
    <3>2. senders[i] \in Thread /\ senders[j] \in Thread
      BY <3>1, ElementOfSeq DEF IInv, TypeOK
    <3>3. Upcoming \in Int
      BY <3>1 DEF IInv, TypeOK, Upcoming, Wrap
    <3> QED BY <3>1, <3>2, <3>3 DEF IInv, TypeOK, Rank, Place
  <2>2. CASE Rank(i) <= Rank(j)
    BY <2>1, <2>2 DEF IInv, Ordered
  <2>3. CASE Rank(j) <= Rank(i)
    BY <2>1, <2>3 DEF IInv, Ordered
  <2> QED BY <2>1, <2>2, <2>3
<1> QED BY <1>1, Invariant, PTL
=============================================================================
