--------------------------- MODULE ExchangeProofs ---------------------------
(***************************************************************************)
(* The safety properties of Exchange, for any clients, streams, requests,  *)
(* sizes and bounds: IInv of ExchangeInv holds at the start and is kept by *)
(* every step, and each property follows from it.                          *)
(***************************************************************************)
EXTENDS ExchangeInv, WellFoundedInduction, TLAPS

-----------------------------------------------------------------------------
(* Numbers, sequences, and what is sent on a stream.  Induction is by least*)
(* counterexample: a set of numbers that is not empty has a least one.     *)

(* The constants are numbers, and no request is NONE.                      *)
LEMMA Constants ==
  /\ NumRequests \in Nat \ {0} /\ NumStreams \in Nat \ {0} /\ HeaderSize \in Nat \ {0}
  /\ BufferSize \in Nat \ {0} /\ HeaderRoom \in Nat \ {0}
  /\ Request \subseteq Nat \ {0} /\ NONE \notin Request
<1>1. /\ NumRequests \in Nat \ {0} /\ NumStreams \in Nat \ {0} /\ HeaderSize \in Nat \ {0}
      /\ BufferSize \in Nat \ {0} /\ HeaderRoom \in 1 .. BufferSize
  BY ExchangeAssumption
<1> QED
  BY <1>1 DEF Request, NONE

-----------------------------------------------------------------------------
(* Induction: what fails for a number fails for a least one.               *)
LEMMA NatLeast ==
  ASSUME NEW T \in SUBSET Nat, T # {}
  PROVE  \E m \in T : \A n \in T : m <= n
<1>1. PICK m \in T : \A n \in T : <<n, m>> \notin OpToRel(<, Nat)
  BY NatLessThanWellFounded, WFMin
<1>2. ASSUME NEW n \in T PROVE m <= n
  <2>1. ~(n < m)
    BY <1>1 DEF OpToRel
  <2> QED
    BY <2>1
<1> QED
  BY <1>2

(* A set that has 0 and, with every number below k, the next one, has all  *)
(* up to k.                                                                *)
LEMMA UpTo ==
  ASSUME NEW k \in Nat, NEW T, 0 \in T, \A n \in Nat : n < k /\ n \in T => n + 1 \in T
  PROVE  0 .. k \subseteq T
<1> DEFINE F == {n \in 0 .. k : n \notin T}
<1>1. SUFFICES ASSUME F # {} PROVE FALSE
  OBVIOUS
<1>2. F \in SUBSET Nat
  OBVIOUS
<1>3. PICK m \in F : \A n \in F : m <= n
  <2> HIDE DEF F
  <2> QED
    BY <1>1, <1>2, NatLeast
<1>4. m # 0 /\ m - 1 \in Nat /\ m - 1 < k
  BY <1>3
<1>5. m - 1 \notin F
  BY <1>2, <1>3, <1>4
<1> QED
  BY <1>3, <1>4, <1>5

-----------------------------------------------------------------------------
(* Sequences.                                                              *)

(* One after the other.                                                    *)
LEMMA Joined ==
  ASSUME NEW S, NEW x \in Seq(S), NEW y \in Seq(S)
  PROVE  /\ x \o y \in Seq(S) /\ Len(x) \in Nat /\ Len(y) \in Nat /\ Len(x \o y) = Len(x) + Len(y)
         /\ \A i \in 1 .. Len(x) : (x \o y)[i] = x[i]
         /\ \A i \in 1 .. Len(y) : (x \o y)[Len(x) + i] = y[i]
<1>1. x \o y \in Seq(S) /\ Len(x) \in Nat /\ Len(y) \in Nat /\ Len(x \o y) = Len(x) + Len(y)
      /\ \A i \in 1 .. Len(x) : (x \o y)[i] = x[i]
  OBVIOUS
<1>2. ASSUME NEW i \in 1 .. Len(y) PROVE (x \o y)[Len(x) + i] = y[i]
  <2>1. PICK k \in Nat : k = Len(x) + i /\ k > Len(x) /\ k <= Len(x) + Len(y) /\ k - Len(x) = i
    BY <1>1
  <2>2. (x \o y)[k] = y[k - Len(x)]
    BY <1>1, <2>1
  <2> QED
    BY <2>1, <2>2
<1> QED
  BY <1>1, <1>2

(* A piece of a sequence.                                                  *)
LEMMA Piece ==
  ASSUME NEW S, NEW x \in Seq(S), NEW m \in Nat, NEW n \in m .. Len(x)
  PROVE  /\ SubSeq(x, m + 1, n) \in Seq(S) /\ Len(SubSeq(x, m + 1, n)) = n - m
         /\ \A i \in 1 .. n - m : SubSeq(x, m + 1, n)[i] = x[m + i]
<1>1. Len(x) \in Nat /\ n \in Nat
  OBVIOUS
<1>2. Len(SubSeq(x, m + 1, n)) = n - m
  BY <1>1
<1>3. \A i \in 1 .. n - m : SubSeq(x, m + 1, n)[i] = x[m + i] /\ x[m + i] \in S
  BY <1>1
<1>4. SubSeq(x, m + 1, n) \in Seq(S)
  BY <1>1
<1> QED
  BY <1>2, <1>3, <1>4

(* Sequences of one length and with the same elements are the same.        *)
LEMMA SameSeq ==
  ASSUME NEW S, NEW x \in Seq(S), NEW y \in Seq(S), Len(x) = Len(y), \A i \in 1 .. Len(x) : x[i] = y[i]
  PROVE  x = y
OBVIOUS

-----------------------------------------------------------------------------
(* All bytes of a stream, request by request.                              *)

Turn(s, f, n) == IF n = 0 THEN << >> ELSE IF stream[n] = s THEN f[n - 1] \o Bytes(n) ELSE f[n - 1]

(* The recursive function by which Through is defined exists, up to any    *)
(* number of requests.                                                     *)
LEMMA ThroughExists ==
  ASSUME NEW s, NEW r \in Nat
  PROVE  \E f : f = [n \in 0 .. r |-> Turn(s, f, n)]
<1> DEFINE T == {m \in Nat : \E f : f = [n \in 0 .. m |-> Turn(s, f, n)]}
<1>1. 0 \in T
  <2> DEFINE f == [n \in 0 .. 0 |-> << >>]
  <2>1. f = [n \in 0 .. 0 |-> Turn(s, f, n)]
    BY DEF Turn
  <2> QED
    BY <2>1
<1>2. ASSUME NEW m \in Nat, m \in T PROVE m + 1 \in T
  <2>1. PICK f : f = [n \in 0 .. m |-> Turn(s, f, n)]
    BY <1>2
  <2> DEFINE g == [n \in 0 .. m + 1 |-> IF n = m + 1 THEN Turn(s, f, m + 1) ELSE f[n]]
  <2>2. ASSUME NEW n \in 0 .. m + 1 PROVE g[n] = Turn(s, g, n)
    <3>1. n = 0 \/ n - 1 \in 0 .. m
      OBVIOUS
    <3>2. n # 0 => g[n - 1] = f[n - 1]
      BY <3>1
    <3>3. Turn(s, g, n) = Turn(s, f, n)
      BY <3>2 DEF Turn
    <3>4. n # m + 1 => f[n] = Turn(s, f, n)
      BY <2>1
    <3> QED
      BY <3>3, <3>4
  <2>3. g = [n \in 0 .. m + 1 |-> Turn(s, g, n)]
    BY <2>2
  <2> HIDE DEF g
  <2> QED
    BY <2>3
<1> HIDE DEF T
<1>3. 0 .. r \subseteq T
  BY <1>1, <1>2, UpTo
<1>4. r \in T
  BY <1>3
<1> QED
  BY <1>4 DEF T

(* Through is the last value of that function.                             *)
LEMMA ThroughIs ==
  ASSUME NEW s, NEW r \in Nat
  PROVE  \E f : f = [n \in 0 .. r |-> Turn(s, f, n)] /\ Through(s, r) = f[r]
<1> DEFINE f == CHOOSE g : g = [n \in 0 .. r |-> Turn(s, g, n)]
<1>1. f = [n \in 0 .. r |-> Turn(s, f, n)]
  BY ThroughExists
<1>2. Through(s, r) = f[r]
  BY DEF Through, Turn
<1> QED
  BY <1>1, <1>2

(* Request by request.                                                     *)
LEMMA ThroughStep ==
  ASSUME NEW s
  PROVE  /\ Through(s, 0) = << >>
         /\ \A r \in Nat : Through(s, r + 1) =
              IF stream[r + 1] = s THEN Through(s, r) \o Bytes(r + 1) ELSE Through(s, r)
<1>1. Through(s, 0) = << >>
  <2>1. PICK f : f = [n \in 0 .. 0 |-> Turn(s, f, n)] /\ Through(s, 0) = f[0]
    BY ThroughIs
  <2>2. f[0] = Turn(s, f, 0)
    BY <2>1
  <2> QED
    BY <2>1, <2>2 DEF Turn
<1>2. ASSUME NEW r \in Nat
      PROVE  Through(s, r + 1) =
               IF stream[r + 1] = s THEN Through(s, r) \o Bytes(r + 1) ELSE Through(s, r)
  <2>1. PICK f : f = [n \in 0 .. r |-> Turn(s, f, n)] /\ Through(s, r) = f[r]
    BY ThroughIs
  <2>2. PICK g : g = [n \in 0 .. r + 1 |-> Turn(s, g, n)] /\ Through(s, r + 1) = g[r + 1]
    <3>1. r + 1 \in Nat
      OBVIOUS
    <3> QED
      BY <3>1, ThroughIs
  <2>3. \A n \in 0 .. r : f[n] = Turn(s, f, n)
    BY <2>1
  <2>4. \A n \in 0 .. r + 1 : g[n] = Turn(s, g, n)
    BY <2>2
  <2> DEFINE T == {n \in Nat : n <= r => g[n] = f[n]}
  <2>5. 0 \in T
    <3>1. f[0] = Turn(s, f, 0) /\ g[0] = Turn(s, g, 0)
      BY <2>3, <2>4
    <3> QED
      BY <3>1 DEF Turn
  <2>6. ASSUME NEW n \in Nat, n < r, n \in T PROVE n + 1 \in T
    <3>1. g[n] = f[n]
      BY <2>6
    <3>2. f[n + 1] = Turn(s, f, n + 1) /\ g[n + 1] = Turn(s, g, n + 1)
      BY <2>3, <2>4, <2>6
    <3> QED
      BY <3>1, <3>2 DEF Turn
  <2> HIDE DEF T
  <2>7. r \in T
    <3>1. 0 .. r \subseteq T
      BY <2>5, <2>6, UpTo
    <3> QED
      BY <3>1
  <2>8. g[r] = f[r]
    BY <2>7 DEF T
  <2>9. g[r + 1] = Turn(s, g, r + 1)
    BY <2>4
  <2> QED
    BY <2>1, <2>2, <2>8, <2>9 DEF Turn
<1> QED
  BY <1>1, <1>2

(* What is sent on a stream is fixed with the streams and kinds of the     *)
(* requests.                                                               *)
LEMMA ThroughStays ==
  ASSUME UNCHANGED <<stream, kind>>, NEW s, NEW r
  PROVE  Through(s, r)' = Through(s, r)
BY DEF Through, Bytes

-----------------------------------------------------------------------------
(* The bytes of requests, and where each is on its stream.                 *)

(* The bytes of one request.                                               *)
LEMMA BytesAre ==
  ASSUME TypeInv, NEW r \in Request
  PROVE  /\ Bytes(r) \in Seq(Cell) /\ Len(Bytes(r)) = HeaderSize + kind[r].length
         /\ \A i \in 1 .. HeaderSize + kind[r].length : Bytes(r)[i] = <<r, i>>
         /\ Body(r) \in Seq(Cell) /\ Len(Body(r)) = kind[r].length
         /\ \A i \in 1 .. kind[r].length : Body(r)[i] = <<r, HeaderSize + i>>
<1> DEFINE n == HeaderSize + kind[r].length
<1>1. kind[r].length \in Nat /\ n \in Nat /\ HeaderSize \in Nat
  BY Constants DEF TypeInv
<1>2. Bytes(r) = [i \in 1 .. n |-> <<r, i>>]
  BY DEF Bytes
<1> HIDE DEF n
<1>3. \A i \in 1 .. n : <<r, i>> \in Cell
  BY <1>1 DEF Cell
<1>4. Bytes(r) \in Seq(Cell) /\ Len(Bytes(r)) = n /\ \A i \in 1 .. n : Bytes(r)[i] = <<r, i>>
  BY <1>1, <1>2, <1>3
<1>5. Body(r) = SubSeq(Bytes(r), HeaderSize + 1, n)
  BY <1>4 DEF Body, Rest
<1>6. n = HeaderSize + kind[r].length
  BY DEF n
<1> HIDE DEF Bytes
<1>7. Body(r) \in Seq(Cell) /\ Len(Body(r)) = kind[r].length
  <2> DEFINE t == Bytes(r)
             h == HeaderSize
             l == kind[r].length
  <2>1. t \in Seq(Cell) /\ h \in Nat /\ l \in Nat /\ n = h + l /\ Len(t) = n
    BY <1>1, <1>4, <1>6
  <2> HIDE DEF t, h, l
  <2>2. Len(SubSeq(t, h + 1, n)) = l
    BY <2>1
  <2>3. \A i \in 1 .. l : SubSeq(t, h + 1, n)[i] = t[h + i] /\ t[h + i] \in Cell
    BY <2>1
  <2>4. SubSeq(t, h + 1, n) \in Seq(Cell)
    BY <2>1
  <2> QED
    BY <1>5, <2>2, <2>4 DEF t, h, l
<1>8. ASSUME NEW i \in 1 .. kind[r].length PROVE Body(r)[i] = <<r, HeaderSize + i>>
  <2>1. Body(r)[i] = Bytes(r)[HeaderSize + i] /\ HeaderSize + i \in 1 .. n
    BY <1>1, <1>4, <1>5, <1>6
  <2> QED
    BY <1>4, <2>1
<1> QED
  BY <1>4, <1>6, <1>7, <1>8

(* What a stream carries up to a request is cells of requests of its own.  *)
LEMMA ThroughType ==
  ASSUME TypeInv, NEW s, NEW r \in 0 .. NumRequests
  PROVE  /\ Through(s, r) \in Seq(Cell) /\ Len(Through(s, r)) \in Nat
         /\ \A i \in 1 .. Len(Through(s, r)) : stream[Through(s, r)[i][1]] = s
<1> DEFINE OK(q) == /\ Through(s, q) \in Seq(Cell)
                    /\ \A i \in 1 .. Len(Through(s, q)) : stream[Through(s, q)[i][1]] = s
           T == {q \in Nat : q <= NumRequests => OK(q)}
<1>1. 0 \in T
  <2>1. Through(s, 0) = << >>
    BY ThroughStep
  <2>2. << >> \in Seq(Cell) /\ Len(<< >>) = 0
    OBVIOUS
  <2>3. Through(s, 0) \in Seq(Cell) /\ Len(Through(s, 0)) = 0
    BY <2>1, <2>2
  <2> QED
    BY <2>3
<1>2. ASSUME NEW q \in Nat, q < NumRequests, q \in T PROVE q + 1 \in T
  <2>1. OK(q) /\ q + 1 \in Request /\ q + 1 \in Nat
    BY <1>2, Constants DEF Request
  <2>2. Through(s, q + 1) = IF stream[q + 1] = s THEN Through(s, q) \o Bytes(q + 1) ELSE Through(s, q)
    BY ThroughStep
  <2>3. CASE stream[q + 1] = s
    <3> DEFINE x == Through(s, q)
               b == Bytes(q + 1)
    <3>1. /\ x \in Seq(Cell) /\ b \in Seq(Cell)
          /\ \A i \in 1 .. Len(b) : b[i][1] = q + 1
      BY <2>1, BytesAre
    <3>2. \A i \in 1 .. Len(x) : stream[x[i][1]] = s
      BY <2>1
    <3>3. Through(s, q + 1) = x \o b
      BY <2>2, <2>3
    <3> HIDE DEF x, b
    <3>4. x \o b \in Seq(Cell) /\ Len(x \o b) = Len(x) + Len(b) /\ Len(x) \in Nat /\ Len(b) \in Nat
      BY <3>1
    <3>5. ASSUME NEW i \in 1 .. Len(x \o b) PROVE stream[(x \o b)[i][1]] = s
      <4>1. CASE i <= Len(x)
        BY <3>1, <3>2, <3>4, <4>1
      <4>2. CASE i > Len(x)
        <5>1. (x \o b)[i] = b[i - Len(x)] /\ i - Len(x) \in 1 .. Len(b)
          BY <3>1, <3>4, <4>2
        <5> QED
          BY <2>3, <3>1, <5>1
      <4> QED
        BY <3>4, <4>1, <4>2
    <3>6. OK(q + 1)
      BY <3>3, <3>4, <3>5
    <3> QED
      BY <2>1, <3>6
  <2>4. CASE stream[q + 1] # s
    BY <2>1, <2>2, <2>4
  <2> QED
    BY <2>3, <2>4
<1> HIDE DEF T
<1>3. 0 .. r \subseteq T
  <2>1. r \in Nat /\ r <= NumRequests
    BY Constants
  <2>2. \A q \in Nat : q < r /\ q \in T => q + 1 \in T
    BY <1>2, <2>1, Constants
  <2> QED
    BY <1>1, <2>1, <2>2, UpTo
<1>4. r \in T
  BY <1>3, Constants
<1> QED
  BY <1>4, Constants DEF T

(* A later prefix of the stream continues an earlier one.                  *)
LEMMA ThroughGrows ==
  ASSUME TypeInv, NEW s, NEW p \in 0 .. NumRequests, NEW q \in p .. NumRequests
  PROVE  /\ Len(Through(s, p)) <= Len(Through(s, q))
         /\ \A i \in 1 .. Len(Through(s, p)) : Through(s, q)[i] = Through(s, p)[i]
<1> DEFINE x == Through(s, p)
           OK(r) == /\ Len(x) <= Len(Through(s, r))
                    /\ \A i \in 1 .. Len(x) : Through(s, r)[i] = x[i]
           T == {k \in Nat : p + k <= NumRequests => OK(p + k)}
<1>0. p \in Nat /\ NumRequests \in Nat /\ x \in Seq(Cell) /\ Len(x) \in Nat
  BY Constants, ThroughType
<1> HIDE DEF x
<1>1. 0 \in T
  BY <1>0 DEF x
<1>2. ASSUME NEW k \in Nat, k \in T PROVE k + 1 \in T
  <2>1. SUFFICES ASSUME p + (k + 1) <= NumRequests PROVE OK(p + (k + 1))
    OBVIOUS
  <2>2. OK(p + k) /\ p + k \in 0 .. NumRequests /\ p + k \in Nat /\ p + (k + 1) = (p + k) + 1
        /\ (p + k) + 1 \in Request
    BY <1>0, <1>2, <2>1 DEF Request
  <2> DEFINE y == Through(s, p + k)
             b == Bytes((p + k) + 1)
             z == Through(s, (p + k) + 1)
  <2>3. z = IF stream[(p + k) + 1] = s THEN y \o b ELSE y
    BY <2>2, ThroughStep
  <2>4. y \in Seq(Cell) /\ b \in Seq(Cell)
    BY <2>2, ThroughType, BytesAre
  <2>5. Len(x) <= Len(y) /\ \A i \in 1 .. Len(x) : y[i] = x[i]
    BY <2>2
  <2> HIDE DEF y, b, z
  <2>6. Len(x) <= Len(z) /\ \A i \in 1 .. Len(x) : z[i] = x[i]
    BY <1>0, <2>3, <2>4, <2>5
  <2> QED
    BY <2>2, <2>6 DEF z
<1> HIDE DEF T
<1>3. 0 .. q - p \subseteq T
  <2>1. q - p \in Nat
    BY <1>0
  <2> QED
    BY <1>1, <1>2, <2>1, UpTo
<1>4. q - p \in T /\ p + (q - p) = q
  BY <1>0, <1>3
<1> QED
  BY <1>0, <1>4 DEF T, x

(* The end of a request on its stream.                                     *)
LEMMA EndIs ==
  ASSUME TypeInv, NEW r \in Request
  PROVE  /\ r - 1 \in 0 .. NumRequests /\ r \in 0 .. NumRequests
         /\ Through(stream[r], r) = Through(stream[r], r - 1) \o Bytes(r)
         /\ End(r) = Len(Through(stream[r], r - 1)) + HeaderSize + kind[r].length
         /\ End(r) \in Nat /\ End(r) <= Len(All(stream[r]))
<1>1. r - 1 \in Nat /\ r - 1 \in 0 .. NumRequests /\ r \in 0 .. NumRequests /\ (r - 1) + 1 = r
      /\ NumRequests \in r .. NumRequests
  BY Constants DEF Request
<1>2. Through(stream[r], r) = Through(stream[r], r - 1) \o Bytes(r)
  <2>1. Through(stream[r], (r - 1) + 1) =
          IF stream[(r - 1) + 1] = stream[r] THEN Through(stream[r], r - 1) \o Bytes((r - 1) + 1)
          ELSE Through(stream[r], r - 1)
    BY <1>1, ThroughStep
  <2> QED
    BY <1>1, <2>1
<1>3. Through(stream[r], r - 1) \in Seq(Cell) /\ Bytes(r) \in Seq(Cell)
      /\ Len(Bytes(r)) = HeaderSize + kind[r].length
  BY <1>1, ThroughType, BytesAre
<1>4. kind[r].length \in Nat /\ HeaderSize \in Nat
  BY Constants DEF TypeInv
<1>5. Len(Through(stream[r], r - 1) \o Bytes(r))
        = Len(Through(stream[r], r - 1)) + HeaderSize + kind[r].length
  BY <1>3, <1>4
<1>6. End(r) <= Len(All(stream[r]))
  BY <1>1, ThroughGrows DEF End, All
<1> QED
  BY <1>1, <1>2, <1>3, <1>4, <1>5, <1>6, ThroughType DEF End

(* What follows the end of a request is the next one of the stream.        *)
LEMMA NextRequest ==
  ASSUME TypeInv, NEW s, NEW p \in 0 .. NumRequests, Len(Through(s, p)) < Len(All(s))
  PROVE  \E r \in Request :
           /\ stream[r] = s /\ r > p
           /\ End(r) = Len(Through(s, p)) + HeaderSize + kind[r].length
           /\ \A i \in 1 .. HeaderSize + kind[r].length : All(s)[Len(Through(s, p)) + i] = <<r, i>>
<1> DEFINE b == Len(Through(s, p))
           T == {q \in 0 .. NumRequests : Len(Through(s, q)) > b}
<1>0. NumRequests \in Nat /\ b \in Nat /\ HeaderSize \in Nat
  BY Constants, ThroughType
<1>1. NumRequests \in T
  BY <1>0 DEF All
<1>2. PICK r \in T : \A q \in T : r <= q
  <2>1. T \in SUBSET Nat /\ T # {}
    BY <1>1
  <2> HIDE DEF T
  <2> QED
    BY <2>1, NatLeast
<1>3. r \in 0 .. NumRequests /\ Len(Through(s, r)) > b
  BY <1>2
<1>4. r > p
  <2>1. SUFFICES ASSUME p \in r .. NumRequests PROVE FALSE
    BY <1>0, <1>3
  <2>2. Len(Through(s, r)) <= b
    BY <1>3, <2>1, ThroughGrows
  <2> QED
    BY <1>0, <1>3, <2>2, ThroughType
<1>5. r \in Request /\ r - 1 \in 0 .. NumRequests /\ r - 1 \in p .. NumRequests /\ r - 1 \in Nat
      /\ (r - 1) + 1 = r
  BY <1>0, <1>3, <1>4 DEF Request
<1>6. Len(Through(s, r - 1)) = b
  <2>1. r - 1 \notin T
    BY <1>2, <1>5
  <2>2. Len(Through(s, r - 1)) \in Nat /\ ~(Len(Through(s, r - 1)) > b)
    BY <1>5, <2>1, ThroughType
  <2>3. b <= Len(Through(s, r - 1))
    BY <1>5, ThroughGrows
  <2> QED
    BY <1>0, <2>2, <2>3
<1>7. stream[r] = s
  <2>1. SUFFICES ASSUME stream[r] # s PROVE FALSE
    OBVIOUS
  <2>2. Through(s, r) = Through(s, r - 1)
    BY <1>5, <2>1, ThroughStep
  <2> QED
    BY <1>0, <1>3, <1>6, <2>2
<1>8. /\ Through(s, r) = Through(s, r - 1) \o Bytes(r)
      /\ End(r) = b + HeaderSize + kind[r].length
  BY <1>5, <1>6, <1>7, EndIs
<1>9. ASSUME NEW i \in 1 .. HeaderSize + kind[r].length PROVE All(s)[b + i] = <<r, i>>
  <2>1. kind[r].length \in Nat
    BY <1>5 DEF TypeInv
  <2>2. Through(s, r - 1) \in Seq(Cell) /\ Bytes(r) \in Seq(Cell)
        /\ Len(Bytes(r)) = HeaderSize + kind[r].length /\ Bytes(r)[i] = <<r, i>>
    BY <1>5, ThroughType, BytesAre
  <2>3. b + i \in 1 .. Len(Through(s, r)) /\ Through(s, r)[b + i] = <<r, i>>
    <3> DEFINE x == Through(s, r - 1)
               y == Bytes(r)
               l == HeaderSize + kind[r].length
    <3>1. x \in Seq(Cell) /\ y \in Seq(Cell) /\ Len(x) = b /\ Len(y) = l /\ l \in Nat /\ i \in 1 .. l
          /\ b \in Nat /\ y[i] = <<r, i>>
      BY <1>0, <1>6, <2>1, <2>2
    <3>2. Through(s, r) = x \o y
      BY <1>8
    <3> HIDE DEF x, y, l, b
    <3>3. Len(x \o y) = b + l /\ (x \o y)[b + i] = y[i]
      <4>1. x \in Seq(Cell) /\ y \in Seq(Cell)
        BY <3>1
      <4>2. Len(x \o y) = Len(x) + Len(y) /\ \A j \in 1 .. Len(y) : (x \o y)[Len(x) + j] = y[j]
        BY ONLY <4>1, Joined
      <4> QED
        BY <3>1, <4>2
    <3> QED
      BY <3>1, <3>2, <3>3
  <2>4. NumRequests \in r .. NumRequests
    BY <1>0, <1>3
  <2> QED
    BY <1>3, <2>3, <2>4, ThroughGrows DEF All
<1> QED
  BY <1>4, <1>5, <1>7, <1>8, <1>9

(* What a stream has to be read is a piece of what it carries.             *)
LEMMA AvailableIs ==
  ASSUME TypeInv, NEW s \in Stream, StreamInv(s)
  PROVE  /\ All(s) \in Seq(Cell) /\ Len(All(s)) \in Nat /\ taken[s] \in Nat /\ sent[s] \in Nat
         /\ taken[s] <= sent[s] /\ sent[s] <= Len(All(s))
         /\ Available(s) \in Seq(Cell) /\ Len(Available(s)) = sent[s] - taken[s]
         /\ Available(s) = << >> <=> sent[s] = taken[s]
         /\ \A n \in 0 .. Len(Available(s)) :
              /\ First(Available(s), n) \in Seq(Cell) /\ Len(First(Available(s), n)) = n
              /\ \A i \in 1 .. n : First(Available(s), n)[i] = All(s)[taken[s] + i]
<1> DEFINE x == All(s)
           m == sent[s]
           t == taken[s]
           y == SubSeq(x, 1, m)
           z == SubSeq(y, t + 1, m)
<1>1. x \in Seq(Cell) /\ Len(x) \in Nat
  BY Constants, ThroughType DEF All
<1>2. m \in Nat /\ t \in Nat /\ t <= m /\ m <= Len(x)
  BY DEF TypeInv, StreamInv
<1> HIDE DEF x, m, t
<1>3. y \in Seq(Cell) /\ Len(y) = m /\ \A i \in 1 .. m : y[i] = x[i]
  BY <1>1, <1>2
<1> HIDE DEF y
<1>4. z \in Seq(Cell) /\ Len(z) = m - t /\ \A i \in 1 .. m - t : z[i] = y[t + i]
  BY <1>1, <1>2, <1>3, Piece
<1>5. Available(s) = z
  BY <1>3 DEF Available, Rest, First, All, x, y, m, t
<1> HIDE DEF z
<1>6. z = << >> <=> m = t
  BY <1>2, <1>4
<1>7. ASSUME NEW n \in 0 .. Len(z)
      PROVE  /\ First(z, n) \in Seq(Cell) /\ Len(First(z, n)) = n
             /\ \A i \in 1 .. n : First(z, n)[i] = x[t + i]
  <2>1. First(z, n) \in Seq(Cell) /\ Len(First(z, n)) = n /\ \A i \in 1 .. n : First(z, n)[i] = z[i]
    BY <1>2, <1>4 DEF First
  <2>2. \A i \in 1 .. n : z[i] = x[t + i]
    BY <1>2, <1>3, <1>4
  <2> QED
    BY <2>1, <2>2
<1> QED
  BY <1>1, <1>2, <1>4, <1>5, <1>6, <1>7 DEF x, m, t

(* The body of a request on its stream.                                    *)
LEMMA BodyOnStream ==
  ASSUME TypeInv, NEW r \in Request
  PROVE  \A i \in 1 .. kind[r].length : All(stream[r])[End(r) - kind[r].length + i] = Body(r)[i]
<1> DEFINE x == Through(stream[r], r - 1)
           b == Bytes(r)
           l == kind[r].length
           s == stream[r]
<1>1. x \in Seq(Cell) /\ b \in Seq(Cell) /\ Len(x) \in Nat /\ l \in Nat /\ HeaderSize \in Nat
      /\ Len(b) = HeaderSize + l
  BY EndIs, ThroughType, BytesAre, Constants DEF TypeInv
<1>2. Through(s, r) = x \o b /\ End(r) = Len(x) + HeaderSize + l
  BY EndIs
<1>3. \A i \in 1 .. l : Body(r)[i] = b[HeaderSize + i]
  <2>1. \A i \in 1 .. l : Body(r)[i] = <<r, HeaderSize + i>> /\ HeaderSize + i \in 1 .. HeaderSize + l
    BY <1>1, BytesAre
  <2> QED
    BY <2>1, BytesAre
<1>4. \A i \in 1 .. Len(Through(s, r)) : All(s)[i] = Through(s, r)[i]
  <2>1. r \in 0 .. NumRequests /\ NumRequests \in r .. NumRequests
    BY Constants, EndIs
  <2> QED
    BY <2>1, ThroughGrows DEF All
<1> HIDE DEF x, b, l
<1>5. Len(x \o b) = Len(x) + Len(b) /\ \A i \in 1 .. Len(b) : (x \o b)[Len(x) + i] = b[i]
  <2>1. x \in Seq(Cell) /\ b \in Seq(Cell)
    BY <1>1
  <2> QED
    BY ONLY <2>1, Joined
<1>6. ASSUME NEW i \in 1 .. l PROVE All(s)[End(r) - l + i] = Body(r)[i]
  <2>1. HeaderSize + i \in 1 .. Len(b) /\ End(r) - l + i = Len(x) + (HeaderSize + i)
    BY <1>1, <1>2
  <2>2. Len(x) + (HeaderSize + i) \in 1 .. Len(Through(s, r))
    BY <1>1, <1>2, <1>5
  <2> QED
    BY <1>2, <1>3, <1>4, <1>5, <2>1, <2>2
<1> QED
  BY <1>6 DEF l

-----------------------------------------------------------------------------
(* The reader: what a read makes of a stream.                              *)

(* A piece of a sequence, and what follows it there.                       *)
LEMMA Extended ==
  ASSUME NEW S, NEW a \in Seq(S), NEW x \in Seq(S), NEW y \in Seq(S), NEW b \in Nat,
         b + Len(x) + Len(y) <= Len(a), \A i \in 1 .. Len(x) : x[i] = a[b + i],
         \A i \in 1 .. Len(y) : y[i] = a[b + Len(x) + i]
  PROVE  /\ x \o y \in Seq(S) /\ Len(x \o y) = Len(x) + Len(y)
         /\ \A i \in 1 .. Len(x \o y) : (x \o y)[i] = a[b + i]
         /\ x \o y = SubSeq(a, b + 1, b + Len(x) + Len(y))
<1> DEFINE z == x \o y
           w == SubSeq(a, b + 1, b + Len(x) + Len(y))
<1>1. /\ z \in Seq(S) /\ Len(x) \in Nat /\ Len(y) \in Nat /\ Len(z) = Len(x) + Len(y)
      /\ \A i \in 1 .. Len(x) : z[i] = x[i]
      /\ \A i \in 1 .. Len(y) : z[Len(x) + i] = y[i]
  BY Joined
<1> HIDE DEF z
<1>2. ASSUME NEW i \in 1 .. Len(z) PROVE z[i] = a[b + i]
  <2>1. CASE i <= Len(x)
    BY <1>1, <2>1
  <2>2. CASE i > Len(x)
    <3>1. PICK j \in 1 .. Len(y) : i = Len(x) + j
      <4>1. i - Len(x) \in 1 .. Len(y) /\ i = Len(x) + (i - Len(x))
        BY <1>1, <2>2
      <4> QED
        BY <4>1
    <3>2. b + i = b + Len(x) + j
      BY <1>1, <3>1
    <3> QED
      BY <1>1, <3>1, <3>2
  <2> QED
    BY <1>1, <2>1, <2>2
<1>3. w \in Seq(S) /\ Len(w) = Len(z) /\ \A i \in 1 .. Len(z) : w[i] = a[b + i]
  <2> DEFINE n == b + Len(x) + Len(y)
  <2>1. a \in Seq(S) /\ b \in Nat /\ n \in b .. Len(a) /\ n - b = Len(z) /\ w = SubSeq(a, b + 1, n)
    BY <1>1
  <2> HIDE DEF n, w
  <2>2. /\ SubSeq(a, b + 1, n) \in Seq(S) /\ Len(SubSeq(a, b + 1, n)) = n - b
        /\ \A i \in 1 .. n - b : SubSeq(a, b + 1, n)[i] = a[b + i]
    BY ONLY <2>1, Piece
  <2> QED
    BY ONLY <2>1, <2>2
<1> HIDE DEF w
<1>4. z \in Seq(S) /\ w \in Seq(S) /\ Len(z) = Len(w) /\ \A i \in 1 .. Len(z) : z[i] = w[i]
  BY <1>1, <1>2, <1>3
<1>5. z = w
  BY ONLY <1>4, SameSeq
<1> QED
  BY <1>1, <1>2, <1>5 DEF z, w

(* What a read does, having taken n bytes of request v.                    *)
Outcome(s, n, v) ==
  /\ taken[s] + n <= sent[s] /\ taken' = [taken EXCEPT ![s] = @ + n]
  /\ serving' = [serving EXCEPT ![s] = v]
  /\ v # NONE => stream[v] = s /\ taken[s] < End(v)
  /\ \/ Closes(s) /\ (s \in eof \/ (v # NONE /\ (~kind[v].valid \/ taken[s] + n > End(v))))
     \/ v # NONE /\ Complete(s, v, Body(v)) /\ taken[s] + n = End(v)
     \/ /\ reader'[s] \in Reader /\ reader' = [reader EXCEPT ![s] = reader'[s]]
        /\ UNCHANGED <<stage, req_recv>>
        /\ IF reader'[s].have = NONE THEN ReadsHeader(s)' ELSE ReadsBody(s)'

(* The end of a body, or the part of it that is there.                     *)
LEMMA TakeBodyIs ==
  ASSUME TypeInv, NEW s \in Stream, StreamInv(s), NEW n \in Nat, NEW v \in Request,
         stream[v] = s, taken[s] < End(v), taken[s] + n <= sent[s], UNCHANGED <<stream, kind>>,
         taken' = [taken EXCEPT ![s] = @ + n], serving' = [serving EXCEPT ![s] = v],
         NEW body \in Seq(Cell), End(v) + Len(body) = taken[s] + n + kind[v].length,
         \A i \in 1 .. Least(Len(body), kind[v].length) : body[i] = Body(v)[i],
         TakeBody(s, v, body)
  PROVE  Outcome(s, n, v)
<1> DEFINE l == kind[v].length
<1>1. /\ l \in Nat /\ End(v) \in Nat /\ taken[s] \in Nat /\ Len(body) \in Nat /\ v # NONE
      /\ Body(v) \in Seq(Cell) /\ Len(Body(v)) = l /\ taken'[s] = taken[s] + n /\ serving'[s] = v
  <2>1. l \in Nat /\ taken[s] \in Nat /\ taken'[s] = taken[s] + n /\ serving'[s] = v /\ v # NONE
    BY Constants DEF TypeInv
  <2>2. End(v) \in Nat
    BY EndIs
  <2>3. Body(v) \in Seq(Cell) /\ Len(Body(v)) = l
    BY BytesAre
  <2> QED
    BY <2>1, <2>2, <2>3
<1>2. CASE Len(body) > l
  <2>1. Closes(s) /\ taken[s] + n > End(v)
    BY <1>1, <1>2 DEF TakeBody
  <2> QED
    BY <1>1, <2>1 DEF Outcome
<1>3. CASE Len(body) = l
  <2>1. \A i \in 1 .. l : body[i] = Body(v)[i]
    BY <1>1, <1>3 DEF Least
  <2> DEFINE w == Body(v)
  <2>2. w \in Seq(Cell) /\ body \in Seq(Cell) /\ Len(body) = Len(w)
        /\ \A i \in 1 .. Len(body) : body[i] = w[i]
    BY <1>1, <1>3, <2>1
  <2> HIDE DEF w
  <2>3. body = w
    BY ONLY <2>2, SameSeq
  <2>4. Complete(s, v, body)
    BY <1>1, <1>3 DEF TakeBody
  <2>5. taken[s] + n = End(v)
    <3> DEFINE t == taken[s]
               e == End(v)
    <3>1. e \in Nat /\ t \in Nat /\ n \in Nat /\ l \in Nat /\ e + l = (t + n) + l
      BY <1>1, <1>3
    <3> HIDE DEF t, e, l
    <3>2. t + n = e
      BY ONLY <3>1
    <3> QED
      BY <3>2 DEF t, e
  <2> QED
    BY <1>1, <2>3, <2>4, <2>5 DEF Outcome, w
<1>4. CASE Len(body) < l
  <2>1. \A i \in 1 .. Len(body) : body[i] = Body(v)[i]
    BY <1>1, <1>4 DEF Least
  <2> DEFINE w == Body(v)
             k == Len(body)
  <2>2. w \in Seq(Cell) /\ k \in 0 .. Len(w) /\ body \in Seq(Cell)
        /\ \A i \in 1 .. k : body[i] = w[i]
    BY <1>1, <1>4, <2>1
  <2>3. body = First(w, k)
    <3> HIDE DEF w
    <3>1. First(w, k) \in Seq(Cell) /\ Len(First(w, k)) = k /\ \A i \in 1 .. k : First(w, k)[i] = w[i]
      BY <2>2 DEF First
    <3> DEFINE z == First(w, k)
    <3>2. body \in Seq(Cell) /\ z \in Seq(Cell) /\ Len(body) = Len(z)
          /\ \A i \in 1 .. Len(body) : body[i] = z[i]
      BY <2>2, <3>1
    <3> HIDE DEF z
    <3>3. body = z
      BY ONLY <3>2, SameSeq
    <3> QED
      BY <3>3 DEF z
  <2>4. Partial(s, v, body, 0)
    BY <1>1, <1>4 DEF TakeBody
  <2> DEFINE R == [have |-> v, bytes |-> body, size |-> 0]
  <2>5. reader' = [reader EXCEPT ![s] = R] /\ UNCHANGED <<stage, req_recv>>
    BY <2>4 DEF Partial
  <2>6. R \in Reader /\ reader'[s] = R /\ R.have = v /\ R.bytes = body
    BY <2>5 DEF TypeInv, Reader
  <2>7. ReadsBody(s)'
    <3>1. kind' = kind /\ Body(v)' = Body(v) /\ End(v)' = End(v)
      BY ThroughStays DEF Body, Bytes, Rest, End
    <3>2. Len(body) < l /\ taken'[s] + l = End(v) + Len(body)
      BY <1>1, <1>4
    <3> QED
      BY <1>1, <2>3, <2>6, <3>1, <3>2 DEF ReadsBody
  <2> QED
    BY <1>1, <2>5, <2>6, <2>7 DEF Outcome
<1> QED
  BY <1>1, <1>2, <1>3, <1>4

(* What read_body does, its stream, its reader and its request together.   *)
LEMMA ReadBodyStep ==
  ASSUME TypeInv, NEW s \in Stream, StreamInv(s), ReadBody(s)
  PROVE  \E n \in Nat, v \in Request \cup {NONE} : Outcome(s, n, v)
<1> DEFINE r    == reader[s].have
           k    == Len(reader[s].bytes)
           l    == kind[r].length
           n    == Least(kind[r].length - Len(reader[s].bytes), Len(Available(s)))
           y    == First(Available(s), n)
           body == reader[s].bytes \o First(Available(s), n)
           e    == End(r)
           t    == taken[s]
<1>1. /\ Readable(s) /\ taken' = [taken EXCEPT ![s] = @ + n] /\ UNCHANGED <<stream, kind, serving>>
      /\ IF n = 0 THEN Closes(s) ELSE TakeBody(s, r, body)
      /\ ReadsBody(s) /\ reader[s].bytes \in Seq(Cell)
  BY DEF ReadBody, StreamInv, TypeInv, Reader, clientVars
<1>2. /\ r \in Request /\ r # NONE /\ serving[s] = r /\ stream[r] = s /\ l \in Nat /\ k \in Nat /\ k < l
      /\ reader[s].bytes = First(Body(r), k) /\ t + l = e + k /\ e \in Nat /\ t \in Nat
  <2>1. r \in Request /\ r # NONE /\ serving[s] = r
    BY <1>1, Constants DEF ReadsBody, TypeInv, Reader
  <2>2. stream[r] = s /\ l \in Nat /\ k \in Nat /\ t \in Nat
    BY <1>1, <2>1 DEF StreamInv, TypeInv
  <2>3. e \in Nat
    BY <2>1, EndIs
  <2>4. k < l /\ reader[s].bytes = First(Body(r), k) /\ t + l = e + k
    BY <1>1 DEF ReadsBody
  <2> QED
    BY <2>1, <2>2, <2>3, <2>4
<1>3. serving' = [serving EXCEPT ![s] = r]
  BY <1>1, <1>2 DEF TypeInv
<1>4. /\ Len(Available(s)) = sent[s] - t /\ sent[s] \in Nat /\ t <= sent[s]
      /\ n \in 0 .. Len(Available(s))
      /\ n <= l - k /\ n \in Nat /\ t + n <= sent[s] /\ t < e
      /\ y \in Seq(Cell) /\ Len(y) = n /\ \A i \in 1 .. n : y[i] = All(s)[t + i]
  <2>1. Len(Available(s)) = sent[s] - t /\ sent[s] \in Nat /\ t <= sent[s]
    BY AvailableIs
  <2>2. n \in 0 .. Len(Available(s)) /\ n <= l - k /\ n \in Nat /\ t + n <= sent[s]
    <3> DEFINE a == Len(Available(s))
    <3>1. a \in Nat /\ a = sent[s] - t /\ l - k \in Nat /\ n = Least(l - k, a)
      BY <1>2, <2>1
    <3> HIDE DEF a, n, t, l, k
    <3>2. n \in 0 .. a /\ n <= l - k
      BY <3>1 DEF Least
    <3> QED
      BY <1>2, <2>1, <3>1, <3>2 DEF a
  <2>3. t < e
    BY <1>2
  <2> HIDE DEF n
  <2>4. y \in Seq(Cell) /\ Len(y) = n /\ \A i \in 1 .. n : y[i] = All(s)[t + i]
    BY <2>2, AvailableIs
  <2> HIDE DEF y, t, e, l, k
  <2> QED
    BY <1>2, <2>1, <2>2, <2>3, <2>4
<1>5. CASE n = 0
  <2>1. s \in eof /\ Closes(s)
    <3>1. Len(Available(s)) = 0
      <4> DEFINE a == Len(Available(s))
                 d == l - k
      <4>1. d \in Nat \ {0} /\ a \in Nat /\ n = Least(d, a)
        <5>1. a \in Nat
          BY <1>4
        <5> HIDE DEF a, k, l, t, e
        <5>2. d \in Nat \ {0}
          BY <1>2
        <5> QED
          BY <5>1, <5>2 DEF a, k, l
      <4> HIDE DEF a, d, n
      <4>2. a = 0
        BY ONLY <1>5, <4>1 DEF Least
      <4> QED
        BY <4>2 DEF a
    <3>2. sent[s] = t
      <4>1. 0 = sent[s] - t /\ sent[s] \in Nat /\ t \in Nat
        BY <1>2, <1>4, <3>1
      <4> HIDE DEF t
      <4> QED
        BY ONLY <4>1
    <3> QED
      BY <1>1, <1>5, <3>2, AvailableIs DEF Readable
  <2> QED
    BY <1>1, <1>2, <1>3, <1>4, <1>5, <2>1 DEF Outcome
<1>6. CASE n # 0
  <2> DEFINE x == reader[s].bytes
             w == Body(r)
  <2>1. TakeBody(s, r, body) /\ x \in Seq(Cell) /\ body = x \o y /\ x = First(w, k) /\ Len(x) = k
    BY <1>1, <1>2, <1>6
  <2>2. w \in Seq(Cell) /\ Len(w) = l /\ \A i \in 1 .. l : All(s)[e - l + i] = w[i]
    BY <1>2, BytesAre, BodyOnStream
  <2> HIDE DEF x, w, y, n, k, l, e, t, r, body
  <2>3. \A i \in 1 .. k : x[i] = w[i]
    BY <1>2, <2>1, <2>2 DEF First
  <2>4. \A i \in 1 .. n : y[i] = w[k + i]
    <3>1. /\ n \in Nat /\ k \in Nat /\ l \in Nat /\ e \in Nat /\ t \in Nat
          /\ n <= l - k /\ t + l = e + k
      BY <1>2, <1>4
    <3>2. \A i \in 1 .. n : k + i \in 1 .. l /\ e - l + (k + i) = t + i
      BY ONLY <3>1
    <3> QED
      BY <1>4, <2>2, <3>2
  <2>5. /\ body \in Seq(Cell) /\ Len(body) = k + n
        /\ \A i \in 1 .. k : body[i] = x[i]
        /\ \A i \in 1 .. n : body[k + i] = y[i]
    <3>1. x \in Seq(Cell) /\ y \in Seq(Cell)
      BY <1>4, <2>1
    <3>2. /\ x \o y \in Seq(Cell) /\ Len(x) \in Nat /\ Len(x \o y) = Len(x) + Len(y)
          /\ \A i \in 1 .. Len(x) : (x \o y)[i] = x[i]
          /\ \A i \in 1 .. Len(y) : (x \o y)[Len(x) + i] = y[i]
      BY ONLY <3>1, Joined
    <3> QED
      BY <1>4, <2>1, <3>2
  <2>6. ASSUME NEW i \in 1 .. k + n PROVE body[i] = w[i]
    <3>1. CASE i <= k
      BY <1>2, <2>3, <2>5, <3>1
    <3>2. CASE i > k
      <4>1. PICK j \in 1 .. n : i = k + j
        <5>1. i - k \in 1 .. n /\ i = k + (i - k)
          BY <1>2, <1>4, <3>2
        <5> QED
          BY <5>1
      <4> QED
        BY <2>4, <2>5, <4>1
    <3> QED
      BY <1>2, <1>4, <3>1, <3>2
  <2>7. Least(Len(body), l) = k + n /\ e + Len(body) = t + n + l
    BY <1>2, <1>4, <2>5 DEF Least
  <2>8. \A i \in 1 .. Least(Len(body), l) : body[i] = w[i]
    BY <2>6, <2>7
  <2> QED
    BY <1>1, <1>2, <1>3, <1>4, <2>1, <2>5, <2>7, <2>8, TakeBodyIs DEF w, l, e, t
<1> QED
  BY <1>2, <1>5, <1>6

(* What read_header does: a part of the header, an end, or what take_body  *)
(* makes of the bytes after the header.                                    *)
LEMMA ReadHeaderStep ==
  ASSUME TypeInv, NEW s \in Stream, StreamInv(s), ReadHeader(s)
  PROVE  \E n \in Nat, v \in Request \cup {NONE} : Outcome(s, n, v)
<1> DEFINE x     == reader[s].bytes
           t     == taken[s]
           size  == Grown(reader[s].size, Len(reader[s].bytes))
           n     == Least(size - Len(reader[s].bytes), Len(Available(s)))
           y     == First(Available(s), n)
           bytes == reader[s].bytes \o First(Available(s), n)
           v     == IF bytes # << >> THEN bytes[1][1] ELSE NONE
           H     == HeaderSize
<1>1. /\ Readable(s) /\ taken' = [taken EXCEPT ![s] = @ + n] /\ UNCHANGED <<stream, kind>>
      /\ serving' = [serving EXCEPT ![s] = v]
      /\ IF n = 0 THEN Closes(s)
         ELSE IF Len(bytes) < HeaderSize THEN Partial(s, NONE, bytes, size)
         ELSE IF ~Parsed(bytes) THEN Closes(s)
         ELSE TakeBody(s, bytes[1][1], Rest(bytes, HeaderSize))
      /\ ReadsHeader(s) /\ x \in Seq(Cell)
  BY DEF ReadHeader, StreamInv, TypeInv, Reader, clientVars
<1>2. PICK p \in 0 .. NumRequests :
        t = Len(Through(s, p)) + Len(x) /\ x = SubSeq(All(s), Len(Through(s, p)) + 1, t)
  BY <1>1 DEF ReadsHeader, HeaderSlice
<1> DEFINE b == Len(Through(s, p))
           a == All(s)
<1>3. /\ a \in Seq(Cell) /\ Len(a) \in Nat /\ t \in Nat /\ sent[s] \in Nat /\ t <= sent[s]
      /\ sent[s] <= Len(a) /\ b \in Nat /\ Len(x) \in Nat /\ Len(Available(s)) = sent[s] - t
  BY <1>1, AvailableIs, ThroughType
<1>4. /\ H \in Nat \ {0} /\ HeaderRoom \in Nat \ {0}
      /\ reader[s].size \in Nat \ {0} /\ Len(x) < H /\ Len(x) <= reader[s].size
  BY <1>1, Constants DEF ReadsHeader
<1>5. size \in Nat /\ Len(x) < size
  <2> DEFINE z == reader[s].size
             k == Len(x)
  <2>1. z \in Nat \ {0} /\ k \in Nat /\ k <= z /\ HeaderRoom \in Nat \ {0} /\ size = Grown(z, k)
    BY <1>3, <1>4
  <2> HIDE DEF z, k, size
  <2>2. size \in Nat /\ k < size
    BY <2>1 DEF Grown
  <2> QED
    BY <2>2 DEF k
<1>6. n \in 0 .. Len(Available(s)) /\ n <= size - Len(x) /\ (n = 0 => Len(Available(s)) = 0)
  <2> DEFINE k == Len(x)
             m == Len(Available(s))
  <2>1. k \in Nat /\ size \in Nat /\ k < size /\ m \in Nat /\ n = Least(size - k, m)
    BY <1>3, <1>5
  <2> HIDE DEF k, m, n, size
  <2>2. n \in 0 .. m /\ n <= size - k /\ (n = 0 => m = 0)
    BY <2>1 DEF Least
  <2> QED
    BY <2>2 DEF k, m
<1>7. /\ bytes \in Seq(Cell) /\ Len(bytes) = Len(x) + n /\ t + n = b + Len(bytes)
      /\ t + n <= sent[s] /\ \A i \in 1 .. Len(bytes) : bytes[i] = a[b + i]
      /\ bytes = SubSeq(a, b + 1, t + n)
  <2>1. b \in 0 .. t /\ \A i \in 1 .. Len(x) : x[i] = a[b + i]
    <3>1. b \in 0 .. t /\ t - b = Len(x) /\ t \in b .. Len(a) /\ x = SubSeq(a, b + 1, t)
      BY <1>2, <1>3, SMTT(30)
    <3> HIDE DEF x, t, a, b
    <3>2. \A i \in 1 .. t - b : SubSeq(a, b + 1, t)[i] = a[b + i]
      BY <1>3, <3>1, Piece
    <3> QED
      BY <3>1, <3>2
  <2>2. t = b + Len(x)
    BY <1>2
  <2> HIDE DEF n
  <2>3. y \in Seq(Cell) /\ Len(y) = n /\ \A i \in 1 .. n : y[i] = a[t + i]
    BY <1>6, AvailableIs
  <2>4. bytes = x \o y /\ n \in Nat /\ t + n <= sent[s]
    BY <1>3, <1>6
  <2> HIDE DEF bytes, x, y, a, b, t
  <2>5. /\ a \in Seq(Cell) /\ x \in Seq(Cell) /\ y \in Seq(Cell) /\ b \in Nat
        /\ b + Len(x) + Len(y) <= Len(a)
        /\ \A i \in 1 .. Len(x) : x[i] = a[b + i]
        /\ \A i \in 1 .. Len(y) : y[i] = a[b + Len(x) + i]
    BY <1>1, <1>3, <2>1, <2>2, <2>3, <2>4
  <2>6. /\ x \o y \in Seq(Cell) /\ Len(x \o y) = Len(x) + Len(y)
        /\ \A i \in 1 .. Len(x \o y) : (x \o y)[i] = a[b + i]
        /\ x \o y = SubSeq(a, b + 1, b + Len(x) + Len(y))
    BY ONLY <2>5, Extended, SMTT(60)
  <2>7. b + Len(x) + Len(y) = t + n
    <3>1. t = b + Len(x) /\ Len(y) = n
      BY <2>2, <2>3
    <3> QED
      BY ONLY <3>1
  <2> QED
    BY <1>3, <2>2, <2>3, <2>4, <2>6, <2>7
<1> HIDE DEF n, size, bytes, x, b
<1>8. bytes # << >> => v = bytes[1][1] /\ Len(bytes) >= 1 /\ b < Len(a)
  <2>1. SUFFICES ASSUME bytes # << >> PROVE v = bytes[1][1] /\ Len(bytes) >= 1 /\ b < Len(a)
    OBVIOUS
  <2>2. Len(bytes) \in Nat /\ Len(bytes) # 0
    BY <1>7, <2>1
  <2>3. b < Len(a)
    <3>1. /\ t + n = b + Len(bytes) /\ t + n <= sent[s] /\ sent[s] <= Len(a) /\ n \in Nat
          /\ t \in Nat /\ b \in Nat /\ sent[s] \in Nat /\ Len(a) \in Nat
      BY <1>3, <1>6, <1>7
    <3> HIDE DEF t, a
    <3> QED
      BY ONLY <2>2, <3>1
  <2> QED
    BY <2>1, <2>2, <2>3
<1>9. ASSUME bytes # << >>
      PROVE  /\ v \in Request /\ stream[v] = s /\ End(v) = b + H + kind[v].length /\ v # NONE
             /\ kind[v].length \in Nat
             /\ \A i \in 1 .. H + kind[v].length : a[b + i] = <<v, i>>
  <2>1. PICK r \in Request :
           /\ stream[r] = s /\ End(r) = b + H + kind[r].length
           /\ \A i \in 1 .. H + kind[r].length : a[b + i] = <<r, i>>
    <3>1. Len(Through(s, p)) < Len(All(s))
      BY <1>8, <1>9 DEF b
    <3>2. TypeInv /\ p \in 0 .. NumRequests
      OBVIOUS
    <3>3. \E r \in Request :
            /\ stream[r] = s /\ r > p
            /\ End(r) = Len(Through(s, p)) + HeaderSize + kind[r].length
            /\ \A i \in 1 .. HeaderSize + kind[r].length : All(s)[Len(Through(s, p)) + i] = <<r, i>>
      BY ONLY <3>1, <3>2, NextRequest
    <3> QED
      BY <3>3 DEF b
  <2>2. kind[r].length \in Nat /\ r # NONE
    BY Constants DEF TypeInv
  <2>3. 1 \in 1 .. H + kind[r].length /\ 1 \in 1 .. Len(bytes)
    <3>1. Len(bytes) \in Nat /\ Len(bytes) >= 1 /\ H \in Nat \ {0}
      BY <1>4, <1>7, <1>8, <1>9
    <3> HIDE DEF H
    <3> QED
      BY ONLY <2>2, <3>1
  <2>4. bytes[1] = <<r, 1>>
    BY <1>7, <2>1, <2>3
  <2> QED
    BY <1>8, <1>9, <2>1, <2>2, <2>4
<1>10. v \in Request \cup {NONE} /\ (v # NONE => stream[v] = s /\ t < End(v))
  <2>1. CASE bytes = << >>
    BY <2>1
  <2>2. CASE bytes # << >>
    <3>1. t < End(v)
      BY <1>2, <1>3, <1>4, <1>9, <2>2 DEF b
    <3> QED
      BY <1>9, <2>2, <3>1
  <2> QED
    BY <2>1, <2>2
<1> HIDE DEF v
<1>11. CASE n = 0
  <2>1. sent[s] = t
    BY <1>3, <1>6, <1>11
  <2>2. s \in eof
    BY <1>1, <2>1, AvailableIs DEF Readable
  <2>3. n \in Nat /\ taken[s] + n <= sent[s] /\ Closes(s)
    BY <1>1, <1>3, <1>6, <1>7, <1>11
  <2> QED
    BY <1>1, <1>10, <2>2, <2>3 DEF Outcome
<1>12. n \in Nat /\ taken[s] + n <= sent[s] /\ taken'[s] = t + n /\ serving'[s] = v
  BY <1>1, <1>3, <1>6, <1>7 DEF TypeInv
<1>13. CASE n # 0 /\ Len(bytes) < H
  <2> DEFINE R == [have |-> NONE, bytes |-> bytes, size |-> size]
  <2>1. reader' = [reader EXCEPT ![s] = R] /\ UNCHANGED <<stage, req_recv>>
    BY <1>1, <1>13 DEF Partial
  <2>2. R \in Reader /\ reader'[s] = R /\ R.have = NONE /\ R.bytes = bytes /\ R.size = size
    BY <1>5, <1>7, <2>1 DEF TypeInv, Reader
  <2>3. HeaderSlice(s)'
    <3>1. All(s)' = a /\ Through(s, p)' = Through(s, p)
      BY <1>1, ThroughStays DEF All
    <3>2. /\ taken'[s] = Len(Through(s, p)) + Len(bytes)
          /\ bytes = SubSeq(a, Len(Through(s, p)) + 1, taken'[s])
      BY <1>7, <1>12 DEF b
    <3> QED
      BY <2>2, <3>1, <3>2 DEF HeaderSlice
  <2>4. size \in Nat \ {0} /\ Len(bytes) <= size
    BY <1>3, <1>5, <1>6, <1>7
  <2>5. v = IF bytes = << >> THEN NONE ELSE bytes[1][1]
    BY DEF v
  <2>6. ReadsHeader(s)'
    BY <1>12, <1>13, <2>2, <2>3, <2>4, <2>5 DEF ReadsHeader
  <2> QED
    BY <1>1, <1>10, <1>12, <2>1, <2>2, <2>6 DEF Outcome
<1>14. CASE n # 0 /\ ~(Len(bytes) < H)
  <2>1. bytes # << >> /\ Len(bytes) \in Nat /\ Len(bytes) >= H
    <3>1. bytes \in Seq(Cell) /\ H \in Nat \ {0} /\ ~(Len(bytes) < H)
      BY <1>4, <1>7, <1>14
    <3> HIDE DEF H
    <3> QED
      BY ONLY <3>1
  <2>2. /\ v \in Request /\ stream[v] = s /\ End(v) = b + H + kind[v].length /\ v # NONE
        /\ kind[v].length \in Nat /\ bytes[1][1] = v
        /\ \A i \in 1 .. H + kind[v].length : a[b + i] = <<v, i>>
    BY <1>8, <1>9, <2>1
  <2>3. ASSUME kind[v].valid PROVE Parsed(bytes)
    <3>1. \A i \in 1 .. H : i \in 1 .. H + kind[v].length /\ i \in 1 .. Len(bytes)
      BY <1>4, <2>1, <2>2
    <3>2. \A i \in 1 .. H : bytes[i] = <<v, i>>
      BY <1>7, <2>2, <3>1
    <3> QED
      BY <2>2, <2>3, <3>2 DEF Parsed
  <2>4. CASE ~Parsed(bytes)
    <3>1. Closes(s) /\ ~kind[v].valid
      BY <1>1, <1>14, <2>3, <2>4
    <3> QED
      BY <1>1, <1>10, <1>12, <2>2, <3>1 DEF Outcome
  <2>5. CASE Parsed(bytes)
    <3> DEFINE body == Rest(bytes, H)
               k    == Len(bytes)
               l    == kind[v].length
    <3>1. TakeBody(s, v, body)
      BY <1>1, <1>14, <2>2, <2>5
    <3>2. body \in Seq(Cell) /\ Len(body) = k - H /\ \A i \in 1 .. k - H : body[i] = bytes[H + i]
      <4>1. bytes \in Seq(Cell) /\ H \in Nat /\ k \in H .. Len(bytes)
        BY <1>4, <1>7, <2>1
      <4> HIDE DEF H, k
      <4>2. /\ SubSeq(bytes, H + 1, k) \in Seq(Cell) /\ Len(SubSeq(bytes, H + 1, k)) = k - H
            /\ \A i \in 1 .. k - H : SubSeq(bytes, H + 1, k)[i] = bytes[H + i]
        BY ONLY <4>1, Piece
      <4> QED
        BY <4>2 DEF Rest, k
    <3> HIDE DEF body, k, l
    <3>3. \A i \in 1 .. Least(Len(body), l) : body[i] = Body(v)[i]
      <4>1. ASSUME NEW i \in 1 .. Least(Len(body), l) PROVE body[i] = Body(v)[i]
        <5>1. i \in 1 .. k - H /\ i \in 1 .. l /\ H + i \in 1 .. k /\ H + i \in 1 .. H + l
              /\ i \in Nat
          BY <1>4, <2>1, <2>2, <3>2 DEF Least, k, l
        <5>2. body[i] = a[b + (H + i)]
          BY <1>7, <3>2, <5>1 DEF k
        <5>3. body[i] = <<v, H + i>>
          BY <2>2, <5>1, <5>2 DEF l
        <5> QED
          BY <2>2, <5>1, <5>3, BytesAre DEF l
      <4> QED
        BY <4>1
    <3>4. End(v) + Len(body) = t + n + l
      <4>1. Len(body) = k - H /\ k \in Nat /\ H \in Nat /\ b \in Nat /\ l \in Nat
            /\ t + n = b + k /\ End(v) = b + H + l
        BY <1>3, <1>4, <1>7, <2>1, <2>2, <3>2 DEF k, l
      <4>2. End(v) + Len(body) = b + k + l
        BY <4>1
      <4> QED
        BY <4>1, <4>2
    <3>5. taken[s] < End(v) /\ taken' = [taken EXCEPT ![s] = @ + n]
      BY <1>1, <1>10, <2>2
    <3>6. /\ End(v) + Len(body) = taken[s] + n + kind[v].length
          /\ \A i \in 1 .. Least(Len(body), kind[v].length) : body[i] = Body(v)[i]
      BY <3>3, <3>4 DEF l
    <3> HIDE DEF t
    <3>7. Outcome(s, n, v)
      BY <1>1, <1>12, <2>2, <3>1, <3>2, <3>5, <3>6, TakeBodyIs
    <3> QED
      BY <1>10, <1>12, <3>7
  <2> QED
    BY <2>4, <2>5
<1> QED
  BY <1>11, <1>13, <1>14

-----------------------------------------------------------------------------
(* The bytes of responses.                                                 *)

(* A beginning of a sequence is known by its elements.                     *)
LEMMA FirstIs ==
  ASSUME NEW S, NEW x \in Seq(S), NEW y \in Seq(S), Len(x) <= Len(y)
  PROVE  x = First(y, Len(x)) <=> \A i \in 1 .. Len(x) : x[i] = y[i]
<1> DEFINE k == Len(x)
           z == First(y, k)
<1>1. k \in 0 .. Len(y) /\ k \in Nat
  OBVIOUS
<1> HIDE DEF k
<1>2. z \in Seq(S) /\ Len(z) = k /\ \A i \in 1 .. k : z[i] = y[i]
  BY <1>1 DEF First
<1> HIDE DEF z
<1>3. ASSUME \A i \in 1 .. k : x[i] = y[i] PROVE x = z
  <2>1. x \in Seq(S) /\ z \in Seq(S) /\ Len(x) = Len(z) /\ \A i \in 1 .. Len(x) : x[i] = z[i]
    BY <1>2, <1>3 DEF k
  <2> QED
    BY ONLY <2>1, SameSeq
<1> QED
  BY <1>2, <1>3 DEF k, z

(* A response with header d and a body of n bytes, byte by byte.           *)
Response(r, d, n) == <<<<r, "header", d>>>> \o [i \in 1 .. n |-> <<r, "body", i>>]

IsResponse(x, r, d, n) ==
  /\ x \in Seq(OutCell) /\ Len(x) = n + 1 /\ x[1] = <<r, "header", d>>
  /\ \A i \in 1 .. n : x[i + 1] = <<r, "body", i>>

(* A response is a header and the bytes of a body, each at its place.      *)
LEMMA ResponseIs ==
  ASSUME NEW r \in Request, NEW d \in Nat, NEW n \in Nat
  PROVE  IsResponse(Response(r, d, n), r, d, n)
<1> DEFINE h == <<<<r, "header", d>>>>
           b == [i \in 1 .. n |-> <<r, "body", i>>]
<1>1. h \in Seq(OutCell) /\ Len(h) = 1 /\ h[1] = <<r, "header", d>>
  BY DEF OutCell
<1>2. b \in Seq(OutCell) /\ Len(b) = n /\ \A i \in 1 .. n : b[i] = <<r, "body", i>>
  BY DEF OutCell
<1>3. Response(r, d, n) = h \o b
  BY DEF Response
<1> HIDE DEF h, b
<1>4. /\ h \o b \in Seq(OutCell) /\ Len(h) \in Nat /\ Len(b) \in Nat /\ Len(h \o b) = Len(h) + Len(b)
      /\ \A i \in 1 .. Len(h) : (h \o b)[i] = h[i]
      /\ \A i \in 1 .. Len(b) : (h \o b)[Len(h) + i] = b[i]
  <2>1. h \in Seq(OutCell) /\ b \in Seq(OutCell)
    BY <1>1, <1>2
  <2> QED
    BY ONLY <2>1, Joined
<1>5. ASSUME NEW i \in 1 .. n PROVE (h \o b)[i + 1] = <<r, "body", i>>
  <2>1. i + 1 = Len(h) + i
    BY <1>1
  <2> QED
    BY <1>2, <1>4, <2>1
<1>6. (h \o b)[1] = <<r, "header", d>>
  BY <1>1, <1>4
<1> QED
  BY <1>1, <1>2, <1>3, <1>4, <1>5, <1>6 DEF IsResponse

(* What a client shall get.                                                *)
LEMMA DueIs ==
  ASSUME TypeInv, NEW r \in Request
  PROVE  /\ Due(r) \in Seq(OutCell) /\ Len(Due(r)) = yielded[r] + 1 /\ yielded[r] \in Nat
         /\ Due(r)[1] = <<r, "header", due[r]>>
         /\ \A i \in 1 .. yielded[r] : Due(r)[i + 1] = <<r, "body", i>>
<1>1. due[r] \in Nat /\ yielded[r] \in Nat
  BY DEF TypeInv
<1>2. Due(r) = Response(r, due[r], yielded[r])
  BY DEF Due, Response
<1>3. IsResponse(Due(r), r, due[r], yielded[r])
  BY <1>1, <1>2, ResponseIs
<1> QED
  BY <1>1, <1>3 DEF IsResponse

(* A beginning of a response.                                              *)
LEMMA IsDue ==
  ASSUME TypeInv, NEW r \in Request, NEW x \in Seq(OutCell)
  PROVE  /\ Len(x) \in Nat
         /\ (Len(x) <= yielded[r] + 1 /\ x = First(Due(r), Len(x)))
            <=> /\ Len(x) <= yielded[r] + 1
                /\ Len(x) >= 1 => x[1] = <<r, "header", due[r]>>
                /\ \A i \in 1 .. Len(x) - 1 : x[i + 1] = <<r, "body", i>>
<1> DEFINE d == Due(r)
           n == yielded[r]
<1>1. /\ d \in Seq(OutCell) /\ Len(d) = n + 1 /\ n \in Nat /\ d[1] = <<r, "header", due[r]>>
      /\ \A i \in 1 .. n : d[i + 1] = <<r, "body", i>>
  BY DueIs
<1> HIDE DEF d, n
<1>2. Len(x) \in Nat
  OBVIOUS
<1>3. Len(x) <= n + 1 => (x = First(d, Len(x)) <=> \A i \in 1 .. Len(x) : x[i] = d[i])
  BY <1>1, FirstIs
<1>4. ASSUME Len(x) <= n + 1, \A i \in 1 .. Len(x) : x[i] = d[i]
      PROVE  /\ Len(x) >= 1 => x[1] = <<r, "header", due[r]>>
             /\ \A i \in 1 .. Len(x) - 1 : x[i + 1] = <<r, "body", i>>
  <2>1. Len(x) >= 1 => x[1] = d[1]
    BY <1>2, <1>4
  <2>2. \A i \in 1 .. Len(x) - 1 : i \in 1 .. n /\ i + 1 \in 1 .. Len(x)
    BY <1>1, <1>2, <1>4
  <2> QED
    BY <1>1, <1>4, <2>1, <2>2
<1>5. ASSUME Len(x) <= n + 1, Len(x) >= 1 => x[1] = <<r, "header", due[r]>>,
             \A i \in 1 .. Len(x) - 1 : x[i + 1] = <<r, "body", i>>, NEW i \in 1 .. Len(x)
      PROVE  x[i] = d[i]
  <2>1. CASE i = 1
    <3>1. Len(x) >= 1
      BY <1>2
    <3>2. x[1] = <<r, "header", due[r]>> /\ d[1] = <<r, "header", due[r]>>
      BY <1>1, <1>5, <3>1
    <3> QED
      BY <2>1, <3>2
  <2>2. CASE i # 1
    <3>1. i - 1 \in 1 .. Len(x) - 1 /\ i - 1 \in 1 .. n /\ (i - 1) + 1 = i
      BY <1>1, <1>2, <1>5, <2>2
    <3>2. x[(i - 1) + 1] = <<r, "body", i - 1>> /\ d[(i - 1) + 1] = <<r, "body", i - 1>>
      BY <1>1, <1>5, <3>1
    <3> QED
      BY <3>1, <3>2
  <2> QED
    BY <2>1, <2>2
<1> QED
  BY <1>2, <1>3, <1>4, <1>5 DEF d, n

(* Bytes of a response body.                                               *)
LEMMA PartIs ==
  ASSUME NEW r \in Request, NEW m \in Nat, NEW n \in Nat, m <= n
  PROVE  Part(r, m, n) \in Seq(OutCell) /\ Len(Part(r, m, n)) = n - m
         /\ \A i \in 1 .. n - m : Part(r, m, n)[i] = <<r, "body", m + i>>
<1>1. n - m \in Nat
  OBVIOUS
<1>2. \A i \in 1 .. n - m : <<r, "body", m + i>> \in OutCell
  BY DEF OutCell
<1> QED
  BY <1>1, <1>2 DEF Part

-----------------------------------------------------------------------------
(* The initial states, and what no step changes.                           *)

(* At the start nothing has been sent, taken or written.                   *)
LEMMA ExchangeInit == Init => IInv
<1> SUFFICES ASSUME Init PROVE IInv
  OBVIOUS
<1>1. TypeInv
  <2>1. PICK l \in Load : stream = l.stream /\ kind = l.kind
    BY DEF Init
  <2>2. \A r \in Request :
          /\ stream[r] \in Stream /\ kind[r].length \in Nat
          /\ kind[r].valid \in BOOLEAN /\ kind[r].keep_alive \in BOOLEAN
    BY <2>1, ExchangeAssumption
  <2>3. /\ sent \in [Stream -> Nat] /\ taken \in [Stream -> Nat] /\ eof \cup given_up \subseteq Stream
        /\ stage \in [Stream -> {"idle", "reading", "waiting", "writing", "closed"}]
        /\ serving \in [Stream -> Request \cup {NONE}]
    BY DEF Init
  <2>4. NewReader \in Reader /\ NewWriter \in Writer
    BY Constants DEF NewReader, NewWriter, Reader, Writer
  <2>5. reader \in [Stream -> Reader] /\ writer \in [Stream -> Writer]
    BY <2>4 DEF Init
  <2>6. /\ req_recv \in Seq([req : Request, body : Seq(Cell)])
        /\ chan \in [Request -> Seq(Seq(OutCell))] /\ receiving \subseteq Request
        /\ due \in [Request -> Nat] /\ yielded \in [Request -> Nat]
        /\ out \in [Request -> Seq(OutCell)]
    BY DEF Init, NONE
  <2>7. calls \in [starts : Nat, chunks : Nat, raises : Nat]
    BY DEF Init, NoCalls
  <2> QED
    BY <2>2, <2>3, <2>5, <2>6, <2>7 DEF TypeInv
<1>2. QueueInv
  BY DEF Init, QueueInv
<1>3. ThreadInv
  <2>1. SlotsOwn
    BY DEF Init, SlotsOwn
  <2>2. ReadLinesInv
    BY DEF Init, ReadLinesInv
  <2> QED
    BY <2>1, <2>2 DEF Init, ThreadInv, Slot
<1>4. ASSUME NEW s \in Stream PROVE StreamInv(s)
  <2>1. Len(All(s)) \in Nat
    BY <1>1, Constants, ThroughType DEF All
  <2> QED
    BY <1>1, <2>1 DEF Init, StreamInv
<1>5. ASSUME NEW r \in Request PROVE ResponseInv(r)
  <2>1. stream[r] \in Stream /\ stage[stream[r]] = "idle" /\ out[r] = << >> /\ yielded[r] = 0
        /\ chan[r] = << >> /\ receiving = {}
    BY <1>1 DEF TypeInv, Init
  <2>2. ~Writing(r)
    BY <2>1 DEF Writing
  <2>3. out[r] = First(Due(r), Len(out[r]))
    BY <1>1, <2>1, DueIs DEF First
  <2> QED
    BY <2>1, <2>2, <2>3 DEF ResponseInv
<1> QED
  BY <1>1, <1>2, <1>3, <1>4, <1>5 DEF IInv

(* What the application does with WsgiInput.                               *)
AppReads == Read \/ ReadLine \/ ReadLines \/ ReadLinesTurn

(* The actions of one stream, and the answer.                              *)
Answers == CallRaises \/ NotStarted \/ FirstRaises \/ FirstChunk

(* No step changes what clients send, or takes a close or a failure back.  *)
LEMMA Kept ==
  ASSUME [Next]_vars
  PROVE  /\ UNCHANGED <<stream, kind>> /\ eof \subseteq eof' /\ given_up \subseteq given_up'
<1> USE DEF clientVars
<1>1. CASE Thread
  BY <1>1 DEF Thread, App, Take, StartResponse, Read, ReadLine, ReadLines,
    ReadLinesTurn, CallRaises, NotStarted, FirstRaises, Fails, CallReturns, FirstChunk, NextChunk,
    NextRaises, NoMore, SendMemory, TurnEnds
<1>2. CASE Quiet \/ UNCHANGED vars
  BY <1>2 DEF Quiet, vars
<1>3. ASSUME NEW s \in Stream,
             \/ Send(s) \/ CloseWrite(s) \/ GiveUp(s) \/ TakeOn(s)
             \/ ReadHeader(s) \/ ReadBody(s) \/ WriteStream(s)
      PROVE  UNCHANGED <<stream, kind>> /\ eof \subseteq eof' /\ given_up \subseteq given_up'
  BY <1>3 DEF Send, CloseWrite, GiveUp, TakeOn, ReadHeader, ReadBody, WriteStream
<1> QED
  BY <1>1, <1>2, <1>3 DEF Next

(* Neither are the bytes of a stream or of a body changed.                 *)
LEMMA SameData ==
  ASSUME UNCHANGED <<stream, kind>>
  PROVE  /\ \A s, r : Through(s, r)' = Through(s, r)
         /\ \A s : All(s)' = All(s)
         /\ \A r : End(r)' = End(r) /\ Body(r)' = Body(r)
BY ThroughStays DEF All, End, Body, Bytes, Rest

(* A stream to which nothing happens.                                      *)
LEMMA StreamStays ==
  ASSUME NEW s \in Stream, TypeInv, StreamInv(s), UNCHANGED <<stream, kind>>,
         eof \subseteq eof', given_up \subseteq given_up',
         sent'[s] = sent[s], taken'[s] = taken[s], serving'[s] = serving[s], stage'[s] = stage[s],
         reader'[s] = reader[s], writer'[s] = writer[s],
         serving[s] # NONE /\ out[serving[s]] # << >> => out'[serving[s]] # << >>
  PROVE  StreamInv(s)'
<1>1. /\ \A r : Through(s, r)' = Through(s, r) /\ End(r)' = End(r) /\ Body(r)' = Body(r)
      /\ All(s)' = All(s)
  BY SameData
<1>2. HeaderSlice(s) => HeaderSlice(s)'
  BY <1>1 DEF HeaderSlice
<1>3. ReadsHeader(s) => ReadsHeader(s)'
  BY <1>2 DEF ReadsHeader
<1>4. ReadsBody(s) => ReadsBody(s)'
  BY <1>1 DEF ReadsBody
<1>5. /\ sent'[s] <= Len(All(s)') /\ taken'[s] <= sent'[s]
      /\ serving'[s] # NONE => stream'[serving'[s]] = s
      /\ stage'[s] # "reading" => reader'[s] = NewReader
      /\ stage'[s] # "writing" => writer'[s] = NewWriter
      /\ stage'[s] \in {"waiting", "writing"} => serving'[s] # NONE
  BY <1>1 DEF StreamInv, NewReader, NewWriter
<1>6. stage'[s] \in {"idle", "waiting", "writing"} =>
        taken'[s] = IF serving'[s] = NONE THEN 0 ELSE End(serving[s])'
  BY <1>1 DEF StreamInv
<1>7. stage'[s] = "reading" => IF reader'[s].have = NONE THEN ReadsHeader(s)' ELSE ReadsBody(s)'
  BY <1>3, <1>4 DEF StreamInv
<1>8. stage'[s] = "closed" /\ s \notin eof' \cup given_up' =>
        /\ serving'[s] # NONE
        /\ \/ ~kind'[serving'[s]].valid
           \/ ~kind'[serving'[s]].keep_alive /\ out'[serving'[s]] # << >>
           \/ taken'[s] > End(serving[s])'
  BY <1>1 DEF StreamInv
<1> QED
  BY <1>5, <1>6, <1>7, <1>8 DEF StreamInv, NewReader, NewWriter

(* Steps of the python thread that do not answer.                          *)
Silent == \/ Take \/ StartResponse \/ AppReads \/ CallReturns \/ NextChunk \/ NextRaises
          \/ NoMore \/ SendMemory \/ Quiet \/ UNCHANGED vars

(* The steps, by what they do to streams and responses.                    *)
LEMMA ByAction ==
  ASSUME [Next]_vars
  PROVE  \/ Silent \/ Answers
         \/ \E s \in Stream : \/ Send(s) \/ CloseWrite(s) \/ GiveUp(s) \/ TakeOn(s)
                              \/ ReadHeader(s) \/ ReadBody(s) \/ WriteStream(s)
BY DEF Next, Thread, App, AppReads, Silent, Answers

(* Most steps of the thread leave streams and what is written alone.       *)
LEMMA SilentIs ==
  ASSUME Silent
  PROVE  UNCHANGED <<clientVars, streamVars, receiving, out>>
<1> USE DEF clientVars, streamVars, doneVars, chanVars
<1>1. CASE Take \/ StartResponse \/ AppReads \/ CallReturns
  BY <1>1 DEF Take, StartResponse, AppReads, Read, ReadLine, ReadLines, ReadLinesTurn, CallReturns
<1>2. CASE NextChunk \/ NextRaises \/ NoMore \/ SendMemory
  BY <1>2 DEF NextChunk, NextRaises, NoMore, SendMemory, TurnEnds
<1>3. CASE Quiet \/ UNCHANGED vars
  BY <1>3 DEF Quiet, vars
<1> QED
  BY <1>1, <1>2, <1>3 DEF Silent

(* The answer to the request the thread is at.                             *)
LEMMA AnswerIs ==
  ASSUME TypeInv, ThreadInv, Answers
  PROVE  /\ cur \in Request /\ cur # NONE /\ AllTaken(cur) /\ thr \in {"call", "first"}
         /\ sending = {cur}
         /\ UNCHANGED <<clientVars, taken, reader, serving, req_recv, cur, context, input, pos,
                        in_readlines, chan, sending, out>>
         /\ thr' \in {"stream", "memory"} /\ header' = << >> /\ ~in_readlines
         /\ response_header' = response_header
         /\ due' = [due EXCEPT ![cur] = due'[cur]] /\ due'[cur] \in Nat
         /\ Respond([req |-> cur, start |-> due'[cur]])
         /\ \/ /\ next_val' = << >> /\ yielded' = yielded /\ thr' = "stream"
            \/ \E n \in Nat : /\ next_val' = <<Chunk(n)>>
                              /\ yielded' = [yielded EXCEPT ![cur] = IF thr' = "memory" THEN n ELSE @ + n]
         /\ calls' \in [starts : Nat, chunks : Nat, raises : Nat]
<1>1. thr \in {"call", "first"}
  BY DEF Answers, CallRaises, NotStarted, FirstRaises, FirstChunk
<1>2. cur \in Request /\ AllTaken(cur) /\ sending = {cur} /\ cur # NONE
  BY <1>1, Constants DEF ThreadInv, AllTaken
<1>3. due \in [Request -> Nat] /\ yielded \in [Request -> Nat]
      /\ calls \in [starts : Nat, chunks : Nat, raises : Nat]
  BY DEF TypeInv
<1>0. ~in_readlines /\ UNCHANGED <<input, pos, in_readlines>>
  BY DEF Answers, CallRaises, NotStarted, FirstRaises, FirstChunk, Fails, AppRuns, inputVars
<1>4. CASE CallRaises \/ NotStarted \/ FirstRaises
  <2>1. Fails /\ UNCHANGED response_header
    BY <1>4 DEF CallRaises, NotStarted, FirstRaises
  <2>2. due' = [due EXCEPT ![cur] = NONE] /\ due'[cur] = NONE /\ NONE \in Nat
    BY <1>2, <1>3, <2>1 DEF Fails, NONE
  <2>3. \E n \in Nat : next_val' = <<Chunk(n)>> /\ yielded' = [yielded EXCEPT ![cur] = n]
    BY <2>1 DEF Fails
  <2> QED
    BY <1>0, <1>1, <1>2, <1>3, <2>1, <2>2, <2>3 DEF Fails
<1>5. CASE FirstChunk
  <2>1. header[1] = [req |-> cur, start |-> due[cur]] /\ due' = due
    BY <1>5 DEF ThreadInv, FirstChunk
  <2>2. \/ next_val' = << >> /\ yielded' = yielded /\ calls' = calls
        \/ \E n \in 0 .. MaxYields :
             /\ next_val' = <<Chunk(n)>> /\ yielded' = [yielded EXCEPT ![cur] = @ + n]
             /\ calls' = [calls EXCEPT !.chunks = @ + 1]
    BY <1>5 DEF FirstChunk, Ends, Yields
  <2>3. MaxYields \in Nat
    BY ExchangeAssumption
  <2>4. due' = [due EXCEPT ![cur] = due'[cur]] /\ due'[cur] \in Nat
    BY <1>2, <1>3, <2>1
  <2>5. calls' \in [starts : Nat, chunks : Nat, raises : Nat]
    BY <1>3, <2>2
  <2>6. Respond([req |-> cur, start |-> due'[cur]])
    BY <1>5, <2>1 DEF FirstChunk
  <2> QED
    BY <1>0, <1>1, <1>2, <1>5, <2>2, <2>3, <2>4, <2>5, <2>6 DEF FirstChunk, slotVars
<1> QED
  BY <1>4, <1>5 DEF Answers

-----------------------------------------------------------------------------
(* Streams.                                                                *)

(* Steps of the thread.                                                    *)
LEMMA StreamThread ==
  ASSUME TypeInv, ThreadInv, NEW s \in Stream, StreamInv(s), Silent \/ Answers
  PROVE  StreamInv(s)'
<1>1. CASE Silent
  <2>1. UNCHANGED <<clientVars, streamVars, out>>
    BY <1>1, SilentIs
  <2> QED
    BY <2>1, StreamStays DEF clientVars, streamVars
<1>2. CASE Answers
  <2>1. /\ UNCHANGED <<clientVars, taken, reader, serving, out>> /\ cur \in Request
        /\ Respond([req |-> cur, start |-> due'[cur]])
    BY <1>2, AnswerIs
  <2>2. UNCHANGED <<stream, kind, eof, given_up, sent, taken, reader, serving, out>>
    BY <2>1 DEF clientVars
  <2>3. CASE stage'[s] = stage[s] /\ writer'[s] = writer[s]
    BY <2>2, <2>3, StreamStays
  <2>4. CASE ~(stage'[s] = stage[s] /\ writer'[s] = writer[s])
    <3>1. stage[s] = "waiting" /\ stage'[s] = "writing"
      <4>1. stage \in [Stream -> {"idle", "reading", "waiting", "writing", "closed"}]
            /\ writer \in [Stream -> Writer]
        BY DEF TypeInv
      <4> QED
        BY <2>1, <2>4, <4>1 DEF Respond
    <3>2. /\ sent[s] <= Len(All(s)) /\ taken[s] <= sent[s]
          /\ serving[s] # NONE /\ stream[serving[s]] = s /\ reader[s] = NewReader
          /\ taken[s] = End(serving[s])
      BY <3>1 DEF StreamInv
    <3>3. \A r : End(r)' = End(r)
      BY <2>2, SameData
    <3>4. All(s)' = All(s)
      BY <2>2, SameData
    <3> QED
      BY <2>2, <3>1, <3>2, <3>3, <3>4 DEF StreamInv, NewReader, NewWriter
  <2> QED
    BY <2>3, <2>4
<1> QED
  BY <1>1, <1>2

(* Steps of a client.                                                      *)
LEMMA StreamClient ==
  ASSUME TypeInv, NEW s \in Stream, NEW t \in Stream, StreamInv(s), Send(t) \/ CloseWrite(t)
  PROVE  StreamInv(s)'
<1>1. CASE CloseWrite(t)
  BY <1>1, StreamStays DEF CloseWrite, streamVars, doneVars
<1>2. CASE Send(t) /\ s # t
  BY <1>2, StreamStays DEF Send, streamVars, doneVars, TypeInv
<1>3. CASE Send(t) /\ s = t
  <2>1. PICK n \in sent[s] + 1 .. Len(All(s)) : sent' = [sent EXCEPT ![s] = n]
    BY <1>3 DEF Send, All
  <2>2. UNCHANGED <<stream, kind, eof, given_up, stage, taken, reader, writer, serving, out>>
    BY <1>3 DEF Send, streamVars, doneVars
  <2>3. All(s)' = All(s)
    BY <2>2, SameData
  <2>4. sent'[s] = n /\ n \in Nat /\ n <= Len(All(s)) /\ taken[s] <= n
    BY <2>1, AvailableIs DEF TypeInv
  <2>5. sent[s] <= Len(All(s)) /\ taken[s] <= sent[s]
    BY DEF StreamInv
  <2>6. /\ \A r : Through(s, r)' = Through(s, r) /\ End(r)' = End(r) /\ Body(r)' = Body(r)
    BY <2>2, SameData
  <2>7. HeaderSlice(s) => HeaderSlice(s)'
    BY <2>2, <2>3, <2>6 DEF HeaderSlice
  <2>8. ReadsHeader(s) => ReadsHeader(s)'
    BY <2>2, <2>7 DEF ReadsHeader
  <2>9. ReadsBody(s) => ReadsBody(s)'
    BY <2>2, <2>6 DEF ReadsBody
  <2> QED
    BY <2>2, <2>3, <2>4, <2>6, <2>8, <2>9 DEF StreamInv, NewReader, NewWriter
<1> QED
  BY <1>1, <1>2, <1>3

(* A stream that is given up has no reader and no writer.                  *)
LEMMA StreamGivesUp ==
  ASSUME TypeInv, NEW s \in Stream, NEW t \in Stream, StreamInv(s), GiveUp(t)
  PROVE  StreamInv(s)'
<1>1. UNCHANGED <<stream, kind, eof, taken, serving, out>> /\ given_up \subseteq given_up'
  BY DEF GiveUp, doneVars
<1>2. CASE s # t
  BY <1>1, <1>2, StreamStays DEF GiveUp, TypeInv
<1>3. CASE s = t
  <2>1. stage'[s] = "closed" /\ reader'[s] = NewReader /\ writer'[s] = NewWriter /\ s \in given_up'
        /\ sent'[s] = taken[s]
    BY <1>3 DEF GiveUp, TypeInv
  <2>2. All(s)' = All(s)
    BY <1>1, SameData
  <2>3. taken[s] \in Nat /\ taken[s] <= Len(All(s)) /\ taken[s] <= taken[s]
    BY AvailableIs
  <2>4. taken'[s] = taken[s] /\ serving'[s] = serving[s] /\ (serving[s] # NONE => stream[serving[s]] = s)
    BY <1>3 DEF GiveUp, StreamInv
  <2>5. sent'[s] <= Len(All(s))' /\ taken'[s] <= sent'[s]
    BY <2>1, <2>2, <2>3, <2>4
  <2>6. serving'[s] # NONE => stream'[serving'[s]] = s
    BY <1>1, <2>4
  <2> QED
    BY <2>1, <2>5, <2>6 DEF StreamInv
<1> QED
  BY <1>2, <1>3

(* A stream that is taken on has a new reader and no request yet.          *)
LEMMA StreamTakenOn ==
  ASSUME TypeInv, NEW s \in Stream, NEW t \in Stream, StreamInv(s), TakeOn(t)
  PROVE  StreamInv(s)'
<1>1. UNCHANGED <<stream, kind, sent, eof, given_up, taken, writer, out>>
  BY DEF TakeOn, clientVars, doneVars
<1>2. CASE s # t
  BY <1>1, <1>2, StreamStays DEF TakeOn, TypeInv
<1>3. CASE s = t
  <2>1. stage[s] = "idle" /\ stage'[s] = "reading" /\ reader'[s] = NewReader /\ serving'[s] = NONE
    BY <1>3 DEF TakeOn, TypeInv
  <2>2. /\ \A p : Through(s, p)' = Through(s, p)
        /\ All(s)' = All(s)
    BY <1>1, SameData
  <2>3. /\ All(s) \in Seq(Cell) /\ taken[s] \in Nat /\ taken[s] <= sent[s] /\ sent[s] <= Len(All(s))
        /\ taken[s] <= Len(All(s))
    BY AvailableIs
  <2>4. \E p \in 0 .. NumRequests : taken[s] = Len(Through(s, p))
    <3>1. taken[s] = IF serving[s] = NONE THEN 0 ELSE End(serving[s])
      BY <2>1 DEF StreamInv
    <3>2. CASE serving[s] = NONE
      <4>1. Through(s, 0) = << >>
        BY ThroughStep
      <4>2. Len(<< >>) = 0 /\ 0 \in 0 .. NumRequests
        BY Constants
      <4> QED
        BY <3>1, <3>2, <4>1, <4>2
    <3>3. CASE serving[s] # NONE
      <4>1. serving[s] \in Request /\ stream[serving[s]] = s
        BY <3>3 DEF TypeInv, StreamInv
      <4>2. serving[s] \in 0 .. NumRequests
        BY <4>1, Constants DEF Request
      <4> QED
        BY <3>1, <3>3, <4>1, <4>2 DEF End
    <3> QED
      BY <3>2, <3>3
  <2>5. HeaderSlice(s)'
    <3>1. PICK p \in 0 .. NumRequests : taken[s] = Len(Through(s, p))
      BY <2>4
    <3>2. SubSeq(All(s), taken[s] + 1, taken[s]) = << >> /\ Len(<< >>) = 0
      BY <2>3
    <3>3. taken'[s] = Len(Through(s, p)') + Len(reader'[s].bytes)
          /\ reader'[s].bytes = SubSeq(All(s)', Len(Through(s, p)') + 1, taken'[s])
      BY <1>1, <2>1, <2>2, <2>3, <3>1, <3>2 DEF NewReader
    <3> QED
      BY <3>1, <3>3 DEF HeaderSlice
  <2>6. ReadsHeader(s)'
    BY <2>1, <2>5, Constants DEF ReadsHeader, NewReader
  <2>7. writer[s] = NewWriter
    BY <2>1 DEF StreamInv
  <2> QED
    BY <1>1, <2>1, <2>2, <2>3, <2>6, <2>7 DEF StreamInv, NewReader, NewWriter
<1> QED
  BY <1>2, <1>3

(* A read, of the header or of the body.                                   *)
LEMMA ReadStep ==
  ASSUME TypeInv, NEW s \in Stream, StreamInv(s), ReadHeader(s) \/ ReadBody(s)
  PROVE  /\ stage[s] = "reading" /\ UNCHANGED <<clientVars, writer, threadVars, chanVars, doneVars>>
         /\ \E n \in Nat, v \in Request \cup {NONE} : Outcome(s, n, v)
<1>1. stage[s] = "reading" /\ UNCHANGED <<clientVars, writer, threadVars, chanVars, doneVars>>
  BY DEF ReadHeader, ReadBody
<1> QED
  BY <1>1, ReadHeaderStep, ReadBodyStep

(* A read moves bytes from a stream to its reader, or to the queue.        *)
LEMMA StreamReads ==
  ASSUME TypeInv, NEW s \in Stream, NEW t \in Stream, StreamInv(s), StreamInv(t),
         ReadHeader(t) \/ ReadBody(t)
  PROVE  StreamInv(s)'
<1>1. stage[t] = "reading" /\ UNCHANGED <<stream, kind, sent, eof, given_up, writer, out>>
  BY ReadStep DEF clientVars, doneVars
<1>2. PICK n \in Nat, v \in Request \cup {NONE} : Outcome(t, n, v)
  BY ReadStep
<1>3. CASE s # t
  <2>1. taken'[s] = taken[s] /\ serving'[s] = serving[s]
    BY <1>2, <1>3 DEF Outcome, TypeInv
  <2>2. stage'[s] = stage[s] /\ reader'[s] = reader[s]
    <3>1. CASE Closes(t)
      BY <1>3, <3>1 DEF Closes, TypeInv
    <3>2. CASE Complete(t, v, Body(v))
      BY <1>3, <3>2 DEF Complete, TypeInv
    <3>3. CASE reader' = [reader EXCEPT ![t] = reader'[t]] /\ UNCHANGED <<stage, req_recv>>
      BY <1>3, <3>3 DEF TypeInv
    <3> QED
      BY <1>2, <3>1, <3>2, <3>3 DEF Outcome
  <2> QED
    BY <1>1, <2>1, <2>2, StreamStays
<1>4. CASE s = t
  <2>1. /\ taken[s] \in Nat /\ taken'[s] = taken[s] + n /\ taken'[s] <= sent[s] /\ serving'[s] = v
        /\ (v # NONE => stream[v] = s) /\ sent[s] <= Len(All(s)) /\ writer[s] = NewWriter
    BY <1>1, <1>2, <1>4 DEF Outcome, TypeInv, StreamInv
  <2>2. All(s)' = All(s) /\ (\A r : End(r)' = End(r))
    BY <1>1, SameData
  <2>3. CASE Closes(t) /\ (s \in eof \/ (v # NONE /\ (~kind[v].valid \/ taken[s] + n > End(v))))
    <3>1. stage'[s] = "closed" /\ reader'[s] = NewReader
      BY <1>4, <2>3 DEF Closes, TypeInv
    <3> QED
      BY <1>1, <2>1, <2>2, <2>3, <3>1 DEF StreamInv, NewReader, NewWriter
  <2>4. CASE v # NONE /\ Complete(t, v, Body(v)) /\ taken[s] + n = End(v)
    <3>1. stage'[s] = "waiting" /\ reader'[s] = NewReader
      BY <1>4, <2>4 DEF Complete, TypeInv
    <3> QED
      BY <1>1, <2>1, <2>2, <2>4, <3>1 DEF StreamInv, NewReader, NewWriter
  <2>5. CASE /\ stage' = stage
             /\ IF reader'[t].have = NONE THEN ReadsHeader(t)' ELSE ReadsBody(t)'
    <3>1. stage'[s] = "reading"
      BY <1>1, <1>4, <2>5
    <3> QED
      BY <1>1, <1>4, <2>1, <2>2, <2>5, <3>1 DEF StreamInv, NewReader, NewWriter
  <2> QED
    BY <1>2, <1>4, <2>3, <2>4, <2>5 DEF Outcome
<1> QED
  BY <1>3, <1>4

-----------------------------------------------------------------------------
(* The chunks of a body channel.                                           *)

(* Chunks in a channel.                                                    *)
LEMMA InChunksEmpty ==
  ASSUME NEW r, NEW k \in Nat, NEW m \in Nat
  PROVE  InChunks(<< >>, r, k, m) <=> k = m
<1>1. ASSUME k = m PROVE InChunks(<< >>, r, k, m)
  <2> DEFINE a == [i \in 0 .. 0 |-> k]
  <2>1. a \in [0 .. Len(<< >>) -> 0 .. m] /\ a[0] = k /\ a[Len(<< >>)] = m
    BY <1>1
  <2>2. \A i \in 1 .. Len(<< >>) : FALSE
    OBVIOUS
  <2> HIDE DEF a
  <2> QED
    BY <2>1, <2>2 DEF InChunks
<1> QED
  BY <1>1 DEF InChunks

(* The first chunk, and what is left when it has been received.            *)
LEMMA InChunksTail ==
  ASSUME NEW S, NEW q \in Seq(S), q # << >>, NEW r, NEW k \in Nat, NEW m \in Nat, InChunks(q, r, k, m)
  PROVE  \E b \in k .. m : Head(q) = Part(r, k, b) /\ InChunks(Tail(q), r, b, m)
<1>1. PICK a \in [0 .. Len(q) -> 0 .. m] :
        /\ a[0] = k /\ a[Len(q)] = m
        /\ \A i \in 1 .. Len(q) : a[i - 1] <= a[i] /\ q[i] = Part(r, a[i - 1], a[i])
  BY DEF InChunks
<1>2. Len(q) \in Nat \ {0} /\ Tail(q) \in Seq(S) /\ Len(Tail(q)) = Len(q) - 1 /\ Head(q) = q[1]
      /\ \A i \in 1 .. Len(q) - 1 : Tail(q)[i] = q[i + 1]
  OBVIOUS
<1> DEFINE n == Len(q)
           c == [i \in 0 .. n - 1 |-> a[i + 1]]
<1>3. a[1] \in k .. m /\ Head(q) = Part(r, k, a[1])
  <2>1. 1 \in 1 .. n /\ 1 - 1 = 0 /\ a[1] \in 0 .. m
    BY <1>1, <1>2
  <2> QED
    BY <1>1, <1>2, <2>1
<1>4. c \in [0 .. n - 1 -> 0 .. m] /\ c[0] = a[1] /\ c[n - 1] = m
  <2>1. n - 1 \in 0 .. n - 1 /\ 0 \in 0 .. n - 1 /\ (n - 1) + 1 = n /\ 0 + 1 = 1
    BY <1>2
  <2>2. \A i \in 0 .. n - 1 : i + 1 \in 0 .. n
    BY <1>2
  <2> HIDE DEF n
  <2> QED
    BY <1>1, <2>1, <2>2 DEF n
<1>5. ASSUME NEW i \in 1 .. n - 1
      PROVE  c[i - 1] <= c[i] /\ Tail(q)[i] = Part(r, c[i - 1], c[i])
  <2>1. i + 1 \in 1 .. n /\ i - 1 \in 0 .. n - 1 /\ i \in 0 .. n - 1 /\ (i + 1) - 1 = i /\ (i - 1) + 1 = i
    BY <1>2
  <2>2. c[i - 1] = a[i] /\ c[i] = a[i + 1]
    BY <2>1
  <2>3. a[(i + 1) - 1] <= a[i + 1] /\ q[i + 1] = Part(r, a[(i + 1) - 1], a[i + 1])
    BY <1>1, <2>1
  <2> HIDE DEF c
  <2> QED
    BY <1>2, <2>1, <2>2, <2>3
<1> HIDE DEF c, n
<1>6. InChunks(Tail(q), r, a[1], m)
  <2>1. Len(Tail(q)) = n - 1
    BY <1>2 DEF n
  <2> QED
    BY <1>4, <1>5, <2>1 DEF InChunks
<1> QED
  BY <1>3, <1>6

(* A chunk that is sent goes on where the last one ended.                  *)
LEMMA InChunksAppend ==
  ASSUME NEW S, NEW q \in Seq(S), NEW r, NEW k \in Nat, NEW m \in Nat, InChunks(q, r, k, m),
         NEW b \in Nat, m <= b, NEW e \in S, e = Part(r, m, b)
  PROVE  InChunks(Append(q, e), r, k, b)
<1>1. PICK a \in [0 .. Len(q) -> 0 .. m] :
        /\ a[0] = k /\ a[Len(q)] = m
        /\ \A i \in 1 .. Len(q) : a[i - 1] <= a[i] /\ q[i] = Part(r, a[i - 1], a[i])
  BY DEF InChunks
<1> DEFINE n == Len(q)
           p == Append(q, e)
           c == [i \in 0 .. n + 1 |-> IF i = n + 1 THEN b ELSE a[i]]
<1>2. n \in Nat /\ Len(p) = n + 1 /\ p[n + 1] = e /\ \A i \in 1 .. n : p[i] = q[i]
  OBVIOUS
<1>3. c \in [0 .. n + 1 -> 0 .. b] /\ c[0] = k /\ c[n + 1] = b
  <2>1. \A i \in 0 .. n + 1 : (IF i = n + 1 THEN b ELSE a[i]) \in 0 .. b
    <3>1. \A i \in 0 .. n + 1 : i # n + 1 => i \in 0 .. n
      BY <1>2
    <3>2. \A i \in 0 .. n : a[i] \in 0 .. b
      BY <1>1
    <3> QED
      BY <3>1, <3>2
  <2>2. 0 \in 0 .. n + 1 /\ n + 1 \in 0 .. n + 1 /\ 0 # n + 1
    BY <1>2
  <2> HIDE DEF n
  <2> QED
    BY <1>1, <2>1, <2>2
<1>4. ASSUME NEW i \in 1 .. n + 1 PROVE c[i - 1] <= c[i] /\ p[i] = Part(r, c[i - 1], c[i])
  <2>1. CASE i = n + 1
    <3>1. i - 1 = n /\ n \in 0 .. n + 1 /\ n # n + 1 /\ n + 1 \in 0 .. n + 1
      BY <1>2, <2>1
    <3>2. c[i - 1] = m /\ c[i] = b
      BY <1>1, <2>1, <3>1
    <3> HIDE DEF c, p
    <3> QED
      BY <1>2, <2>1, <3>2
  <2>2. CASE i # n + 1
    <3>1. i \in 1 .. n /\ i - 1 \in 0 .. n + 1 /\ i - 1 # n + 1 /\ i \in 0 .. n + 1
      BY <1>2, <2>2
    <3>2. c[i - 1] = a[i - 1] /\ c[i] = a[i]
      BY <2>2, <3>1
    <3> HIDE DEF c, p
    <3> QED
      BY <1>1, <1>2, <3>1, <3>2
  <2> QED
    BY <2>1, <2>2
<1> HIDE DEF c, n, p
<1>5. InChunks(p, r, k, b)
  BY <1>2, <1>3, <1>4 DEF InChunks
<1> QED
  BY <1>5 DEF p

(* The first n elements of y move to the end of x.                         *)
Moves(S, x, y, n) ==
  /\ First(y, n) \in Seq(S) /\ Rest(y, n) \in Seq(S) /\ x \o First(y, n) \in Seq(S)
  /\ Len(First(y, n)) = n /\ Len(Rest(y, n)) = Len(y) - n /\ Len(x \o First(y, n)) = Len(x) + n
  /\ \A i \in 1 .. Len(x) + n : (x \o First(y, n))[i] = (x \o y)[i]
  /\ (x \o First(y, n)) \o Rest(y, n) = x \o y

(* A write takes the first n bytes of the buffer y; nothing is lost, and   *)
(* nothing is twice.                                                       *)
LEMMA Halves ==
  ASSUME NEW S, NEW x \in Seq(S), NEW y \in Seq(S), NEW n \in Nat, n <= Len(y)
  PROVE  Moves(S, x, y, n)
<1> DEFINE f == First(y, n)
           g == Rest(y, n)
           z == x \o f
<1>1. n \in Nat /\ Len(x) \in Nat /\ Len(y) \in Nat /\ n <= Len(y) /\ Len(y) \in n .. Len(y)
  OBVIOUS
<1>2. f \in Seq(S) /\ Len(f) = n /\ \A i \in 1 .. n : f[i] = y[i]
  BY <1>1 DEF First
<1>3. g \in Seq(S) /\ Len(g) = Len(y) - n /\ \A i \in 1 .. Len(y) - n : g[i] = y[n + i]
  BY <1>1, Piece DEF Rest
<1> HIDE DEF f, g
<1>4. /\ z \in Seq(S) /\ Len(z) = Len(x) + n
      /\ \A i \in 1 .. Len(x) : z[i] = x[i]
      /\ \A i \in 1 .. n : z[Len(x) + i] = f[i]
  <2>1. /\ x \o f \in Seq(S) /\ Len(x \o f) = Len(x) + Len(f)
        /\ \A i \in 1 .. Len(x) : (x \o f)[i] = x[i]
        /\ \A i \in 1 .. Len(f) : (x \o f)[Len(x) + i] = f[i]
    <3>1. x \in Seq(S) /\ f \in Seq(S)
      BY <1>2
    <3> QED
      BY ONLY <3>1, Joined, SMTT(60)
  <2> QED
    BY <1>2, <2>1
<1>5. /\ x \o y \in Seq(S) /\ Len(x \o y) = Len(x) + Len(y)
      /\ \A i \in 1 .. Len(x) : (x \o y)[i] = x[i]
      /\ \A i \in 1 .. Len(y) : (x \o y)[Len(x) + i] = y[i]
  BY Joined
<1> DEFINE w == x \o y
<1> HIDE DEF z, w
<1>6. ASSUME NEW i \in 1 .. Len(x) + n PROVE z[i] = w[i]
  <2>1. CASE i <= Len(x)
    <3>1. i \in 1 .. Len(x)
      BY <1>1, <2>1
    <3> QED
      BY <1>4, <1>5, <3>1 DEF w
  <2>2. CASE i > Len(x)
    <3>1. PICK j \in 1 .. n : i = Len(x) + j /\ j \in 1 .. Len(y)
      <4>1. i - Len(x) \in 1 .. n /\ i = Len(x) + (i - Len(x)) /\ i - Len(x) \in 1 .. Len(y)
        BY <1>1, <2>2
      <4> QED
        BY <4>1
    <3> QED
      BY <1>2, <1>4, <1>5, <3>1 DEF w
  <2> QED
    BY <1>1, <2>1, <2>2
<1>7. /\ z \o g \in Seq(S) /\ Len(z \o g) = Len(z) + Len(g)
      /\ \A i \in 1 .. Len(z) : (z \o g)[i] = z[i]
      /\ \A i \in 1 .. Len(g) : (z \o g)[Len(z) + i] = g[i]
  <2>1. z \in Seq(S) /\ g \in Seq(S)
    BY <1>3, <1>4
  <2> QED
    BY ONLY <2>1, Joined, SMTT(60)
<1> DEFINE u == z \o g
<1> HIDE DEF u
<1>8. u \in Seq(S) /\ w \in Seq(S) /\ Len(u) = Len(x) + Len(y) /\ Len(w) = Len(u)
  BY <1>1, <1>3, <1>4, <1>5, <1>7 DEF u, w
<1>9. ASSUME NEW i \in 1 .. Len(u) PROVE u[i] = w[i]
  <2>1. CASE i <= Len(x) + n
    <3>1. i \in 1 .. Len(z) /\ i \in 1 .. Len(x) + n
      BY <1>1, <1>4, <2>1
    <3> QED
      BY <1>6, <1>7, <3>1 DEF u
  <2>2. CASE i > Len(x) + n
    <3>1. PICK j \in 1 .. Len(y) - n : i = Len(x) + n + j
      <4>1. i - (Len(x) + n) \in 1 .. Len(y) - n /\ i = Len(x) + n + (i - (Len(x) + n))
        BY <1>1, <1>8, <2>2
      <4> QED
        BY <4>1
    <3>2. j \in 1 .. Len(g) /\ i = Len(z) + j /\ n + j \in 1 .. Len(y) /\ i = Len(x) + (n + j)
      BY <1>1, <1>3, <1>4, <3>1
    <3>3. u[i] = y[n + j]
      BY <1>3, <1>7, <3>1, <3>2 DEF u
    <3>4. w[i] = y[n + j]
      BY <1>5, <3>2 DEF w
    <3> QED
      BY <3>3, <3>4
  <2> QED
    BY <1>1, <1>8, <2>1, <2>2
<1>10. u = w
  BY <1>8, <1>9, SameSeq
<1> QED
  BY <1>2, <1>3, <1>4, <1>6, <1>10 DEF Moves, f, g, z, u, w

(* x is the beginning of the response that request r shall get.            *)
Begins(x, r) == Len(x) <= yielded[r] + 1 /\ x = First(Due(r), Len(x))

(* A beginning of a response, byte by byte.                                *)
LEMMA BeginsIs ==
  ASSUME TypeInv, NEW r \in Request, NEW x \in Seq(OutCell)
  PROVE  /\ Len(x) \in Nat /\ yielded[r] \in Nat
         /\ Begins(x, r) <=> /\ Len(x) <= yielded[r] + 1
                             /\ Len(x) >= 1 => x[1] = <<r, "header", due[r]>>
                             /\ \A i \in 1 .. Len(x) - 1 : x[i + 1] = <<r, "body", i>>
BY IsDue DEF Begins, TypeInv

(* What begins a beginning of a response begins the response.              *)
LEMMA BeginsLess ==
  ASSUME TypeInv, NEW r \in Request, NEW x \in Seq(OutCell), NEW y \in Seq(OutCell), Begins(y, r),
         Len(x) <= Len(y), \A i \in 1 .. Len(x) : x[i] = y[i]
  PROVE  Begins(x, r)
<1>1. /\ Len(y) <= yielded[r] + 1 /\ Len(x) \in Nat /\ Len(y) \in Nat /\ yielded[r] \in Nat
      /\ Len(y) >= 1 => y[1] = <<r, "header", due[r]>>
      /\ \A i \in 1 .. Len(y) - 1 : y[i + 1] = <<r, "body", i>>
  BY BeginsIs
<1>2. Len(x) >= 1 => x[1] = <<r, "header", due[r]>>
  <2>1. Len(x) >= 1 => 1 \in 1 .. Len(x) /\ Len(y) >= 1
    BY <1>1
  <2> QED
    BY <1>1, <2>1
<1>3. ASSUME NEW i \in 1 .. Len(x) - 1 PROVE x[i + 1] = <<r, "body", i>>
  <2>1. i + 1 \in 1 .. Len(x) /\ i \in 1 .. Len(y) - 1
    BY <1>1
  <2> QED
    BY <1>1, <2>1
<1>4. Len(x) <= yielded[r] + 1
  BY <1>1
<1> QED
  BY <1>2, <1>3, <1>4, BeginsIs

(* A beginning goes on with the next part of the body.                     *)
LEMMA BeginsMore ==
  ASSUME TypeInv, NEW r \in Request, NEW x \in Seq(OutCell), Begins(x, r), Len(x) >= 1,
         NEW m \in Len(x) - 1 .. yielded[r]
  PROVE  /\ Begins(x \o Part(r, Len(x) - 1, m), r)
         /\ Len(x \o Part(r, Len(x) - 1, m)) = m + 1
<1> DEFINE k == Len(x)
           p == Part(r, k - 1, m)
           z == x \o p
<1>1. /\ k <= yielded[r] + 1 /\ k \in Nat /\ yielded[r] \in Nat /\ k >= 1
      /\ x[1] = <<r, "header", due[r]>>
      /\ \A i \in 1 .. k - 1 : x[i + 1] = <<r, "body", i>>
  BY BeginsIs
<1>2. k - 1 \in Nat /\ m \in Nat /\ k - 1 <= m /\ m - (k - 1) \in Nat
  BY <1>1
<1> HIDE DEF k
<1>3. p \in Seq(OutCell) /\ Len(p) = m - (k - 1) /\ \A i \in 1 .. m - (k - 1) : p[i] = <<r, "body", (k - 1) + i>>
  BY <1>2, PartIs
<1> HIDE DEF p
<1>4. /\ z \in Seq(OutCell) /\ Len(z) = m + 1
      /\ \A i \in 1 .. k : z[i] = x[i]
      /\ \A i \in 1 .. Len(p) : z[k + i] = p[i]
  <2>1. x \in Seq(OutCell) /\ p \in Seq(OutCell)
    BY <1>3
  <2>2. /\ x \o p \in Seq(OutCell) /\ Len(x \o p) = Len(x) + Len(p)
        /\ \A i \in 1 .. Len(x) : (x \o p)[i] = x[i]
        /\ \A i \in 1 .. Len(p) : (x \o p)[Len(x) + i] = p[i]
    BY ONLY <2>1, Joined, SMTT(60)
  <2>3. k + Len(p) = m + 1
    BY <1>1, <1>2, <1>3
  <2> QED
    BY <2>2, <2>3 DEF k
<1> HIDE DEF z
<1>5. z[1] = <<r, "header", due[r]>>
  BY <1>1, <1>4
<1>6. ASSUME NEW i \in 1 .. Len(z) - 1 PROVE z[i + 1] = <<r, "body", i>>
  <2>1. i \in Nat /\ i >= 1 /\ i <= m
    BY <1>2, <1>4
  <2>2. CASE i <= k - 1
    <3>1. i \in 1 .. k - 1 /\ i + 1 \in 1 .. k
      BY <1>1, <2>1, <2>2
    <3> QED
      BY <1>1, <1>4, <3>1
  <2>3. CASE i > k - 1
    <3>1. PICK j \in 1 .. Len(p) : i = (k - 1) + j
      <4>1. i - (k - 1) \in 1 .. Len(p) /\ i = (k - 1) + (i - (k - 1))
        BY <1>1, <1>2, <1>3, <2>1, <2>3
      <4> QED
        BY <4>1
    <3>2. i + 1 = k + j
      BY <1>1, <3>1
    <3> QED
      BY <1>3, <1>4, <3>1, <3>2
  <2> QED
    BY <1>1, <2>1, <2>2, <2>3
<1>7. Len(z) <= yielded[r] + 1
  BY <1>1, <1>2, <1>4
<1>8. Begins(z, r)
  BY <1>4, <1>5, <1>6, <1>7, BeginsIs
<1> QED
  BY <1>4, <1>8 DEF z, p, k

-----------------------------------------------------------------------------
(* The writer.                                                             *)

(* What a write does to the response it is of.                             *)
Written(s, r) ==
  LET all == out'[r] \o writer'[s].buffer
  IN /\ out' = [out EXCEPT ![r] = out'[r]] /\ out'[r] \in Seq(OutCell) /\ out'[r] # << >>
     /\ Begins(out'[r], r)
     /\ chan' = [chan EXCEPT ![r] = chan'[r]] /\ chan'[r] \in Seq(Seq(OutCell))
     /\ writer' = [writer EXCEPT ![s] = writer'[s]] /\ writer'[s] \in Writer
     /\ receiving' = (IF writer'[s].resp_body THEN receiving ELSE receiving \ {r})
     /\ writer'[s].resp_body => r \in receiving
     /\ ~writer'[s].resp_body => chan'[r] = << >> /\ r \notin sending
     /\ \/ /\ stage' = stage
           /\ Len(all) >= 1 /\ Begins(all, r)
           /\ IF writer'[s].resp_body
              THEN \E m \in 0 .. yielded[r] :
                     /\ InChunks(chan'[r], r, Len(all) - 1, m)
                     /\ IF Pending(r) THEN next_val = <<Part(r, m, yielded[r])>> ELSE m = yielded[r]
              ELSE Len(all) = yielded[r] + 1
        \/ /\ stage' = [stage EXCEPT ![s] = IF kind[r].keep_alive THEN "idle" ELSE "closed"]
           /\ writer'[s] = NewWriter /\ Len(out'[r]) = yielded[r] + 1

(* What write_stream does to a response, its channel and its writer.       *)
LEMMA WriteIs ==
  ASSUME TypeInv, ThreadInv, NEW s \in Stream, StreamInv(s), \A q \in Request : ResponseInv(q),
         WriteStream(s), NEW r, r = serving[s]
  PROVE  r \in Request /\ r # NONE /\ stream[r] = s /\ Writing(r) /\ Written(s, r)
<1>1. r \in Request /\ r # NONE /\ stream[r] = s /\ stage[s] = "writing" /\ Writing(r)
  BY DEF WriteStream, StreamInv, TypeInv, Writing
<1> DEFINE x      == out[r]
           w      == writer[s].buffer
           q      == chan[r]
           still  == StillBody(s)
           part   == writer[s].resp_body /\ chan[r] # << >>
           c      == IF part THEN Head(chan[r]) ELSE << >>
           buffer == writer[s].buffer \o (IF part THEN Head(chan[r]) ELSE << >>)
           y      == yielded[r]
           T      == Seq(OutCell)
<1>2. /\ x \in T /\ w \in T /\ q \in Seq(T) /\ writer[s].resp_body \in BOOLEAN /\ y \in Nat
      /\ writer \in [Stream -> Writer] /\ out \in [Request -> T] /\ chan \in [Request -> Seq(T)]
      /\ stage \in [Stream -> {"idle", "reading", "waiting", "writing", "closed"}]
  BY <1>1 DEF TypeInv, Writer
<1>3. /\ r \in receiving <=> writer[s].resp_body
      /\ r \notin receiving => q = << >>
      /\ Piped(r)
  BY <1>1 DEF ResponseInv
<1>4. PICK n \in IF buffer = << >> THEN {0} ELSE 1 .. Len(buffer) :
          /\ out' = [out EXCEPT ![r] = @ \o First(buffer, n)]
          /\ chan' = IF part THEN [chan EXCEPT ![r] = Tail(@)] ELSE chan
          /\ receiving' = IF still THEN receiving ELSE receiving \ {r}
          /\ IF n = Len(buffer) /\ ~still
             THEN /\ stage' = [stage EXCEPT ![s] = IF kind[r].keep_alive THEN "idle" ELSE "closed"]
                  /\ writer' = [writer EXCEPT ![s] = NewWriter]
             ELSE /\ writer' = [writer EXCEPT ![s] = [buffer |-> Rest(buffer, n), resp_body |-> still]]
                  /\ UNCHANGED stage
  BY DEF WriteStream
<1>5. still <=> writer[s].resp_body /\ (q # << >> \/ r \in sending)
  BY DEF StillBody
<1>6. q # << >> => Head(q) \in T /\ Tail(q) \in Seq(T)
  BY <1>2
<1>7. c \in T /\ buffer = w \o c
  BY <1>6
<1> DEFINE all0 == x \o w
           all  == x \o buffer
<1>8. /\ Len(all0) \in 1 .. y + 1 /\ Begins(all0, r)
      /\ IF writer[s].resp_body THEN Chunked(r, Len(all0) - 1)
         ELSE Len(all0) = y + 1 /\ r \notin sending
  <2>1. /\ Len(out[r] \o writer[s].buffer) \in 1 .. yielded[r] + 1
        /\ out[r] \o writer[s].buffer = First(Due(r), Len(out[r] \o writer[s].buffer))
        /\ IF writer[s].resp_body THEN Chunked(r, Len(out[r] \o writer[s].buffer) - 1)
           ELSE Len(out[r] \o writer[s].buffer) = yielded[r] + 1 /\ r \notin sending
    BY <1>1, <1>3 DEF Piped
  <2> DEFINE z == out[r] \o writer[s].buffer
  <2> HIDE DEF z
  <2>2. /\ Len(z) \in 1 .. y + 1 /\ z = First(Due(r), Len(z))
        /\ IF writer[s].resp_body THEN Chunked(r, Len(z) - 1)
           ELSE Len(z) = y + 1 /\ r \notin sending
    BY <2>1 DEF z
  <2>3. Begins(z, r)
    BY <1>2, <2>2 DEF Begins
  <2> QED
    BY <2>2, <2>3 DEF z
<1>9. all0 \in T /\ buffer \in T /\ all \in T /\ all = all0 \o c
  <2> HIDE DEF x, w, c, buffer, T
  <2>1. x \in T /\ w \in T /\ c \in T /\ buffer = w \o c
    BY <1>2, <1>7
  <2> QED
    BY <2>1 DEF T
<1>10. /\ Len(all) \in 1 .. y + 1 /\ Begins(all, r)
       /\ IF still THEN \E m \in 0 .. y :
                          /\ InChunks(chan'[r], r, Len(all) - 1, m)
                          /\ IF Pending(r) THEN next_val = <<Part(r, m, y)>> ELSE m = y
          ELSE Len(all) = y + 1 /\ r \notin sending /\ chan'[r] = << >>
  <2> HIDE DEF all, all0, buffer, x, w, T
  <2>1. CASE ~part
    <3>1. all = all0
      BY <1>9, <2>1 DEF T
    <3>2. chan' = chan /\ q = << >>
      BY <1>3, <1>4, <2>1
    <3>3. CASE still
      <4>1. Chunked(r, Len(all) - 1)
        BY <1>5, <1>8, <3>1, <3>3
      <4> QED
        BY <1>8, <3>1, <3>2, <3>3, <4>1 DEF Chunked
    <3>4. CASE ~still
      <4>1. CASE writer[s].resp_body
        <5>1. r \notin sending
          BY <1>5, <3>4, <4>1
        <5>2. ~Pending(r)
          BY <1>1, <5>1 DEF Pending, ThreadInv
        <5>3. PICK m \in 0 .. y : InChunks(q, r, Len(all) - 1, m) /\ m = y
          BY <1>8, <3>1, <4>1, <5>2 DEF Chunked
        <5>4. Len(all) - 1 = y
          <6>1. Len(all) - 1 \in Nat /\ m \in Nat
            BY <1>2, <1>8, <3>1
          <6> QED
            BY <3>2, <5>3, <6>1, InChunksEmpty
        <5> QED
          BY <1>2, <1>8, <3>1, <3>2, <3>4, <5>1, <5>4
      <4>2. CASE ~writer[s].resp_body
        BY <1>8, <3>1, <3>2, <3>4, <4>2
      <4> QED
        BY <4>1, <4>2
    <3> QED
      BY <3>3, <3>4
  <2>2. CASE part
    <3>1. still /\ chan' = [chan EXCEPT ![r] = Tail(@)] /\ chan'[r] = Tail(q) /\ q # << >>
      BY <1>1, <1>2, <1>4, <1>5, <2>2
    <3>2. PICK m \in 0 .. y :
             /\ InChunks(q, r, Len(all0) - 1, m)
             /\ IF Pending(r) THEN next_val = <<Part(r, m, y)>> ELSE m = y
      BY <1>8, <2>2 DEF Chunked
    <3>3. Len(all0) - 1 \in Nat /\ m \in Nat
      BY <1>2, <1>8
    <3>4. PICK b \in Len(all0) - 1 .. m : Head(q) = Part(r, Len(all0) - 1, b) /\ InChunks(Tail(q), r, b, m)
      BY <1>2, <3>1, <3>2, <3>3, InChunksTail
    <3>5. all = all0 \o Part(r, Len(all0) - 1, b)
      BY <1>9, <2>2, <3>4
    <3>6. b \in Len(all0) - 1 .. y /\ Len(all0) >= 1 /\ b \in Nat /\ b <= y
      BY <1>2, <1>8, <3>3
    <3>7. Begins(all, r) /\ Len(all) = b + 1
      <4>1. /\ TypeInv /\ r \in Request /\ all0 \in Seq(OutCell) /\ Begins(all0, r)
            /\ Len(all0) >= 1 /\ b \in Len(all0) - 1 .. yielded[r]
        BY <1>1, <1>8, <1>9, <3>6 DEF T
      <4>2. /\ Begins(all0 \o Part(r, Len(all0) - 1, b), r)
            /\ Len(all0 \o Part(r, Len(all0) - 1, b)) = b + 1
        BY ONLY <4>1, BeginsMore, SMTT(60)
      <4> QED
        BY <3>5, <4>2
    <3>8. Len(all) - 1 = b /\ Len(all) \in 1 .. y + 1
      BY <1>2, <3>6, <3>7
    <3> QED
      BY <3>1, <3>2, <3>4, <3>7, <3>8
  <2> QED
    BY <2>1, <2>2
<1>11. n \in 0 .. Len(buffer) /\ (n = 0 => buffer = << >>)
  <2> HIDE DEF buffer, T
  <2>1. Len(buffer) \in Nat
    BY <1>9 DEF T
  <2> QED
    BY <1>4, <2>1
<1> DEFINE f == First(buffer, n)
           g == Rest(buffer, n)
<1> HIDE DEF x, w, buffer, all0, c
<1>12. /\ g \in T /\ x \o f \in T /\ Len(x \o f) = Len(x) + n /\ Len(g) = Len(buffer) - n
       /\ \A i \in 1 .. Len(x) + n : (x \o f)[i] = (x \o buffer)[i]
       /\ (x \o f) \o g = x \o buffer /\ Len(x) \in Nat /\ Len(buffer) \in Nat
       /\ Len(x \o buffer) = Len(x) + Len(buffer)
  <2>1. x \in T /\ buffer \in T /\ n \in 0 .. Len(buffer)
    BY <1>2, <1>9, <1>11
  <2> HIDE DEF f, g
  <2>2. Len(x \o buffer) = Len(x) + Len(buffer) /\ Len(x) \in Nat /\ Len(buffer) \in Nat
    BY <2>1
  <2>3. x \in Seq(OutCell) /\ buffer \in Seq(OutCell) /\ n \in Nat /\ n <= Len(buffer)
    BY <2>1, <2>2 DEF T
  <2>4. Moves(OutCell, x, buffer, n)
    BY ONLY <2>3, Halves
  <2> QED
    BY <2>2, <2>4 DEF Moves, f, g, T
<1> HIDE DEF f, g
<1>13. out'[r] = x \o f /\ out' = [out EXCEPT ![r] = out'[r]]
  BY <1>1, <1>2, <1>4 DEF x, f
<1>14. Begins(x \o f, r) /\ x \o f # << >>
  <2> DEFINE z == x \o f
  <2>1. z \in T /\ all \in T /\ Len(z) <= Len(all) /\ \A i \in 1 .. Len(z) : z[i] = all[i]
    <3>1. z \in T /\ all \in T /\ Len(z) = Len(x) + n /\ Len(all) = Len(x) + Len(buffer)
      BY <1>9, <1>12
    <3>2. Len(x) \in Nat /\ Len(buffer) \in Nat /\ n \in 0 .. Len(buffer)
      BY <1>11, <1>12
    <3>3. Len(z) <= Len(all)
      BY ONLY <3>1, <3>2
    <3>4. \A i \in 1 .. Len(z) : z[i] = all[i]
      BY <1>12, <3>1
    <3> QED
      BY <3>1, <3>3, <3>4
  <2>2. Len(z) >= 1
    <3>1. CASE n = 0
      <4>1. buffer = << >> /\ Len(buffer) = 0
        BY <1>11, <3>1
      <4> QED
        BY <1>10, <1>12, <3>1, <4>1
    <3>2. CASE n # 0
      BY <1>11, <1>12, <3>2
    <3> QED
      BY <3>1, <3>2
  <2>3. /\ TypeInv /\ r \in Request /\ z \in Seq(OutCell) /\ all \in Seq(OutCell) /\ Begins(all, r)
        /\ Len(z) <= Len(all) /\ \A i \in 1 .. Len(z) : z[i] = all[i]
    BY <1>1, <1>10, <2>1 DEF T
  <2> HIDE DEF z, all
  <2>4. Begins(z, r)
    BY ONLY <2>3, BeginsLess, SMTT(60)
  <2>5. z # << >>
    BY <2>2
  <2> QED
    BY <2>4, <2>5 DEF z
<1>15. chan' = [chan EXCEPT ![r] = chan'[r]] /\ chan'[r] \in Seq(T)
  <2>1. CASE part
    BY <1>1, <1>2, <1>4, <1>6, <2>1
  <2>2. CASE ~part
    <3>1. chan' = chan
      BY <1>4, <2>2
    <3> QED
      BY <1>1, <1>2, <3>1
  <2> QED
    BY <2>1, <2>2
<1>16. still \in BOOLEAN /\ (still => r \in receiving)
  BY <1>3, <1>5 DEF StillBody
<1> HIDE DEF still, part, q, all
<1>17. CASE n = Len(buffer) /\ ~still
  <2>1. writer' = [writer EXCEPT ![s] = NewWriter] /\ writer'[s] = NewWriter
    BY <1>2, <1>4, <1>17
  <2>2. NewWriter \in Writer /\ ~NewWriter.resp_body
    BY DEF NewWriter, Writer
  <2>3. Len(x \o f) = y + 1 /\ r \notin sending /\ chan'[r] = << >>
    BY <1>10, <1>12, <1>17 DEF all
  <2>4. receiving' = receiving \ {r}
    BY <1>4, <1>17
  <2>5. stage' = [stage EXCEPT ![s] = IF kind[r].keep_alive THEN "idle" ELSE "closed"]
    BY <1>4, <1>17
  <2>6. Written(s, r)
    BY <1>12, <1>13, <1>14, <1>15, <2>1, <2>2, <2>3, <2>4, <2>5 DEF Written, T, y
  <2> QED
    BY <1>1, <2>6
<1>18. CASE ~(n = Len(buffer) /\ ~still)
  <2> DEFINE W == [buffer |-> g, resp_body |-> still]
  <2>1. writer' = [writer EXCEPT ![s] = W] /\ stage' = stage
    BY <1>4, <1>18 DEF g
  <2>2. W \in Writer /\ W.resp_body = still /\ W.buffer = g
    BY <1>12, <1>16 DEF Writer, T
  <2>3. writer'[s] = W
    BY <1>2, <2>1
  <2> HIDE DEF W
  <2>4. receiving' = IF still THEN receiving ELSE receiving \ {r}
    BY <1>4
  <2>5. out'[r] \o writer'[s].buffer = all
    BY <1>12, <1>13, <2>2, <2>3 DEF all
  <2>6. ~still => chan'[r] = << >> /\ r \notin sending
    BY <1>10
  <2>7. /\ Len(all) >= 1 /\ Begins(all, r)
        /\ IF still
           THEN \E m \in 0 .. yielded[r] :
                  /\ InChunks(chan'[r], r, Len(all) - 1, m)
                  /\ IF Pending(r) THEN next_val = <<Part(r, m, yielded[r])>> ELSE m = yielded[r]
           ELSE Len(all) = yielded[r] + 1
    BY <1>10
  <2>8. Written(s, r)
    BY <1>12, <1>13, <1>14, <1>15, <1>16, <2>1, <2>2, <2>3, <2>4, <2>5, <2>6, <2>7 DEF Written, T
  <2> QED
    BY <1>1, <2>8
<1> QED
  BY <1>17, <1>18

(* A write leaves its stream as it was, or ends it with the response.      *)
LEMMA StreamWrites ==
  ASSUME TypeInv, ThreadInv, NEW s \in Stream, NEW t \in Stream, StreamInv(s), StreamInv(t),
         \A q \in Request : ResponseInv(q), WriteStream(t)
  PROVE  StreamInv(s)'
<1>1. UNCHANGED <<stream, kind, sent, eof, given_up, taken, reader, serving>> /\ stage[t] = "writing"
  BY DEF WriteStream, clientVars
<1> DEFINE r == serving[t]
<1>2. r \in Request /\ r # NONE /\ stream[r] = t /\ Written(t, r)
  BY WriteIs
<1>3. out'[r] # << >> /\ out' = [out EXCEPT ![r] = out'[r]]
  BY <1>2 DEF Written
<1>4. CASE s # t
  <2>1. stage'[s] = stage[s] /\ writer'[s] = writer[s]
    <3>1. writer' = [writer EXCEPT ![t] = writer'[t]]
      BY <1>2 DEF Written
    <3>2. stage' = stage \/ stage' = [stage EXCEPT ![t] = IF kind[r].keep_alive THEN "idle" ELSE "closed"]
      BY <1>2 DEF Written
    <3> QED
      BY <1>4, <3>1, <3>2 DEF TypeInv
  <2>2. serving[s] # NONE => serving[s] # r
    BY <1>2, <1>4 DEF StreamInv
  <2>3. serving[s] # NONE /\ out[serving[s]] # << >> => out'[serving[s]] # << >>
    BY <1>3, <2>2 DEF TypeInv
  <2> QED
    BY <1>1, <2>1, <2>3, StreamStays
<1>5. CASE s = t
  <2>1. /\ sent[s] <= Len(All(s)) /\ taken[s] <= sent[s] /\ reader[s] = NewReader
        /\ serving[s] = r /\ taken[s] = End(r)
    BY <1>1, <1>2, <1>5 DEF StreamInv
  <2>2. All(s)' = All(s) /\ \A q : End(q)' = End(q)
    BY <1>1, SameData
  <2>3. CASE stage' = stage
    BY <1>1, <1>2, <1>5, <2>1, <2>2, <2>3 DEF StreamInv, NewReader, NewWriter
  <2>4. CASE /\ stage' = [stage EXCEPT ![t] = IF kind[r].keep_alive THEN "idle" ELSE "closed"]
             /\ writer'[t] = NewWriter
    <3>1. stage'[s] = IF kind[r].keep_alive THEN "idle" ELSE "closed"
      BY <1>5, <2>4 DEF TypeInv
    <3> QED
      BY <1>1, <1>2, <1>3, <1>5, <2>1, <2>2, <2>4, <3>1 DEF StreamInv, NewReader, NewWriter
  <2> QED
    BY <1>2, <2>3, <2>4 DEF Written
<1> QED
  BY <1>4, <1>5

(* What has been taken of a stream, and sent, is where StreamInv says.     *)
LEMMA StreamStep ==
  ASSUME IInv, [Next]_vars, NEW s \in Stream
  PROVE  StreamInv(s)'
<1>1. TypeInv /\ ThreadInv /\ (\A t \in Stream : StreamInv(t)) /\ \A r \in Request : ResponseInv(r)
  BY DEF IInv
<1>2. CASE Silent \/ Answers
  BY <1>1, <1>2, StreamThread
<1>3. ASSUME NEW t \in Stream, Send(t) \/ CloseWrite(t) PROVE StreamInv(s)'
  BY <1>1, <1>3, StreamClient
<1>4. ASSUME NEW t \in Stream, GiveUp(t) PROVE StreamInv(s)'
  BY <1>1, <1>4, StreamGivesUp
<1>5. ASSUME NEW t \in Stream, TakeOn(t) PROVE StreamInv(s)'
  BY <1>1, <1>5, StreamTakenOn
<1>6. ASSUME NEW t \in Stream, ReadHeader(t) \/ ReadBody(t) PROVE StreamInv(s)'
  BY <1>1, <1>6, StreamReads
<1>7. ASSUME NEW t \in Stream, WriteStream(t) PROVE StreamInv(s)'
  BY <1>1, <1>7, StreamWrites
<1> QED
  BY <1>2, <1>3, <1>4, <1>5, <1>6, <1>7, ByAction

(* What has been taken of a stream stays taken, and other requests are     *)
(* queued by Complete and taken out by Take.                               *)
LEMMA TakenStays ==
  ASSUME IInv, [Next]_vars, NEW r, AllTaken(r)
  PROVE  AllTaken(r)'
<1>1. TypeInv /\ ThreadInv /\ \A t \in Stream : StreamInv(t)
  BY DEF IInv
<1>2. r \in Request /\ stream[r] \in Stream /\ taken[stream[r]] >= End(r) /\ taken[stream[r]] \in Nat
      /\ End(r) \in Nat
  BY <1>1, EndIs DEF AllTaken, TypeInv
<1>3. UNCHANGED <<stream, kind>>
  BY Kept
<1>4. End(r)' = End(r)
  BY <1>3, SameData
<1>5. SUFFICES \E n \in Nat : taken'[stream[r]] = taken[stream[r]] + n
  BY <1>2, <1>3, <1>4 DEF AllTaken
<1>6. CASE taken' = taken
  BY <1>2, <1>6
<1>7. CASE taken' # taken
  <2>1. PICK t \in Stream : ReadHeader(t) \/ ReadBody(t)
    <3>1. Silent => taken' = taken
      BY SilentIs DEF streamVars
    <3>2. Answers => taken' = taken
      BY <1>1, AnswerIs
    <3>3. \A t \in Stream : Send(t) \/ CloseWrite(t) \/ GiveUp(t) \/ TakeOn(t) \/ WriteStream(t)
                              => taken' = taken
      BY DEF Send, CloseWrite, GiveUp, TakeOn, WriteStream, streamVars
    <3> QED
      BY <1>7, <3>1, <3>2, <3>3, ByAction
  <2>2. PICK n \in Nat : taken' = [taken EXCEPT ![t] = @ + n]
    BY <1>1, <2>1, ReadStep DEF Outcome
  <2>3. taken'[stream[r]] = taken[stream[r]] + (IF t = stream[r] THEN n ELSE 0)
    BY <1>1, <1>2, <2>2 DEF TypeInv
  <2> QED
    BY <2>3
<1> QED
  BY <1>6, <1>7

-----------------------------------------------------------------------------
(* The queue of requests.                                                  *)

(* Steps that leave the thread and the queue alone.                        *)
Elsewhere == \/ Quiet \/ UNCHANGED vars
             \/ \E s \in Stream : Send(s) \/ CloseWrite(s) \/ GiveUp(s) \/ TakeOn(s) \/ WriteStream(s)
Reads     == \E s \in Stream : ReadHeader(s) \/ ReadBody(s)

(* Steps of the streams leave the thread and its request alone.            *)
LEMMA ElsewhereIs ==
  ASSUME Elsewhere \/ Reads
  PROVE  UNCHANGED <<threadVars, sending, due, yielded>> /\ (Elsewhere => UNCHANGED req_recv)
<1> USE DEF chanVars, doneVars
<1>1. Quiet \/ UNCHANGED vars => UNCHANGED <<threadVars, sending, due, yielded, req_recv>>
  BY DEF Quiet, vars
<1>2. ASSUME NEW s \in Stream, Send(s) \/ CloseWrite(s) \/ GiveUp(s) \/ TakeOn(s) \/ WriteStream(s)
      PROVE  UNCHANGED <<threadVars, sending, due, yielded, req_recv>>
  BY <1>2 DEF Send, CloseWrite, GiveUp, TakeOn, WriteStream
<1>3. ASSUME NEW s \in Stream, ReadHeader(s) \/ ReadBody(s)
      PROVE  UNCHANGED <<threadVars, sending, due, yielded>>
  BY <1>3 DEF ReadHeader, ReadBody
<1> QED
  BY <1>1, <1>2, <1>3 DEF Elsewhere, Reads

(* Requests are queued once, whole, and with their body.                   *)
LEMMA QueueStep ==
  ASSUME IInv, [Next]_vars
  PROVE  QueueInv'
<1>1. TypeInv /\ QueueInv /\ ThreadInv /\ \A t \in Stream : StreamInv(t)
  BY DEF IInv
<1>2. UNCHANGED <<stream, kind>> /\ \A r : Body(r)' = Body(r) /\ End(r)' = End(r)
  BY Kept, SameData
<1>3. \A r : AllTaken(r) => AllTaken(r)'
  BY TakenStays
<1>4. ASSUME req_recv' = req_recv, cur' \in {cur, NONE} PROVE QueueInv'
  <2>1. \A i \in DOMAIN req_recv : req_recv[i].req # NONE
    BY <1>1, Constants DEF QueueInv, AllTaken
  <2> QED
    BY <1>1, <1>2, <1>3, <1>4, <2>1 DEF QueueInv
<1>5. CASE Elsewhere
  BY <1>4, <1>5, ElsewhereIs DEF threadVars
<1>6. CASE Answers
  BY <1>1, <1>4, <1>6, AnswerIs
<1>7. CASE \/ StartResponse \/ AppReads \/ CallReturns
           \/ NextChunk \/ NextRaises \/ NoMore \/ SendMemory
  <2>1. req_recv' = req_recv /\ cur' \in {cur, NONE}
    BY <1>7 DEF StartResponse, AppReads, Read, ReadLine, ReadLines, ReadLinesTurn, CallReturns,
      NextChunk, NextRaises, NoMore, SendMemory, TurnEnds
  <2> QED
    BY <1>4, <2>1
<1>8. CASE Take
  <2> DEFINE q == req_recv
             n == Len(q)
  <2>1. /\ q \in Seq([req : Request, body : Seq(Cell)]) /\ q # << >> /\ req_recv' = Tail(q)
        /\ cur' = Head(q).req
    BY <1>1, <1>8 DEF Take, TypeInv
  <2>2. /\ n \in Nat \ {0} /\ Head(q) = q[1] /\ DOMAIN q = 1 .. n /\ DOMAIN Tail(q) = 1 .. n - 1
        /\ \A i \in 1 .. n - 1 : Tail(q)[i] = q[i + 1]
    BY <2>1
  <2>3. \A i \in 1 .. n - 1 : i + 1 \in 1 .. n /\ i + 1 # 1 /\ i \in Nat
    BY <2>2
  <2>4. /\ \A i \in 1 .. n : AllTaken(q[i].req) /\ q[i].body = Body(q[i].req)
        /\ \A i, j \in 1 .. n : q[i].req = q[j].req => i = j
    BY <1>1, <2>2 DEF QueueInv
  <2> HIDE DEF q, n
  <2>5. ASSUME NEW i \in 1 .. n - 1
        PROVE  /\ AllTaken(req_recv[i].req)' /\ req_recv'[i].body = Body(req_recv[i].req)'
               /\ req_recv'[i].req # cur'
               /\ \A j \in 1 .. n - 1 : req_recv'[i].req = req_recv'[j].req => i = j
    <3>1. req_recv'[i] = q[i + 1] /\ i + 1 \in 1 .. n /\ i + 1 # 1 /\ 1 \in 1 .. n
      BY <2>1, <2>2, <2>3
    <3>2. q[i + 1].req # q[1].req
      BY <2>4, <3>1
    <3>3. ASSUME NEW j \in 1 .. n - 1, req_recv'[i].req = req_recv'[j].req PROVE i = j
      <4>1. req_recv'[j] = q[j + 1] /\ j + 1 \in 1 .. n
        BY <2>1, <2>2, <2>3
      <4>2. i + 1 = j + 1
        BY <2>4, <3>1, <3>3, <4>1
      <4> QED
        BY <2>3, <4>2
    <3>4. AllTaken(q[i + 1].req) /\ q[i + 1].body = Body(q[i + 1].req)
      BY <2>4, <3>1
    <3> QED
      BY <1>2, <1>3, <2>1, <2>2, <3>1, <3>2, <3>3, <3>4
  <2>6. DOMAIN req_recv' = 1 .. n - 1
    BY <2>1, <2>2
  <2> QED
    BY <2>5, <2>6 DEF QueueInv
<1>9. CASE Reads
  <2>1. cur' = cur
    BY <1>9, ElsewhereIs DEF threadVars
  <2>2. PICK t \in Stream : ReadHeader(t) \/ ReadBody(t)
    BY <1>9 DEF Reads
  <2>3. PICK n \in Nat, v \in Request \cup {NONE} : Outcome(t, n, v)
    BY <1>1, <2>2, ReadStep
  <2>4. CASE req_recv' = req_recv
    BY <1>4, <2>1, <2>4
  <2>5. CASE v # NONE /\ Complete(t, v, Body(v)) /\ taken[t] + n = End(v)
    <3>1. v \in Request /\ stream[v] = t /\ taken[t] < End(v) /\ taken[t] \in Nat /\ End(v) \in Nat
      BY <1>1, <2>3, <2>5, EndIs DEF Outcome, TypeInv
    <3>2. ~AllTaken(v)
      BY <3>1 DEF AllTaken
    <3>3. AllTaken(v)'
      <4>1. taken'[t] = End(v)
        BY <1>1, <2>3, <2>5 DEF Outcome, TypeInv
      <4> QED
        BY <1>2, <3>1, <4>1 DEF AllTaken
    <3>4. v # cur
      BY <1>1, <2>5, <3>2 DEF ThreadInv
    <3> DEFINE q == req_recv
               e == [req |-> v, body |-> Body(v)]
               m == Len(q)
    <3>5. q \in Seq([req : Request, body : Seq(Cell)]) /\ req_recv' = Append(q, e)
      BY <1>1, <2>5 DEF TypeInv, Complete
    <3>6. e.req = v /\ e.body = Body(v)
      OBVIOUS
    <3>7. /\ \A i \in 1 .. m : /\ AllTaken(q[i].req) /\ q[i].body = Body(q[i].req) /\ q[i].req # cur
                               /\ \A j \in 1 .. m : q[i].req = q[j].req => i = j
      BY <1>1, <3>5 DEF QueueInv
    <3> HIDE DEF q, e
    <3>8. /\ m \in Nat /\ DOMAIN Append(q, e) = 1 .. m + 1 /\ Append(q, e)[m + 1] = e
          /\ \A i \in 1 .. m : Append(q, e)[i] = q[i]
      BY <3>5
    <3>9. \A i \in 1 .. m + 1 : i = m + 1 \/ i \in 1 .. m
      BY <3>8
    <3> HIDE DEF m
    <3>10. \A i \in 1 .. m : q[i].req # v
      BY <3>2, <3>7
    <3>11. ASSUME NEW i \in 1 .. m + 1
           PROVE  /\ AllTaken(req_recv[i].req)' /\ req_recv'[i].body = Body(req_recv[i].req)'
                  /\ req_recv'[i].req # cur'
                  /\ \A j \in 1 .. m + 1 : req_recv'[i].req = req_recv'[j].req => i = j
      <4>1. CASE i = m + 1
        BY <1>2, <2>1, <3>3, <3>4, <3>5, <3>6, <3>8, <3>9, <3>10, <4>1
      <4>2. CASE i \in 1 .. m
        BY <1>2, <1>3, <2>1, <3>5, <3>6, <3>7, <3>8, <3>9, <3>10, <4>2
      <4> QED
        BY <3>9, <4>1, <4>2
    <3>12. DOMAIN req_recv' = 1 .. m + 1
      BY <3>5, <3>8
    <3> QED
      BY <3>11, <3>12 DEF QueueInv
  <2> QED
    BY <2>3, <2>4, <2>5 DEF Outcome, Closes
<1> QED
  BY <1>5, <1>6, <1>7, <1>8, <1>9, ByAction DEF Silent, Elsewhere, Reads

-----------------------------------------------------------------------------
(* The python thread.                                                      *)

(* The end of the line at the application's place in its input.            *)
LEMMA LineEndIs ==
  ASSUME Remaining \in Nat, pos \in Nat
  PROVE  LineEnd \in 0 .. Remaining
<1> DEFINE T == {n \in 0 .. Remaining : n < Remaining => IsNewline(pos + n + 1)}
<1>1. T \in SUBSET Nat /\ Remaining \in T
  OBVIOUS
<1>2. PICK m \in T : \A n \in T : m <= n
  <2> HIDE DEF T
  <2> QED
    BY <1>1, NatLeast
<1>3. m \in 0 .. Remaining /\ (m < Remaining => IsNewline(pos + m + 1))
  BY <1>2
<1>4. ASSUME NEW k \in pos + 1 .. pos + m PROVE ~IsNewline(k)
  <2>1. PICK n \in Nat : n = k - pos - 1 /\ n < m /\ n \in 0 .. Remaining /\ n < Remaining /\ pos + n + 1 = k
    <3>1. k - pos - 1 \in Nat
      BY <1>3
    <3> QED
      BY <1>3, <3>1
  <2>2. n \notin T
    <3>1. m \in Nat /\ n \in Nat /\ ~(m <= n)
      BY <1>3, <2>1
    <3> HIDE DEF T
    <3> QED
      BY <1>2, <3>1
  <2> QED
    BY <2>1, <2>2
<1>5. \E n \in 0 .. Remaining :
        /\ \A k \in pos + 1 .. pos + n : ~IsNewline(k)
        /\ n < Remaining => IsNewline(pos + n + 1)
  BY <1>3, <1>4
<1> HIDE DEF T
<1> QED
  BY <1>5 DEF LineEnd

(* Nobody but the application goes into readlines.                         *)
LEMMA ReadLinesStays ==
  ASSUME ThreadInv, UNCHANGED in_readlines,
         in_readlines => thr' \in {"call", "first", "stream"}
  PROVE  ReadLinesInv'
BY DEF ThreadInv, ReadLinesInv

(* Steps of the streams do nothing to the thread.                          *)
LEMMA ThreadElsewhere ==
  ASSUME IInv, [Next]_vars, Elsewhere \/ Reads
  PROVE  ThreadInv'
<1>1. TypeInv /\ ThreadInv
  BY DEF IInv
<1>2. UNCHANGED <<thr, cur, context, response_header, header, next_val, ended, input, pos,
                  in_readlines, calls, sending, due, yielded>>
  BY ElsewhereIs DEF threadVars, slotVars, appVars, inputVars
<1>3. \A r : Body(r)' = Body(r)
  BY Kept, SameData
<1>4. AllTaken(cur) => AllTaken(cur)'
  <2>1. \A r : AllTaken(r) => AllTaken(r)'
    BY TakenStays
  <2> QED
    BY <1>2, <2>1
<1>5. SlotsOwn' /\ ReadLinesInv'
  <2>1. SlotsOwn'
    BY <1>1, <1>2 DEF ThreadInv, SlotsOwn
  <2>2. UNCHANGED <<in_readlines, thr>> /\ ReadLinesInv
    BY <1>1, <1>2 DEF ThreadInv
  <2> QED
    BY <1>1, <2>1, <2>2, ReadLinesStays DEF ReadLinesInv
<1> QED
  BY <1>1, <1>2, <1>3, <1>4, <1>5 DEF ThreadInv

(* A next request.                                                         *)
LEMMA ThreadTakes ==
  ASSUME IInv, [Next]_vars, Take
  PROVE  ThreadInv'
<1>1. TypeInv /\ ThreadInv /\ QueueInv
  BY DEF IInv
<1>2. /\ req_recv \in Seq([req : Request, body : Seq(Cell)]) /\ req_recv # << >>
      /\ Head(req_recv) = req_recv[1] /\ 1 \in DOMAIN req_recv
  BY <1>1 DEF Take, TypeInv
<1>3. AllTaken(cur') /\ input' = Body(cur') /\ cur' \in Request
  BY <1>1, <1>2 DEF Take, QueueInv, AllTaken
<1>4. \A r : AllTaken(r) => AllTaken(r)' /\ Body(r)' = Body(r)
  BY TakenStays, Kept, SameData
<1>5. /\ thr = "recv" /\ thr' = "call" /\ context' = cur' /\ response_header' = << >>
      /\ pos' = 0 /\ sending' = {cur'} /\ header' = header /\ next_val' = next_val
  BY <1>1 DEF Take, InitReqThread, ThreadInv
<1>6. header' = << >> /\ next_val' = << >>
  BY <1>1, <1>5 DEF ThreadInv
<1>7. input' \in Seq(Cell) /\ Len(input') \in Nat
  BY <1>1, <1>3, BytesAre
<1>8. pos' \in 0 .. Len(input') /\ SlotsOwn'
  BY <1>5, <1>7 DEF SlotsOwn
<1>9. AllTaken(cur)' /\ input' = Body(cur)'
  BY <1>3, <1>4
<1>10. ReadLinesInv'
  <2>1. UNCHANGED in_readlines /\ ReadLinesInv
    BY <1>1 DEF Take, ThreadInv
  <2>2. ~in_readlines
    BY <1>5, <2>1 DEF ReadLinesInv
  <2> QED
    BY <1>1, <2>1, <2>2, ReadLinesStays
<1> QED
  BY <1>3, <1>5, <1>6, <1>8, <1>9, <1>10 DEF ThreadInv, Slot

(* What stays true of the thread while it is at one request.               *)
LEMMA ThreadAtOne ==
  ASSUME IInv, [Next]_vars, thr # "recv", cur' = cur
  PROVE  cur \in Request /\ cur # NONE /\ AllTaken(cur)' /\ Body(cur)' = Body(cur) /\ input = Body(cur)
         /\ sending = {cur} /\ context = cur
         /\ input \in Seq(Cell) /\ Len(input) \in Nat /\ pos \in Nat /\ pos <= Len(input)
<1>1. TypeInv /\ ThreadInv
  BY DEF IInv
<1>2. AllTaken(cur) /\ cur \in Request /\ input = Body(cur) /\ sending = {cur} /\ context = cur
      /\ pos \in 0 .. Len(input)
  BY <1>1 DEF ThreadInv, AllTaken, SlotsOwn
<1>3. input \in Seq(Cell) /\ Len(input) \in Nat
  BY <1>1, <1>2, BytesAre
<1>4. \A r : AllTaken(r) => AllTaken(r)' /\ Body(r)' = Body(r)
  BY TakenStays, Kept, SameData
<1> QED
  BY <1>2, <1>3, <1>4, Constants

(* The application's calls.                                                *)
LEMMA ThreadApp ==
  ASSUME IInv, [Next]_vars, StartResponse \/ AppReads
  PROVE  ThreadInv'
<1>1. TypeInv /\ ThreadInv
  BY DEF IInv
<1>2. thr \in {"call", "first", "stream"} /\ UNCHANGED <<thr, cur, context, header, next_val, input>>
      /\ UNCHANGED <<sending, due, yielded>>
  <2>1. CASE StartResponse \/ Read \/ ReadLine \/ ReadLines
    <3>1. thr \in {"call", "first", "stream"}
      BY <2>1 DEF StartResponse, Read, ReadLine, ReadLines, AppRuns
    <3>2. UNCHANGED <<thr, cur, context, header, next_val, input, sending, due, yielded>>
      BY <2>1 DEF StartResponse, Read, ReadLine, ReadLines, chanVars, doneVars, slotVars, inputVars
    <3> QED
      BY <3>1, <3>2
  <2>2. CASE ReadLinesTurn
    BY <1>1, <2>2 DEF ReadLinesTurn, ThreadInv, ReadLinesInv, chanVars, doneVars, slotVars
  <2> QED
    BY <2>1, <2>2 DEF AppReads
<1>3. /\ cur \in Request /\ cur # NONE /\ AllTaken(cur)' /\ Body(cur)' = Body(cur) /\ input = Body(cur)
      /\ sending = {cur} /\ context = cur
      /\ input \in Seq(Cell) /\ Len(input) \in Nat /\ pos \in Nat /\ pos <= Len(input)
  BY <1>2, ThreadAtOne
<1>4. ReadLinesInv'
  <2>1. UNCHANGED in_readlines \/ in_readlines' = TRUE
    BY DEF StartResponse, AppReads, Read, ReadLine, ReadLines, ReadLinesTurn, inputVars
  <2>2. thr' \in {"call", "first", "stream"}
    BY <1>2
  <2>3. CASE UNCHANGED in_readlines
    BY <1>1, <2>2, <2>3, ReadLinesStays
  <2>4. CASE in_readlines' = TRUE
    BY <2>2, <2>4 DEF ReadLinesInv
  <2> QED
    BY <2>1, <2>3, <2>4
<1>5. CASE StartResponse
  <2>1. /\ calls' = [calls EXCEPT !.starts = @ + 1] /\ pos' = pos
        /\ response_header' = <<[req |-> cur, start |-> calls.starts + 1]>>
    BY <1>5 DEF StartResponse, inputVars
  <2>2. calls'.starts = calls.starts + 1 /\ calls.starts + 1 \in Nat
    BY <1>1, <2>1 DEF TypeInv
  <2>3. Slot(response_header)' /\ response_header'[1].req = cur /\ response_header'[1].start = calls'.starts
        /\ DOMAIN response_header' = {1}
    BY <1>3, <2>1, <2>2 DEF Slot
  <2>4. SlotsOwn'
    BY <1>1, <1>2, <1>3, <2>1, <2>3 DEF SlotsOwn, ThreadInv
  <2> QED
    BY <1>1, <1>2, <1>3, <1>4, <2>1, <2>3, <2>4 DEF ThreadInv
<1>6. CASE AppReads
  <2>1. pos' \in 0 .. Len(input)
    <3>1. CASE Read
      BY <1>3, <3>1 DEF Read, Remaining
    <3>2. CASE ReadLine \/ ReadLinesTurn
      <4>1. Remaining \in Nat /\ Remaining = Len(input) - pos
        BY <1>3 DEF Remaining
      <4>2. LineEnd \in 0 .. Remaining
        BY <1>3, <4>1, LineEndIs
      <4>3. pos' = pos + LineEnd
        BY <3>2 DEF ReadLine, ReadLinesTurn
      <4> QED
        BY <1>3, <4>1, <4>2, <4>3
    <3>3. CASE ReadLines
      BY <1>3, <3>3 DEF ReadLines
    <3> QED
      BY <1>6, <3>1, <3>2, <3>3 DEF AppReads
  <2>2. UNCHANGED <<response_header, calls>>
    BY <1>6 DEF AppReads, Read, ReadLine, ReadLines, ReadLinesTurn, slotVars
  <2>3. SlotsOwn'
    BY <1>1, <1>2, <2>2 DEF SlotsOwn, ThreadInv
  <2> QED
    BY <1>1, <1>2, <1>3, <1>4, <2>1, <2>2, <2>3 DEF ThreadInv
<1> QED
  BY <1>5, <1>6

(* The callable returns.                                                   *)
LEMMA ThreadReturns ==
  ASSUME IInv, [Next]_vars, CallReturns
  PROVE  ThreadInv'
<1>1. TypeInv /\ ThreadInv
  BY DEF IInv
<1>2. /\ thr = "call" /\ thr' = "first" /\ response_header # << >> /\ header' = response_header
      /\ response_header' = << >> /\ due' = [due EXCEPT ![cur] = calls.starts]
      /\ UNCHANGED <<cur, context, next_val, input, pos, in_readlines, calls, sending, yielded>>
  BY DEF CallReturns, chanVars, inputVars
<1>3. /\ cur \in Request /\ cur # NONE /\ AllTaken(cur)' /\ Body(cur)' = Body(cur) /\ input = Body(cur)
      /\ sending = {cur} /\ context = cur
  BY <1>2, ThreadAtOne
<1>4. response_header = <<[req |-> cur, start |-> calls.starts]>>
  <2>1. response_header = <<[req |-> response_header[1].req, start |-> response_header[1].start]>>
    BY <1>1, <1>2 DEF ThreadInv, Slot
  <2>2. response_header[1].start = calls.starts
    BY <1>1, <1>2 DEF ThreadInv
  <2>3. response_header[1].req = cur
    <3>1. 1 \in DOMAIN response_header
      BY <2>1
    <3> QED
      BY <1>1, <1>2, <3>1 DEF ThreadInv, SlotsOwn
  <2> QED
    BY <2>1, <2>2, <2>3
<1>5. due'[cur] = calls.starts
  BY <1>1, <1>2, <1>3 DEF TypeInv
<1>6. header' = <<[req |-> cur', start |-> due'[cur']]>>
  BY <1>2, <1>4, <1>5
<1>7. SlotsOwn' /\ Slot(response_header)'
  BY <1>1, <1>2, <1>3 DEF SlotsOwn, ThreadInv, Slot
<1>8. ReadLinesInv'
  BY <1>1, <1>2, ReadLinesStays
<1> QED
  BY <1>1, <1>2, <1>3, <1>6, <1>7, <1>8 DEF ThreadInv

(* The request is done with.                                               *)
LEMMA ThreadEnds ==
  ASSUME IInv, [Next]_vars, NoMore \/ SendMemory
  PROVE  ThreadInv'
<1>1. TypeInv /\ ThreadInv
  BY DEF IInv
<1>2. /\ thr \in {"stream", "memory"} /\ thr' = "recv" /\ cur' = NONE /\ sending' = sending \ {cur}
      /\ next_val' = << >> /\ input' = << >> /\ pos' = 0
      /\ UNCHANGED <<context, response_header, header, in_readlines>> /\ ~in_readlines
  BY <1>1 DEF NoMore, SendMemory, TurnEnds, slotVars, ThreadInv, ReadLinesInv
<1>3. sending' = {} /\ header' = << >> /\ context \in Request \cup {NONE} /\ Slot(response_header)
  BY <1>1, <1>2 DEF ThreadInv
<1>4. SlotsOwn' /\ Slot(response_header)'
  BY <1>2, <1>3 DEF SlotsOwn, Slot
<1>5. ReadLinesInv'
  BY <1>1, <1>2, ReadLinesStays
<1> QED
  BY <1>2, <1>3, <1>4, <1>5 DEF ThreadInv

(* The chunks of the body.                                                 *)
LEMMA ChunkIs ==
  ASSUME TypeInv, NEW n \in Nat, cur \in Request
  PROVE  /\ Chunk(n) = Part(cur, yielded[cur], yielded[cur] + n)
         /\ yielded[cur] \in Nat /\ yielded[cur] + n \in Nat /\ Chunk(n) \in Seq(OutCell)
<1>1. yielded[cur] \in Nat /\ yielded[cur] + n \in Nat /\ (yielded[cur] + n) - yielded[cur] = n
      /\ yielded[cur] <= yielded[cur] + n
  BY DEF TypeInv
<1>2. Chunk(n) = Part(cur, yielded[cur], yielded[cur] + n)
  BY <1>1 DEF Chunk, Part
<1> QED
  BY <1>1, <1>2, PartIs

(* BytesIter asks for a chunk, which it gives or holds back.               *)
LEMMA ThreadChunks ==
  ASSUME IInv, [Next]_vars, NextChunk \/ NextRaises
  PROVE  ThreadInv'
<1>1. TypeInv /\ ThreadInv
  BY DEF IInv
<1>2. /\ thr = "stream" /\ thr' = "stream"
      /\ UNCHANGED <<cur, context, response_header, header, input, pos, in_readlines, sending, due>>
  BY DEF NextChunk, NextRaises, slotVars, inputVars, chanVars, doneVars
<1>3. /\ cur \in Request /\ cur # NONE /\ AllTaken(cur)' /\ Body(cur)' = Body(cur) /\ input = Body(cur)
      /\ sending = {cur} /\ context = cur
  BY <1>2, ThreadAtOne
<1>4. next_val' # << >> => \E x \in 0 .. yielded'[cur] : next_val' = <<Part(cur, x, yielded'[cur])>>
  <2>1. CASE NextRaises
    BY <1>1, <2>1 DEF NextRaises, ThreadInv, doneVars
  <2>2. CASE NextChunk
    <3>1. SUFFICES ASSUME NEW n \in Nat, Yields(n)
                   PROVE  \E x \in 0 .. yielded'[cur] : next_val' = <<Part(cur, x, yielded'[cur])>>
      <4>1. Ends => next_val' = << >>
        BY DEF Ends
      <4>2. MaxYields \in Nat
        BY ExchangeAssumption
      <4> QED
        BY <2>2, <3>1, <4>1, <4>2 DEF NextChunk
    <3>2. yielded'[cur] = yielded[cur] + n /\ next_val' = <<Chunk(n)>>
      BY <1>1, <1>3, <3>1 DEF Yields, TypeInv
    <3>3. Chunk(n) = Part(cur, yielded[cur], yielded[cur] + n) /\ yielded[cur] \in Nat
      BY <1>1, <1>3, ChunkIs
    <3>4. yielded[cur] \in 0 .. yielded'[cur]
      BY <3>2, <3>3
    <3> QED
      BY <3>2, <3>3, <3>4
  <2> QED
    BY <2>1, <2>2
<1>5. SlotsOwn' /\ Slot(response_header)'
  BY <1>1, <1>2, <1>3 DEF SlotsOwn, ThreadInv, Slot
<1>6. ReadLinesInv'
  BY <1>1, <1>2, ReadLinesStays
<1> QED
  BY <1>1, <1>2, <1>3, <1>4, <1>5, <1>6 DEF ThreadInv

(* The answer.                                                             *)
LEMMA ThreadAnswers ==
  ASSUME IInv, [Next]_vars, Answers
  PROVE  ThreadInv'
<1>1. TypeInv /\ ThreadInv /\ \A r \in Request : ResponseInv(r)
  BY DEF IInv
<1>2. /\ cur \in Request /\ cur # NONE /\ thr \in {"call", "first"} /\ sending = {cur}
      /\ thr' \in {"stream", "memory"} /\ header' = << >>
      /\ UNCHANGED <<cur, context, response_header, input, pos, in_readlines, sending>> /\ ~in_readlines
      /\ \/ next_val' = << >> /\ yielded' = yielded /\ thr' = "stream"
         \/ \E n \in Nat : /\ next_val' = <<Chunk(n)>>
                           /\ yielded' = [yielded EXCEPT ![cur] = IF thr' = "memory" THEN n ELSE @ + n]
  BY <1>1, AnswerIs
<1>3. AllTaken(cur)' /\ Body(cur)' = Body(cur) /\ input = Body(cur) /\ context = cur
  BY <1>2, ThreadAtOne
<1>4. yielded[cur] = 0
  BY <1>1, <1>2 DEF ResponseInv, Preparing
<1>5. /\ next_val' # << >> => \E x \in 0 .. yielded'[cur] : next_val' = <<Part(cur, x, yielded'[cur])>>
      /\ thr' = "memory" => next_val' # << >>
  <2>1. CASE next_val' = << >> /\ thr' = "stream"
    BY <2>1
  <2>2. ASSUME NEW n \in Nat, next_val' = <<Chunk(n)>>,
               yielded' = [yielded EXCEPT ![cur] = IF thr' = "memory" THEN n ELSE @ + n]
        PROVE  /\ \E x \in 0 .. yielded'[cur] : next_val' = <<Part(cur, x, yielded'[cur])>>
               /\ next_val' # << >>
    <3>1. yielded'[cur] = n
      BY <1>1, <1>2, <1>4, <2>2 DEF TypeInv
    <3>2. Chunk(n) = Part(cur, 0, 0 + n) /\ 0 + n = n
      BY <1>1, <1>2, <1>4, ChunkIs
    <3> QED
      BY <2>2, <3>1, <3>2
  <2> QED
    BY <1>2, <2>1, <2>2
<1>6. SlotsOwn' /\ Slot(response_header)'
  BY <1>1, <1>2, <1>3 DEF SlotsOwn, ThreadInv, Slot
<1>7. ReadLinesInv'
  BY <1>1, <1>2, ReadLinesStays
<1> QED
  BY <1>1, <1>2, <1>3, <1>5, <1>6, <1>7 DEF ThreadInv

(* The slots, the input and the chunk of the thread are those of its       *)
(* request after every step.                                               *)
LEMMA ThreadStep ==
  ASSUME IInv, [Next]_vars
  PROVE  ThreadInv'
BY ByAction, ThreadElsewhere, ThreadTakes, ThreadApp, ThreadReturns, ThreadEnds, ThreadChunks,
   ThreadAnswers
   DEF Silent, Elsewhere, Reads

-----------------------------------------------------------------------------
(* Types.                                                                  *)

Phases == {"idle", "reading", "waiting", "writing", "closed"}

(* The types of the variables of clients.                                  *)
LEMMA TypeClients ==
  ASSUME IInv, [Next]_vars
  PROVE  /\ \A r \in Request :
              /\ stream'[r] \in Stream /\ kind'[r].length \in Nat
              /\ kind'[r].valid \in BOOLEAN /\ kind'[r].keep_alive \in BOOLEAN
         /\ sent' \in [Stream -> Nat] /\ eof' \cup given_up' \subseteq Stream
<1>1. TypeInv /\ ThreadInv
  BY DEF IInv
<1>2. UNCHANGED <<stream, kind>>
  BY Kept
<1>3. CASE UNCHANGED <<sent, eof, given_up>>
  BY <1>1, <1>2, <1>3 DEF TypeInv
<1>4. CASE Silent
  BY <1>3, <1>4, SilentIs DEF clientVars
<1>5. CASE Answers
  BY <1>1, <1>3, <1>5, AnswerIs DEF clientVars
<1>6. ASSUME NEW s \in Stream, TakeOn(s) \/ ReadHeader(s) \/ ReadBody(s) \/ WriteStream(s)
      PROVE  UNCHANGED <<sent, eof, given_up>>
  BY <1>6 DEF TakeOn, ReadHeader, ReadBody, WriteStream, clientVars
<1>7. ASSUME NEW s \in Stream, Send(s)
      PROVE  sent' \in [Stream -> Nat] /\ UNCHANGED <<eof, given_up>>
  <2>1. PICK n \in sent[s] + 1 .. Len(All(s)) : sent' = [sent EXCEPT ![s] = n]
    BY <1>7 DEF Send, All
  <2>2. sent[s] \in Nat /\ Len(All(s)) \in Nat
    BY <1>1, Constants, ThroughType DEF TypeInv, All
  <2>3. n \in Nat
    BY <2>2
  <2> QED
    BY <1>1, <1>7, <2>1, <2>3 DEF TypeInv, Send
<1>8. ASSUME NEW s \in Stream, CloseWrite(s)
      PROVE  sent' = sent /\ eof' \cup given_up' \subseteq Stream
  BY <1>1, <1>8 DEF TypeInv, CloseWrite
<1>9. ASSUME NEW s \in Stream, GiveUp(s)
      PROVE  sent' \in [Stream -> Nat] /\ eof' \cup given_up' \subseteq Stream
  BY <1>1, <1>9 DEF TypeInv, GiveUp
<1> QED
  BY <1>1, <1>2, <1>3, <1>4, <1>5, <1>6, <1>7, <1>8, <1>9, ByAction DEF TypeInv

(* The types of the variables of streams, and of the queue.                *)
LEMMA TypeStreams ==
  ASSUME IInv, [Next]_vars
  PROVE  /\ taken' \in [Stream -> Nat] /\ stage' \in [Stream -> Phases]
         /\ reader' \in [Stream -> Reader] /\ writer' \in [Stream -> Writer]
         /\ serving' \in [Stream -> Request \cup {NONE}]
         /\ req_recv' \in Seq([req : Request, body : Seq(Cell)])
<1>1. TypeInv /\ ThreadInv /\ (\A s \in Stream : StreamInv(s)) /\ \A r \in Request : ResponseInv(r)
  BY DEF IInv
<1>2. /\ taken \in [Stream -> Nat] /\ stage \in [Stream -> Phases]
      /\ reader \in [Stream -> Reader] /\ writer \in [Stream -> Writer]
      /\ serving \in [Stream -> Request \cup {NONE}]
      /\ req_recv \in Seq([req : Request, body : Seq(Cell)])
  BY <1>1 DEF TypeInv, Phases
<1>3. NewReader \in Reader /\ NewWriter \in Writer
  BY Constants DEF NewReader, NewWriter, Reader, Writer
<1>4. CASE Silent
  <2>1. UNCHANGED streamVars
    BY <1>4, SilentIs
  <2>2. req_recv' = req_recv \/ (req_recv # << >> /\ req_recv' = Tail(req_recv))
    BY <1>4 DEF Silent, Take, StartResponse, AppReads, Read, ReadLine, ReadLines, ReadLinesTurn,
      CallReturns, NextChunk, NextRaises, NoMore, SendMemory, TurnEnds, Quiet, vars
  <2>3. req_recv' \in Seq([req : Request, body : Seq(Cell)])
    <3> DEFINE E == [req : Request, body : Seq(Cell)]
    <3>1. req_recv \in Seq(E)
      BY <1>2
    <3> HIDE DEF E
    <3>2. req_recv' \in Seq(E)
      BY <2>2, <3>1
    <3> QED
      BY <3>2 DEF E
  <2> QED
    BY <1>2, <2>1, <2>3 DEF streamVars
<1>5. CASE Answers
  <2>1. cur \in Request /\ UNCHANGED <<taken, reader, serving, req_recv>> /\ due'[cur] \in Nat
        /\ Respond([req |-> cur, start |-> due'[cur]])
    BY <1>1, <1>5, AnswerIs
  <2>2. [buffer |-> <<<<cur, "header", due'[cur]>>>>, resp_body |-> TRUE] \in Writer
    BY <2>1 DEF Writer, OutCell
  <2>3. \/ UNCHANGED <<stage, writer>>
        \/ \E s : /\ stage' = [stage EXCEPT ![s] = "writing"]
                  /\ writer' = [writer EXCEPT ![s] =
                       [buffer |-> <<<<cur, "header", due'[cur]>>>>, resp_body |-> TRUE]]
    BY <2>1 DEF Respond
  <2> QED
    BY <1>2, <2>1, <2>2, <2>3 DEF Phases
<1>6. ASSUME NEW s \in Stream, Send(s) \/ CloseWrite(s)
      PROVE  UNCHANGED <<taken, stage, reader, writer, serving, req_recv>>
  BY <1>6 DEF Send, CloseWrite, streamVars
<1>7. ASSUME NEW s \in Stream, GiveUp(s) \/ TakeOn(s)
      PROVE  /\ UNCHANGED <<taken, req_recv>> /\ stage' \in [Stream -> Phases]
             /\ reader' \in [Stream -> Reader] /\ writer' \in [Stream -> Writer]
             /\ serving' \in [Stream -> Request \cup {NONE}]
  <2>1. CASE GiveUp(s)
    BY <1>2, <1>3, <2>1 DEF GiveUp, Phases
  <2>2. CASE TakeOn(s)
    BY <1>2, <1>3, <2>2 DEF TakeOn, Phases
  <2> QED
    BY <1>7, <2>1, <2>2
<1>8. ASSUME NEW s \in Stream, WriteStream(s)
      PROVE  /\ UNCHANGED <<taken, reader, serving, req_recv>>
             /\ stage' \in [Stream -> Phases] /\ writer' \in [Stream -> Writer]
  <2>1. UNCHANGED <<taken, reader, serving, req_recv>>
    BY <1>8 DEF WriteStream
  <2>2. Written(s, serving[s])
    BY <1>1, <1>8, WriteIs
  <2>3. writer' = [writer EXCEPT ![s] = writer'[s]] /\ writer'[s] \in Writer
        /\ \E p \in Phases : stage' = [stage EXCEPT ![s] = p] \/ stage' = stage
    BY <2>2 DEF Written, Phases
  <2>4. writer' \in [Stream -> Writer]
    BY <1>2, <2>3
  <2> QED
    BY <1>2, <2>1, <2>3, <2>4
<1>9. ASSUME NEW s \in Stream, ReadHeader(s) \/ ReadBody(s)
      PROVE  /\ taken' \in [Stream -> Nat] /\ stage' \in [Stream -> Phases]
             /\ reader' \in [Stream -> Reader] /\ writer' = writer
             /\ serving' \in [Stream -> Request \cup {NONE}]
             /\ req_recv' \in Seq([req : Request, body : Seq(Cell)])
  <2>1. PICK n \in Nat, v \in Request \cup {NONE} : Outcome(s, n, v)
    BY <1>1, <1>9, ReadStep
  <2>2. writer' = writer
    BY <1>9 DEF ReadHeader, ReadBody
  <2>3. taken' \in [Stream -> Nat] /\ serving' \in [Stream -> Request \cup {NONE}]
    BY <1>2, <2>1 DEF Outcome
  <2>4. CASE Closes(s)
    BY <1>2, <1>3, <2>2, <2>3, <2>4 DEF Closes, Phases
  <2>5. CASE v # NONE /\ Complete(s, v, Body(v))
    <3>1. [req |-> v, body |-> Body(v)] \in [req : Request, body : Seq(Cell)]
      BY <1>1, <2>5, BytesAre
    <3>2. req_recv' \in Seq([req : Request, body : Seq(Cell)])
      BY <1>2, <2>5, <3>1 DEF Complete
    <3> QED
      BY <1>2, <1>3, <2>2, <2>3, <2>5, <3>2 DEF Complete, Phases
  <2>6. CASE /\ reader'[s] \in Reader /\ reader' = [reader EXCEPT ![s] = reader'[s]]
             /\ UNCHANGED <<stage, req_recv>>
    <3>1. reader' \in [Stream -> Reader]
      BY <1>2, <2>6
    <3> QED
      BY <1>2, <2>2, <2>3, <2>6, <3>1
  <2> QED
    BY <2>1, <2>4, <2>5, <2>6 DEF Outcome
<1> QED
  BY <1>2, <1>4, <1>5, <1>6, <1>7, <1>8, <1>9, ByAction

(* The types of the variables of responses.                                *)
LEMMA TypeResponses ==
  ASSUME IInv, [Next]_vars
  PROVE  /\ chan' \in [Request -> Seq(Seq(OutCell))] /\ receiving' \subseteq Request
         /\ due' \in [Request -> Nat] /\ yielded' \in [Request -> Nat]
         /\ out' \in [Request -> Seq(OutCell)]
         /\ calls' \in [starts : Nat, chunks : Nat, raises : Nat]
<1>1. TypeInv /\ ThreadInv /\ (\A s \in Stream : StreamInv(s)) /\ \A r \in Request : ResponseInv(r)
  BY DEF IInv
<1>2. /\ chan \in [Request -> Seq(Seq(OutCell))] /\ receiving \subseteq Request
      /\ due \in [Request -> Nat] /\ yielded \in [Request -> Nat]
      /\ out \in [Request -> Seq(OutCell)]
      /\ calls \in [starts : Nat, chunks : Nat, raises : Nat]
  BY <1>1 DEF TypeInv
<1> USE DEF chanVars, doneVars, threadVars, appVars, inputVars, slotVars
<1>3. CASE Take
  BY <1>2, <1>3 DEF Take, NoCalls
<1>4. CASE StartResponse \/ AppReads \/ CallReturns \/ NextRaises
  <2>1. CASE StartResponse
    <3>1. calls' = [calls EXCEPT !.starts = @ + 1] /\ UNCHANGED <<chan, receiving, due, yielded, out>>
      BY <2>1 DEF StartResponse
    <3>2. calls' \in [starts : Nat, chunks : Nat, raises : Nat]
      <4>1. calls.starts + 1 \in Nat /\ calls \in [starts : Nat, chunks : Nat, raises : Nat]
        BY <1>2
      <4> QED
        BY ONLY <3>1, <4>1
    <3> QED
      BY <1>2, <3>1, <3>2
  <2>2. CASE AppReads
    BY <1>2, <2>2 DEF AppReads, Read, ReadLine, ReadLines, ReadLinesTurn
  <2>3. CASE CallReturns
    <3>1. calls.starts \in Nat /\ due' = [due EXCEPT ![cur] = calls.starts]
          /\ UNCHANGED <<chan, receiving, yielded, out, calls>>
      BY <1>2, <2>3 DEF CallReturns
    <3> QED
      BY <1>2, <3>1
  <2>4. CASE NextRaises
    <3>1. calls' = [calls EXCEPT !.raises = @ + 1] /\ UNCHANGED <<chan, receiving, due, yielded, out>>
      BY <2>4 DEF NextRaises
    <3>2. calls' \in [starts : Nat, chunks : Nat, raises : Nat]
      <4>1. calls.raises + 1 \in Nat /\ calls \in [starts : Nat, chunks : Nat, raises : Nat]
        BY <1>2
      <4> QED
        BY ONLY <3>1, <4>1
    <3> QED
      BY <1>2, <3>1, <3>2
  <2> QED
    BY <1>4, <2>1, <2>2, <2>3, <2>4
<1>5. ASSUME cur \in Request, next_val # << >>, SendChunk(next_val[1])
      PROVE  chan' \in [Request -> Seq(Seq(OutCell))]
  <2>1. next_val[1] \in Seq(OutCell)
    <3>1. PICK x \in 0 .. yielded[cur] : next_val = <<Part(cur, x, yielded[cur])>>
      BY <1>1, <1>5 DEF ThreadInv
    <3>2. x \in Nat /\ yielded[cur] \in Nat /\ x <= yielded[cur]
      BY <1>2, <1>5
    <3> QED
      BY <1>5, <3>1, <3>2, PartIs
  <2> QED
    BY <1>2, <1>5, <2>1 DEF SendChunk
<1>6. thr # "recv" => cur \in Request
  BY <1>1 DEF ThreadInv, AllTaken
<1>7. CASE NextChunk
  <2>1. chan' \in [Request -> Seq(Seq(OutCell))] /\ UNCHANGED <<receiving, due, out>> /\ cur \in Request
    BY <1>5, <1>6, <1>7 DEF NextChunk
  <2>2. CASE Ends
    BY <1>2, <2>1, <2>2 DEF Ends
  <2>3. ASSUME NEW n \in Nat, Yields(n)
        PROVE  yielded' \in [Request -> Nat] /\ calls' \in [starts : Nat, chunks : Nat, raises : Nat]
    <3>1. /\ calls' = [calls EXCEPT !.chunks = @ + 1] /\ yielded' = [yielded EXCEPT ![cur] = @ + n]
          /\ yielded[cur] + n \in Nat /\ calls.chunks + 1 \in Nat
      BY <1>2, <2>1, <2>3 DEF Yields
    <3> QED
      BY <1>2, <3>1
  <2>4. MaxYields \in Nat
    BY ExchangeAssumption
  <2> QED
    BY <1>2, <1>7, <2>1, <2>2, <2>3, <2>4 DEF NextChunk
<1>8. CASE NoMore \/ SendMemory
  <2>1. UNCHANGED <<receiving, due, yielded, out>> /\ calls' = NoCalls
    BY <1>8 DEF NoMore, SendMemory, TurnEnds
  <2>2. chan' \in [Request -> Seq(Seq(OutCell))]
    <3>1. CASE NoMore
      BY <1>2, <3>1 DEF NoMore
    <3>2. CASE SendMemory
      BY <1>1, <1>5, <1>6, <3>2 DEF SendMemory, ThreadInv
    <3> QED
      BY <1>8, <3>1, <3>2
  <2> QED
    BY <1>2, <2>1, <2>2 DEF NoCalls
<1>9. CASE Quiet \/ UNCHANGED vars
  BY <1>2, <1>9 DEF Quiet, vars
<1>10. CASE Answers
  <2>1. /\ cur \in Request /\ UNCHANGED <<chan, out>>
        /\ due' = [due EXCEPT ![cur] = due'[cur]] /\ due'[cur] \in Nat
        /\ Respond([req |-> cur, start |-> due'[cur]])
        /\ \/ yielded' = yielded
           \/ \E n \in Nat : yielded' = [yielded EXCEPT ![cur] = IF thr' = "memory" THEN n ELSE @ + n]
        /\ calls' \in [starts : Nat, chunks : Nat, raises : Nat]
    BY <1>1, <1>10, AnswerIs
  <2>2. receiving' \subseteq Request
    BY <1>2, <2>1 DEF Respond
  <2>3. due' \in [Request -> Nat]
    BY <1>2, <2>1
  <2>4. yielded' \in [Request -> Nat]
    <3>1. ASSUME NEW n \in Nat, yielded' = [yielded EXCEPT ![cur] = IF thr' = "memory" THEN n ELSE @ + n]
          PROVE  yielded' \in [Request -> Nat]
      <4>1. yielded[cur] + n \in Nat
        BY <1>2, <2>1
      <4> QED
        BY <1>2, <3>1, <4>1
    <3> QED
      BY <1>2, <2>1, <3>1
  <2> QED
    BY <1>2, <2>1, <2>2, <2>3, <2>4
<1>11. ASSUME NEW s \in Stream, Send(s) \/ CloseWrite(s) \/ TakeOn(s) \/ ReadHeader(s) \/ ReadBody(s)
       PROVE  UNCHANGED <<chan, receiving, due, yielded, out, calls>>
  BY <1>11 DEF Send, CloseWrite, TakeOn, ReadHeader, ReadBody
<1>12. CASE \E s \in Stream : GiveUp(s)
  BY <1>2, <1>12 DEF GiveUp
<1>13. ASSUME NEW s \in Stream, WriteStream(s)
       PROVE  /\ UNCHANGED <<due, yielded, calls>>
              /\ chan' \in [Request -> Seq(Seq(OutCell))] /\ receiving' \subseteq Request
              /\ out' \in [Request -> Seq(OutCell)]
  <2>1. UNCHANGED <<due, yielded, calls>>
    BY <1>13 DEF WriteStream
  <2>2. Written(s, serving[s])
    BY <1>1, <1>13, WriteIs
  <2> DEFINE r == serving[s]
  <2>3. /\ out' = [out EXCEPT ![r] = out'[r]] /\ out'[r] \in Seq(OutCell)
        /\ chan' = [chan EXCEPT ![r] = chan'[r]] /\ chan'[r] \in Seq(Seq(OutCell))
        /\ receiving' = (IF writer'[s].resp_body THEN receiving ELSE receiving \ {r})
    BY <2>2 DEF Written
  <2> QED
    BY <1>2, <2>1, <2>3
<1> QED
  BY <1>2, <1>3, <1>4, <1>7, <1>8, <1>9, <1>10, <1>11, <1>12, <1>13, ByAction DEF Silent

(* Every variable keeps its type.                                          *)
LEMMA TypeStep ==
  ASSUME IInv, [Next]_vars
  PROVE  TypeInv'
BY TypeClients, TypeStreams, TypeResponses DEF TypeInv, Phases

-----------------------------------------------------------------------------
(* Responses.                                                              *)

(* A response to which nothing happens.                                    *)
LEMMA ResponseStays ==
  ASSUME NEW r \in Request, ResponseInv(r), UNCHANGED <<stream, kind>>, given_up \subseteq given_up',
         out'[r] = out[r], yielded'[r] = yielded[r], due'[r] = due[r], chan'[r] = chan[r],
         r \in receiving' <=> r \in receiving,
         Writing(r)' <=> Writing(r), Writing(r) => writer'[stream[r]] = writer[stream[r]],
         AllTaken(r) => AllTaken(r)', Preparing(r)' => Preparing(r) \/ ~AllTaken(r),
         Pending(r)' <=> Pending(r), Pending(r) => next_val' = next_val,
         r \in sending' => r \in sending \/ Preparing(r),
         cur' = r => cur = r \/ Preparing(r),
         serving'[stream[r]] = r /\ out[r] # << >> => serving[stream[r]] = r
  PROVE  ResponseInv(r)'
<1>1. Preparing(r)' \/ ~AllTaken(r)' => out'[r] = << >> /\ yielded'[r] = 0 /\ ~Writing(r)'
  BY DEF ResponseInv
<1>2. /\ r \in receiving' <=> Writing(r)' /\ writer'[stream'[r]].resp_body
      /\ r \notin receiving' => chan'[r] = << >>
  BY DEF ResponseInv
<1>3. Due(r)' = Due(r)
  BY DEF Due
<1>4. \A k : Chunked(r, k) => Chunked(r, k)'
  BY DEF Chunked
<1>5. Writing(r)' => Piped(r)'
  <2>1. SUFFICES ASSUME Writing(r) PROVE Piped(r)'
    OBVIOUS
  <2>2. Piped(r) /\ ~Preparing(r) /\ writer'[stream'[r]] = writer[stream[r]]
    BY <2>1 DEF ResponseInv
  <2> QED
    BY <1>3, <1>4, <2>2 DEF Piped
<1>6. Len(out'[r]) <= yielded'[r] + 1 /\ out'[r] = First(Due(r)', Len(out'[r]))
  BY <1>3 DEF ResponseInv
<1>7. ~Writing(r)' /\ serving'[stream'[r]] = r /\ stream'[r] \notin given_up' /\ out'[r] # << >> =>
        Len(out'[r]) = yielded'[r] + 1 /\ r # cur'
  BY DEF ResponseInv
<1> QED
  BY <1>1, <1>2, <1>5, <1>6, <1>7 DEF ResponseInv

(* A response of which nothing is written.                                 *)
LEMMA ResponseUnsent ==
  ASSUME NEW r \in Request, out'[r] = << >>, ~Writing(r)', r \notin receiving', chan'[r] = << >>,
         yielded'[r] \in Nat, Preparing(r)' \/ ~AllTaken(r)' => yielded'[r] = 0
  PROVE  ResponseInv(r)'
<1>1. Len(<< >>) = 0 /\ First(Due(r)', 0) = << >>
  BY DEF First
<1> QED
  BY <1>1 DEF ResponseInv

(* Steps that are not about a response at all.                             *)
LEMMA ResponseSilent ==
  ASSUME IInv, [Next]_vars, NEW r \in Request, Silent,
         r = cur => ~(CallReturns \/ NextChunk \/ SendMemory)
  PROVE  ResponseInv(r)'
<1>1. TypeInv /\ ThreadInv /\ ResponseInv(r)
  BY DEF IInv
<1>2. UNCHANGED <<clientVars, streamVars, receiving, out>> /\ (AllTaken(r) => AllTaken(r)')
  BY SilentIs, TakenStays
<1>3. /\ UNCHANGED <<stream, kind, given_up, stage, writer, serving>>
      /\ (Writing(r)' <=> Writing(r)) /\ r # NONE
  BY <1>2, Constants DEF clientVars, streamVars, Writing
<1>4. SUFFICES /\ yielded'[r] = yielded[r] /\ due'[r] = due[r] /\ chan'[r] = chan[r]
               /\ Preparing(r)' => Preparing(r)
               /\ Pending(r)' <=> Pending(r)
               /\ Pending(r) => next_val' = next_val
               /\ r \in sending' => r \in sending \/ Preparing(r)
               /\ cur' = r => cur = r \/ Preparing(r)
  BY <1>1, <1>2, <1>3, ResponseStays
<1>5. CASE Take
  <2>1. /\ req_recv \in Seq([req : Request, body : Seq(Cell)]) /\ req_recv # << >>
        /\ req_recv' = Tail(req_recv) /\ cur' = Head(req_recv).req
        /\ sending = {} /\ cur = NONE /\ thr = "recv" /\ thr' = "call" /\ next_val = << >>
        /\ UNCHANGED <<next_val, yielded, due, chan>> /\ sending' = {cur'}
    BY <1>1, <1>5 DEF Take, TypeInv, ThreadInv, doneVars
  <2>2. cur' = r => Queued(r)
    <3>1. Head(req_recv) = req_recv[1] /\ 1 \in DOMAIN req_recv
      BY <2>1
    <3> QED
      BY <2>1, <3>1 DEF Queued
  <2>3. Queued(r)' => Queued(r)
    <3> DEFINE E == [req : Request, body : Seq(Cell)]
    <3>1. req_recv \in Seq(E) /\ req_recv # << >> /\ req_recv' = Tail(req_recv)
      BY <2>1
    <3> HIDE DEF E
    <3>2. \A i \in DOMAIN req_recv' : i + 1 \in DOMAIN req_recv /\ req_recv'[i] = req_recv[i + 1]
      BY <3>1
    <3> QED
      BY <3>2 DEF Queued
  <2> QED
    BY <1>3, <2>1, <2>2, <2>3 DEF Preparing, Pending
<1>6. CASE StartResponse \/ AppReads \/ NextRaises
  <2>1. UNCHANGED <<thr, cur, next_val, yielded, due, chan, sending, req_recv>>
    BY <1>6 DEF StartResponse, AppReads, Read, ReadLine, ReadLines, ReadLinesTurn, NextRaises, chanVars,
      doneVars
  <2> QED
    BY <2>1 DEF Preparing, Pending, Queued
<1>7. CASE CallReturns
  <2>1. /\ UNCHANGED <<cur, next_val, yielded, chan, sending, req_recv>> /\ thr = "call"
        /\ due' = [due EXCEPT ![cur] = calls.starts]
    BY <1>7 DEF CallReturns, chanVars
  <2>2. due'[r] = due[r]
    BY <1>1, <1>7, <2>1 DEF TypeInv
  <2> QED
    BY <2>1, <2>2 DEF Preparing, Pending, Queued
<1>8. CASE NextChunk
  <2>1. /\ UNCHANGED <<thr, cur, due, sending, req_recv>> /\ r # cur /\ SendChunk(next_val[1])
        /\ Ends \/ \E n \in 0 .. MaxYields : Yields(n)
    BY <1>8 DEF NextChunk
  <2>2. yielded'[r] = yielded[r]
    BY <1>1, <2>1 DEF Ends, Yields, TypeInv
  <2>3. chan'[r] = chan[r]
    BY <1>1, <2>1 DEF SendChunk, TypeInv
  <2> QED
    BY <2>1, <2>2, <2>3 DEF Preparing, Pending, Queued
<1>9. CASE NoMore \/ SendMemory
  <2>1. /\ UNCHANGED <<yielded, due, req_recv>> /\ thr' = "recv" /\ cur' = NONE
        /\ sending' = sending \ {cur} /\ next_val' = << >>
    BY <1>9 DEF NoMore, SendMemory, TurnEnds, doneVars
  <2>2. chan'[r] = chan[r]
    BY <1>1, <1>9 DEF NoMore, SendMemory, SendChunk, TypeInv
  <2>3. ~Pending(r)
    BY <1>9 DEF NoMore, Pending
  <2> QED
    BY <1>3, <2>1, <2>2, <2>3 DEF Preparing, Pending, Queued
<1>10. CASE Quiet \/ UNCHANGED vars
  <2>1. UNCHANGED vars
    BY <1>10 DEF Quiet
  <2>2. UNCHANGED <<thr, cur, next_val, yielded, due, chan, sending, req_recv>>
    BY <2>1 DEF vars, threadVars, appVars, inputVars, chanVars, doneVars
  <2> QED
    BY <2>2 DEF Preparing, Pending, Queued
<1> QED
  BY <1>5, <1>6, <1>7, <1>8, <1>9, <1>10 DEF Silent

(* The callable has returned: its header is due, nothing of it is sent.    *)
LEMMA ResponseReturns ==
  ASSUME IInv, [Next]_vars, CallReturns, NEW r \in Request, r = cur
  PROVE  ResponseInv(r)'
<1>1. TypeInv /\ ThreadInv /\ ResponseInv(r)
  BY DEF IInv
<1>2. /\ UNCHANGED <<clientVars, streamVars, receiving, out, chan, yielded>> /\ thr = "call"
  BY SilentIs DEF Silent, CallReturns, chanVars
<1>3. out[r] = << >> /\ yielded[r] = 0 /\ ~Writing(r) /\ r \notin receiving /\ chan[r] = << >>
  BY <1>1, <1>2 DEF ResponseInv, Preparing
<1>4. ~Writing(r)'
  BY <1>2, <1>3 DEF Writing, clientVars, streamVars
<1> QED
  BY <1>2, <1>3, <1>4, ResponseUnsent

(* A response that grows longer is still what has been written of it.      *)
LEMMA BeginsStays ==
  ASSUME TypeInv, TypeInv', NEW r \in Request, NEW x \in Seq(OutCell), Begins(x, r),
         due'[r] = due[r], yielded[r] <= yielded'[r]
  PROVE  Len(x) <= yielded'[r] + 1 /\ x = First(Due(r)', Len(x))
<1>1. /\ Len(x) <= yielded[r] + 1 /\ Len(x) \in Nat /\ yielded[r] \in Nat
      /\ Len(x) >= 1 => x[1] = <<r, "header", due[r]>>
      /\ \A i \in 1 .. Len(x) - 1 : x[i + 1] = <<r, "body", i>>
  BY BeginsIs
<1>2. yielded'[r] \in Nat
  BY DEF TypeInv
<1>3. Len(x) <= yielded'[r] + 1
  BY <1>1, <1>2
<1>4. /\ Len(Due(r))' = yielded'[r] + 1 /\ Due(r)' \in Seq(OutCell)
      /\ Due(r)'[1] = <<r, "header", due'[r]>>
      /\ \A i \in 1 .. yielded'[r] : Due(r)'[i + 1] = <<r, "body", i>>
  <2>1. due'[r] \in Nat /\ Due(r)' = Response(r, due'[r], yielded'[r])
    BY DEF TypeInv, Due, Response
  <2>2. IsResponse(Due(r)', r, due'[r], yielded'[r])
    BY <1>2, <2>1, ResponseIs
  <2> QED
    BY <2>2 DEF IsResponse
<1> DEFINE d == Due(r)'
<1> HIDE DEF d
<1>5. ASSUME NEW i \in 1 .. Len(x) PROVE x[i] = d[i]
  <2>1. CASE i = 1
    <3>1. Len(x) >= 1
      BY <1>1
    <3> QED
      BY <1>1, <1>4, <2>1, <3>1 DEF d
  <2>2. CASE i # 1
    <3>1. i - 1 \in 1 .. Len(x) - 1 /\ i - 1 \in 1 .. yielded'[r] /\ (i - 1) + 1 = i
      BY <1>1, <1>2, <1>3, <2>2
    <3>2. x[(i - 1) + 1] = <<r, "body", i - 1>> /\ d[(i - 1) + 1] = <<r, "body", i - 1>>
      BY <1>1, <1>4, <3>1 DEF d
    <3> QED
      BY <3>1, <3>2
  <2> QED
    BY <2>1, <2>2
<1>6. d \in Seq(OutCell) /\ Len(x) <= Len(d)
  BY <1>3, <1>4 DEF d
<1>7. x = First(d, Len(x))
  BY <1>5, <1>6, FirstIs
<1> QED
  BY <1>3, <1>7 DEF d

(* A chunk of a response is sent.                                          *)
LEMMA ResponseChunks ==
  ASSUME IInv, [Next]_vars, NextChunk \/ SendMemory, NEW r \in Request, r = cur
  PROVE  ResponseInv(r)'
<1>1. TypeInv /\ ThreadInv /\ QueueInv /\ ResponseInv(r) /\ TypeInv'
  BY TypeStep DEF IInv
<1>2. /\ UNCHANGED <<clientVars, streamVars, receiving, out, due, req_recv>>
      /\ thr \in {"stream", "memory"} /\ SendChunk(next_val[1]) /\ next_val # << >>
      /\ sending = {r} /\ r # NONE
  <2>1. UNCHANGED <<due, req_recv>> /\ thr \in {"stream", "memory"} /\ SendChunk(next_val[1])
        /\ next_val # << >>
    BY <1>1 DEF NextChunk, SendMemory, TurnEnds, ThreadInv, doneVars
  <2>2. UNCHANGED <<clientVars, streamVars, receiving, out>>
    BY SilentIs DEF Silent
  <2> QED
    BY <1>1, <2>1, <2>2, Constants DEF ThreadInv
<1>3. UNCHANGED <<stream, kind, given_up, stage, writer, serving>> /\ (Writing(r)' <=> Writing(r))
  BY <1>2 DEF clientVars, streamVars, Writing
<1>4. ~Preparing(r) /\ ~Preparing(r)'
  <2>1. ~Queued(r)
    BY <1>1 DEF QueueInv, Queued
  <2>2. cur' = NONE \/ thr' = "stream"
    BY <1>2 DEF NextChunk, SendMemory, TurnEnds
  <2> QED
    BY <1>2, <2>1, <2>2 DEF Preparing, Queued
<1>5. AllTaken(r)'
  BY <1>1, <1>2, TakenStays DEF ThreadInv
<1>6. PICK x \in 0 .. yielded[r] : next_val = <<Part(r, x, yielded[r])>>
  BY <1>1, <1>2 DEF ThreadInv
<1>7. next_val[1] \in Seq(OutCell) /\ next_val[1] = Part(r, x, yielded[r]) /\ yielded[r] \in Nat /\ x \in Nat
  <2>1. yielded[r] \in Nat /\ x \in Nat /\ x <= yielded[r]
    BY <1>1 DEF TypeInv
  <2> QED
    BY <1>6, <2>1, PartIs
<1>8. /\ yielded'[r] \in Nat /\ yielded[r] <= yielded'[r]
      /\ IF Pending(r)' THEN next_val' = <<Part(r, yielded[r], yielded'[r])>> ELSE yielded'[r] = yielded[r]
  <2>1. CASE SendMemory
    <3>1. next_val' = << >> /\ yielded' = yielded
      BY <2>1 DEF SendMemory, TurnEnds, doneVars
    <3> QED
      BY <1>7, <3>1 DEF Pending
  <2>2. CASE NextChunk /\ Ends
    <3>1. next_val' = << >> /\ yielded' = yielded
      BY <2>2 DEF Ends
    <3> QED
      BY <1>7, <3>1 DEF Pending
  <2>3. ASSUME NextChunk, NEW n \in Nat, Yields(n)
        PROVE  /\ yielded'[r] \in Nat /\ yielded[r] <= yielded'[r]
               /\ next_val' = <<Part(r, yielded[r], yielded'[r])>> /\ Pending(r)'
    <3>1. yielded'[r] = yielded[r] + n /\ next_val' = <<Chunk(n)>> /\ cur' = cur
      BY <1>1, <2>3 DEF Yields, NextChunk, TypeInv
    <3>2. Chunk(n) = Part(r, yielded[r], yielded[r] + n)
      BY <1>1, ChunkIs
    <3> QED
      BY <1>7, <3>1, <3>2 DEF Pending
  <2>4. MaxYields \in Nat
    BY ExchangeAssumption
  <2>5. SendMemory \/ (NextChunk /\ Ends) \/ \E n \in Nat : NextChunk /\ Yields(n)
    BY <2>4 DEF NextChunk
  <2> QED
    BY <2>1, <2>2, <2>3, <2>5
<1>9. ASSUME NEW k \in Nat, r \in receiving, Chunked(r, k)
      PROVE  Chunked(r, k)'
  <2>1. PICK m \in 0 .. yielded[r] : InChunks(chan[r], r, k, m) /\ next_val = <<Part(r, m, yielded[r])>>
    BY <1>2, <1>9 DEF Chunked, Pending
  <2>2. chan'[r] = Append(chan[r], next_val[1]) /\ chan[r] \in Seq(Seq(OutCell))
    BY <1>1, <1>2, <1>9 DEF SendChunk, TypeInv
  <2>3. next_val[1] = Part(r, m, yielded[r]) /\ m \in Nat /\ m <= yielded[r]
    BY <1>7, <2>1
  <2> DEFINE q == chan[r]
             e == next_val[1]
             y == yielded[r]
  <2>4. q \in Seq(Seq(OutCell)) /\ k \in Nat /\ m \in Nat /\ InChunks(q, r, k, m) /\ y \in Nat /\ m <= y
        /\ e \in Seq(OutCell) /\ e = Part(r, m, y)
    BY <1>7, <2>1, <2>2, <2>3
  <2> HIDE DEF q, e, y
  <2>5. InChunks(Append(q, e), r, k, y)
    BY ONLY <2>4, InChunksAppend
  <2>6. y \in 0 .. yielded'[r] /\ chan'[r] = Append(q, e)
    BY <1>7, <1>8, <2>2 DEF q, e, y
  <2>7. IF Pending(r)' THEN next_val' = <<Part(r, y, yielded'[r])>> ELSE y = yielded'[r]
    BY <1>8 DEF y
  <2> QED
    BY <2>5, <2>6, <2>7 DEF Chunked
<1>10. ASSUME NEW z \in Seq(OutCell), Begins(z, r)
       PROVE  Len(z) <= yielded'[r] + 1 /\ z = First(Due(r)', Len(z))
  BY <1>1, <1>2, <1>8, <1>10, BeginsStays
<1>11. Writing(r) => writer[stream[r]].resp_body /\ r \in receiving
  <2>1. Writing(r) => Piped(r)
    BY <1>1 DEF ResponseInv
  <2> QED
    BY <1>1, <1>2, <2>1 DEF ResponseInv, Piped
<1>12. Writing(r)' => Piped(r)'
  <2>1. SUFFICES ASSUME Writing(r) PROVE Piped(r)'
    BY <1>3
  <2> DEFINE all == out[r] \o writer[stream[r]].buffer
  <2>2. /\ Len(all) \in 1 .. yielded[r] + 1 /\ all = First(Due(r), Len(all))
        /\ Chunked(r, Len(all) - 1)
    BY <1>1, <1>11, <2>1 DEF ResponseInv, Piped
  <2>3. all \in Seq(OutCell)
    <3>1. out[r] \in Seq(OutCell) /\ stream[r] \in Stream
      BY <1>1 DEF TypeInv
    <3>2. writer[stream[r]].buffer \in Seq(OutCell)
      BY <1>1, <3>1 DEF TypeInv, Writer
    <3> QED
      BY <3>1, <3>2
  <2>4. all = out'[r] \o writer'[stream'[r]].buffer /\ writer'[stream'[r]].resp_body
    BY <1>2, <1>3, <1>11, <2>1
  <2> HIDE DEF all
  <2>5. Len(all) - 1 \in Nat /\ Begins(all, r)
    BY <1>7, <2>2 DEF Begins
  <2>6. Len(all) <= yielded'[r] + 1 /\ all = First(Due(r)', Len(all)) /\ Chunked(r, Len(all) - 1)'
    <3>1. \A k \in Nat : Chunked(r, k) => Chunked(r, k)'
      BY <1>9, <1>11, <2>1
    <3>2. out'[r] \o writer'[stream'[r]].buffer = all /\ all' = all
      BY <2>4 DEF all
    <3> QED
      BY <1>10, <2>2, <2>3, <2>5, <3>1, <3>2
  <2>7. Len(all) \in 1 .. yielded'[r] + 1
    BY <1>7, <1>8, <2>2, <2>6
  <2>8. Len(out'[r] \o writer'[stream'[r]].buffer) - 1 = Len(all) - 1
    BY <2>4
  <2> QED
    BY <2>4, <2>6, <2>7, <2>8 DEF Piped, all
<1>13. Len(out'[r]) <= yielded'[r] + 1 /\ out'[r] = First(Due(r)', Len(out'[r]))
  <2>1. out[r] \in Seq(OutCell) /\ Begins(out[r], r)
    BY <1>1 DEF TypeInv, ResponseInv, Begins
  <2> QED
    BY <1>2, <1>10, <2>1
<1>14. /\ r \in receiving' <=> Writing(r)' /\ writer'[stream'[r]].resp_body
       /\ r \notin receiving' => chan'[r] = << >>
  <2>1. r \notin receiving => chan'[r] = chan[r]
    BY <1>2 DEF SendChunk
  <2> QED
    BY <1>1, <1>2, <1>3, <2>1 DEF ResponseInv
<1>15. ~(~Writing(r)' /\ serving'[stream'[r]] = r /\ stream'[r] \notin given_up' /\ out'[r] # << >>)
  BY <1>1, <1>2, <1>3 DEF ResponseInv
<1> QED
  BY <1>4, <1>5, <1>12, <1>13, <1>14, <1>15 DEF ResponseInv

(* The answer to a request makes a writer of its stream, or is dropped.    *)
LEMMA ResponseAnswers ==
  ASSUME IInv, [Next]_vars, NEW r \in Request, Answers
  PROVE  ResponseInv(r)'
<1>1. TypeInv /\ ThreadInv /\ QueueInv /\ ResponseInv(r) /\ ResponseInv(cur)
  <2>1. cur \in Request
    BY AnswerIs DEF IInv
  <2> QED
    BY <2>1 DEF IInv
<1>2. /\ cur \in Request /\ cur # NONE /\ AllTaken(cur) /\ thr \in {"call", "first"} /\ sending = {cur}
      /\ UNCHANGED <<clientVars, taken, reader, serving, req_recv, cur, context, input, pos,
                     in_readlines, chan, sending, out>>
      /\ thr' \in {"stream", "memory"}
      /\ due' = [due EXCEPT ![cur] = due'[cur]] /\ due'[cur] \in Nat
      /\ Respond([req |-> cur, start |-> due'[cur]])
      /\ \/ next_val' = << >> /\ yielded' = yielded
         \/ \E n \in Nat : /\ next_val' = <<Chunk(n)>>
                           /\ yielded' = [yielded EXCEPT ![cur] = IF thr' = "memory" THEN n ELSE @ + n]
  BY <1>1, AnswerIs
<1>3. UNCHANGED <<stream, kind, given_up>> /\ stream[cur] \in Stream /\ stream[r] \in Stream
  BY <1>1, <1>2 DEF clientVars, TypeInv
<1>4. AllTaken(r) => AllTaken(r)'
  BY TakenStays
<1>5. \/ /\ stage[stream[cur]] = "waiting" /\ serving[stream[cur]] = cur
         /\ stage' = [stage EXCEPT ![stream[cur]] = "writing"]
         /\ writer' = [writer EXCEPT ![stream[cur]] =
                         [buffer |-> <<<<cur, "header", due'[cur]>>>>, resp_body |-> TRUE]]
         /\ receiving' = receiving \cup {cur}
      \/ UNCHANGED <<stage, writer, receiving>>
  BY <1>2 DEF Respond
<1>6. out[cur] = << >> /\ yielded[cur] = 0 /\ ~Writing(cur) /\ cur \notin receiving /\ chan[cur] = << >>
  BY <1>1, <1>2 DEF ResponseInv, Preparing
<1>7. CASE r # cur
  <2>1. yielded'[r] = yielded[r] /\ due'[r] = due[r] /\ chan'[r] = chan[r] /\ out'[r] = out[r]
    BY <1>1, <1>2, <1>7 DEF TypeInv
  <2>2. /\ r \in receiving' <=> r \in receiving
        /\ Writing(r)' <=> Writing(r)
        /\ Writing(r) => writer'[stream[r]] = writer[stream[r]]
    <3>1. CASE UNCHANGED <<stage, writer, receiving>>
      BY <1>2, <1>3, <3>1 DEF Writing
    <3>2. CASE stream[r] = stream[cur] /\ serving[stream[cur]] = cur /\ receiving' = receiving \cup {cur}
      BY <1>2, <1>3, <1>7, <3>2 DEF Writing
    <3>3. CASE /\ stream[r] # stream[cur] /\ receiving' = receiving \cup {cur}
               /\ stage' = [stage EXCEPT ![stream[cur]] = "writing"]
               /\ writer' = [writer EXCEPT ![stream[cur]] =
                         [buffer |-> <<<<cur, "header", due'[cur]>>>>, resp_body |-> TRUE]]
      <4>1. stage'[stream[r]] = stage[stream[r]] /\ writer'[stream[r]] = writer[stream[r]]
        BY <1>1, <1>3, <3>3 DEF TypeInv
      <4> QED
        BY <1>2, <1>3, <1>7, <3>3, <4>1 DEF Writing
    <3> QED
      BY <1>5, <3>1, <3>2, <3>3
  <2>3. (Preparing(r)' => Preparing(r)) /\ ~Pending(r) /\ ~Pending(r)'
    BY <1>2, <1>7 DEF Preparing, Queued, Pending
  <2> QED
    BY <1>1, <1>2, <1>3, <1>4, <1>7, <2>1, <2>2, <2>3, ResponseStays
<1>8. CASE r = cur
  <2>1. ~Preparing(r)' /\ AllTaken(r)'
    <3>1. ~Queued(r)
      BY <1>1, <1>8 DEF QueueInv, Queued
    <3> QED
      BY <1>2, <1>4, <1>8, <3>1 DEF Preparing, Queued
  <2>2. /\ yielded'[r] \in Nat /\ out'[r] = << >> /\ chan'[r] = << >>
        /\ IF Pending(r)' THEN next_val' = <<Part(r, 0, yielded'[r])>> ELSE yielded'[r] = 0
    <3>1. CASE next_val' = << >> /\ yielded' = yielded
      BY <1>2, <1>6, <1>8, <3>1 DEF Pending
    <3>2. ASSUME NEW n \in Nat, next_val' = <<Chunk(n)>>,
                 yielded' = [yielded EXCEPT ![cur] = IF thr' = "memory" THEN n ELSE @ + n]
          PROVE  next_val' = <<Part(r, 0, yielded'[r])>> /\ Pending(r)' /\ yielded'[r] \in Nat
      <4>1. yielded'[r] = n
        BY <1>1, <1>6, <1>8, <3>2 DEF TypeInv
      <4>2. Chunk(n) = Part(cur, 0, 0 + n) /\ 0 + n = n
        BY <1>1, <1>2, <1>6, ChunkIs
      <4> QED
        BY <1>2, <1>8, <3>2, <4>1, <4>2 DEF Pending
    <3> QED
      BY <1>2, <1>6, <1>8, <3>1, <3>2
  <2>3. CASE UNCHANGED <<stage, writer, receiving>>
    <3>1. ~Writing(r)' /\ r \notin receiving'
      BY <1>2, <1>3, <1>6, <1>8, <2>3 DEF Writing
    <3> QED
      BY <2>1, <2>2, <3>1, ResponseUnsent
  <2>4. CASE /\ serving[stream[r]] = r
             /\ stage' = [stage EXCEPT ![stream[r]] = "writing"]
             /\ writer' = [writer EXCEPT ![stream[r]] =
                             [buffer |-> <<<<r, "header", due'[r]>>>>, resp_body |-> TRUE]]
             /\ receiving' = receiving \cup {r}
    <3>1. /\ Writing(r)' /\ writer'[stream'[r]].resp_body /\ r \in receiving'
          /\ writer'[stream'[r]].buffer = <<<<r, "header", due'[r]>>>>
      BY <1>1, <1>2, <1>3, <2>4 DEF Writing, TypeInv
    <3> DEFINE h == <<<<r, "header", due'[r]>>>>
               d == Due(r)'
    <3>2. out'[r] \o writer'[stream'[r]].buffer = h /\ Len(h) = 1
      BY <2>2, <3>1
    <3>3. Len(d) = yielded'[r] + 1 /\ d \in Seq(OutCell) /\ d[1] = <<r, "header", due'[r]>>
      <4>1. due'[r] \in Nat /\ Due(r)' = Response(r, due'[r], yielded'[r])
        BY <1>2, <1>8 DEF Due, Response
      <4>2. IsResponse(Due(r)', r, due'[r], yielded'[r])
        BY <2>2, <4>1, ResponseIs
      <4> QED
        BY <4>2 DEF IsResponse
    <3>4. h = First(d, 1)
      <4>1. h \in Seq(OutCell) /\ Len(h) = 1 /\ h[1] = <<r, "header", due'[r]>>
        BY <1>2, <1>8 DEF OutCell
      <4> HIDE DEF d, h
      <4>2. 1 <= Len(d) /\ \A i \in 1 .. Len(h) : h[i] = d[i]
        <5>1. 1 <= Len(d)
          BY <2>2, <3>3
        <5>2. \A i \in 1 .. Len(h) : i = 1
          BY <4>1
        <5> QED
          BY <3>3, <4>1, <5>1, <5>2
      <4> QED
        BY <3>3, <4>1, <4>2, FirstIs
    <3>5. Chunked(r, 0)'
      <4>1. InChunks(<< >>, r, 0, 0)
        BY InChunksEmpty
      <4>2. 0 \in 0 .. yielded'[r]
        BY <2>2
      <4> QED
        BY <2>2, <4>1, <4>2 DEF Chunked
    <3>6. Piped(r)'
      <4>1. Len(h) \in 1 .. yielded'[r] + 1 /\ Len(h) - 1 = 0
        BY <2>2, <3>2
      <4>2. h = First(Due(r)', Len(h))
        BY <3>2, <3>4
      <4> HIDE DEF h
      <4> QED
        BY <3>1, <3>2, <3>5, <4>1, <4>2 DEF Piped
    <3>7. Len(out'[r]) <= yielded'[r] + 1 /\ out'[r] = First(Due(r)', Len(out'[r]))
      BY <2>2 DEF First
    <3> QED
      BY <2>1, <2>2, <3>1, <3>6, <3>7 DEF ResponseInv
  <2> QED
    BY <1>5, <1>8, <2>3, <2>4
<1> QED
  BY <1>7, <1>8

(* A step of a stream that leaves a response as it is.                     *)
LEMMA ResponseElsewhere ==
  ASSUME IInv, [Next]_vars, NEW r \in Request, Elsewhere,
         out'[r] = out[r], chan'[r] = chan[r], r \in receiving' <=> r \in receiving,
         Writing(r)' <=> Writing(r), Writing(r) => writer'[stream[r]] = writer[stream[r]],
         serving'[stream[r]] = r /\ out[r] # << >> => serving[stream[r]] = r
  PROVE  ResponseInv(r)'
<1>1. ResponseInv(r)
  BY DEF IInv
<1>2. UNCHANGED <<stream, kind>> /\ given_up \subseteq given_up' /\ (AllTaken(r) => AllTaken(r)')
  BY Kept, TakenStays
<1>3. UNCHANGED <<thr, cur, next_val, sending, due, yielded, req_recv>>
  BY ElsewhereIs DEF threadVars, appVars, inputVars
<1>4. (Preparing(r)' <=> Preparing(r)) /\ (Pending(r)' <=> Pending(r))
  BY <1>3 DEF Preparing, Queued, Pending
<1> QED
  BY <1>1, <1>2, <1>3, <1>4, ResponseStays

(* The clients send, or close, and the worker takes a stream on.           *)
LEMMA ResponseClients ==
  ASSUME IInv, [Next]_vars, NEW r \in Request, NEW s \in Stream, Send(s) \/ CloseWrite(s) \/ TakeOn(s)
  PROVE  ResponseInv(r)'
<1>1. TypeInv /\ r # NONE /\ stream[r] \in Stream
  BY Constants DEF IInv, TypeInv
<1>2. Elsewhere /\ UNCHANGED <<stream, kind>>
  BY Kept DEF Elsewhere
<1>3. UNCHANGED <<out, chan, receiving, writer>>
  BY DEF Send, CloseWrite, TakeOn, streamVars, chanVars, doneVars
<1>4. (Writing(r)' <=> Writing(r)) /\ (serving'[stream[r]] = r => serving[stream[r]] = r)
  <2>1. CASE Send(s) \/ CloseWrite(s)
    BY <1>2, <2>1 DEF Send, CloseWrite, streamVars, Writing
  <2>2. CASE TakeOn(s) /\ stream[r] = s
    BY <1>1, <1>2, <2>2 DEF TakeOn, TypeInv, Writing
  <2>3. CASE TakeOn(s) /\ stream[r] # s
    BY <1>1, <1>2, <2>3 DEF TakeOn, TypeInv, Writing
  <2> QED
    BY <2>1, <2>2, <2>3
<1> QED
  BY <1>2, <1>3, <1>4, ResponseElsewhere

(* Reads of a stream: no response of the request they are about is under   *)
(* way.                                                                    *)
LEMMA ResponseReads ==
  ASSUME IInv, [Next]_vars, NEW r \in Request, NEW s \in Stream, ReadHeader(s) \/ ReadBody(s)
  PROVE  ResponseInv(r)'
<1>1. TypeInv /\ r # NONE /\ stream[r] \in Stream /\ ResponseInv(r) /\ StreamInv(s)
  BY Constants DEF IInv, TypeInv
<1>2. UNCHANGED <<stream, kind>> /\ given_up \subseteq given_up' /\ (AllTaken(r) => AllTaken(r)')
  BY Kept, TakenStays
<1>3. stage[s] = "reading" /\ UNCHANGED <<clientVars, writer, threadVars, chanVars, doneVars>>
  BY <1>1, ReadStep
<1>4. PICK n \in Nat, v \in Request \cup {NONE} : Outcome(s, n, v)
  BY <1>1, ReadStep
<1>5. UNCHANGED <<thr, cur, next_val, chan, sending, receiving, due, yielded, out>>
  BY <1>3 DEF threadVars, appVars, inputVars, chanVars, doneVars
<1>6. ~Writing(r)' <=> ~Writing(r)
  <2>1. CASE stream[r] # s
    <3>1. stage'[stream[r]] = stage[stream[r]] /\ serving'[stream[r]] = serving[stream[r]]
      BY <1>1, <1>4, <2>1 DEF Outcome, Closes, Complete, TypeInv
    <3> QED
      BY <1>2, <3>1 DEF Writing
  <2>2. CASE stream[r] = s
    <3>1. stage'[s] \in {"closed", "waiting", "reading"}
      BY <1>1, <1>3, <1>4 DEF Outcome, Closes, Complete, TypeInv
    <3> QED
      BY <1>2, <1>3, <2>2, <3>1 DEF Writing
  <2> QED
    BY <2>1, <2>2
<1>7. v = r => stream[r] = s /\ ~AllTaken(r)
  <2>1. SUFFICES ASSUME v = r PROVE stream[r] = s /\ ~AllTaken(r)
    OBVIOUS
  <2>2. stream[r] = s /\ taken[s] < End(r) /\ taken[s] \in Nat /\ End(r) \in Nat
    BY <1>1, <1>4, <2>1, EndIs DEF Outcome, TypeInv
  <2> QED
    BY <2>2 DEF AllTaken
<1>8. Preparing(r)' => Preparing(r) \/ ~AllTaken(r)
  <2>1. CASE req_recv' = req_recv
    BY <1>5, <2>1 DEF Preparing, Queued
  <2>2. CASE req_recv' = Append(req_recv, [req |-> v, body |-> Body(v)])
    <3> DEFINE E == [req : Request, body : Seq(Cell)]
               e == [req |-> v, body |-> Body(v)]
    <3>1. req_recv \in Seq(E)
      BY <1>1 DEF TypeInv
    <3>2. req_recv' = Append(req_recv, e) /\ e.req = v
      BY <2>2
    <3> HIDE DEF E, e
    <3>3. \A i \in DOMAIN req_recv' :
            (i \in DOMAIN req_recv /\ req_recv'[i] = req_recv[i]) \/ req_recv'[i] = e
      BY <3>1, <3>2
    <3> QED
      BY <1>5, <1>7, <3>2, <3>3 DEF Preparing, Queued
  <2> QED
    BY <1>4, <2>1, <2>2 DEF Outcome, Closes, Complete
<1>9. serving'[stream[r]] = r /\ out[r] # << >> => serving[stream[r]] = r
  <2>1. CASE stream[r] # s
    BY <1>1, <1>4, <2>1 DEF Outcome, TypeInv
  <2>2. CASE stream[r] = s
    <3>1. serving'[s] = v
      BY <1>1, <1>4 DEF Outcome, TypeInv
    <3> QED
      BY <1>1, <1>7, <2>2, <3>1 DEF ResponseInv
  <2> QED
    BY <2>1, <2>2
<1>10. Pending(r)' <=> Pending(r)
  BY <1>5 DEF Pending
<1> QED
  BY <1>1, <1>2, <1>3, <1>5, <1>6, <1>8, <1>9, <1>10, ResponseStays

(* The worker gives a stream up, and drops what it has of its response.    *)
LEMMA ResponseGivenUp ==
  ASSUME IInv, [Next]_vars, NEW r \in Request, NEW s \in Stream, GiveUp(s)
  PROVE  ResponseInv(r)'
<1>1. TypeInv /\ r # NONE /\ stream[r] \in Stream /\ ResponseInv(r) /\ StreamInv(s)
  BY Constants DEF IInv, TypeInv
<1>2. Elsewhere /\ UNCHANGED <<stream, kind>> /\ (AllTaken(r) => AllTaken(r)')
  BY Kept, TakenStays DEF Elsewhere
<1>3. /\ stage' = [stage EXCEPT ![s] = "closed"] /\ given_up' = given_up \cup {s}
      /\ writer' = [writer EXCEPT ![s] = NewWriter] /\ receiving' = receiving \ {serving[s]}
      /\ chan' = [q \in Request |-> IF q = serving[s] THEN << >> ELSE chan[q]]
      /\ UNCHANGED <<serving, out, due, yielded>>
  BY DEF GiveUp, doneVars
<1>4. CASE r # serving[s]
  <2>1. (Writing(r)' <=> Writing(r)) /\ (Writing(r) => writer'[stream[r]] = writer[stream[r]])
    <3>1. CASE stream[r] = s
      BY <1>2, <1>3, <1>4, <3>1 DEF Writing
    <3>2. CASE stream[r] # s
      BY <1>1, <1>2, <1>3, <3>2 DEF Writing, TypeInv
    <3> QED
      BY <3>1, <3>2
  <2> QED
    BY <1>2, <1>3, <1>4, <2>1, ResponseElsewhere
<1>5. CASE r = serving[s]
  <2>1. stream[r] = s
    BY <1>1, <1>5 DEF StreamInv
  <2>2. ~Writing(r)' /\ stream'[r] \in given_up' /\ r \notin receiving' /\ chan'[r] = << >>
    BY <1>1, <1>2, <1>3, <1>5, <2>1 DEF Writing, TypeInv
  <2>3. Preparing(r)' => Preparing(r)
    <3>1. UNCHANGED <<thr, cur, req_recv>>
      BY <1>2, ElsewhereIs DEF threadVars
    <3> QED
      BY <3>1 DEF Preparing, Queued
  <2>4. Due(r)' = Due(r)
    BY <1>3 DEF Due
  <2> QED
    BY <1>1, <1>2, <1>3, <2>2, <2>3, <2>4 DEF ResponseInv
<1> QED
  BY <1>4, <1>5

(* A write of a response.                                                  *)
LEMMA ResponseWritten ==
  ASSUME IInv, [Next]_vars, NEW r \in Request, NEW s \in Stream, WriteStream(s)
  PROVE  ResponseInv(r)'
<1>1. /\ TypeInv /\ ThreadInv /\ r # NONE /\ stream[r] \in Stream /\ ResponseInv(r) /\ StreamInv(s)
      /\ \A q \in Request : ResponseInv(q)
  BY Constants DEF IInv, TypeInv
<1>2. Elsewhere /\ UNCHANGED <<stream, kind>> /\ (AllTaken(r) => AllTaken(r)')
  BY Kept, TakenStays DEF Elsewhere
<1>3. /\ serving[s] \in Request /\ stream[serving[s]] = s /\ Writing(serving[s])
      /\ Written(s, serving[s]) /\ UNCHANGED <<serving, due, yielded, given_up>>
  BY <1>1, WriteIs DEF WriteStream, clientVars
<1>4. CASE r # serving[s]
  <2>1. out'[r] = out[r] /\ chan'[r] = chan[r] /\ (r \in receiving' <=> r \in receiving)
    BY <1>1, <1>3, <1>4 DEF Written, TypeInv
  <2>2. (Writing(r)' <=> Writing(r)) /\ (Writing(r) => writer'[stream[r]] = writer[stream[r]])
    <3>1. CASE stream[r] = s
      BY <1>2, <1>3, <1>4, <3>1 DEF Writing
    <3>2. CASE stream[r] # s
      <4>1. stage'[stream[r]] = stage[stream[r]] /\ writer'[stream[r]] = writer[stream[r]]
        BY <1>1, <1>3, <3>2 DEF Written, TypeInv
      <4> QED
        BY <1>2, <1>3, <4>1 DEF Writing
    <3> QED
      BY <3>1, <3>2
  <2> QED
    BY <1>2, <1>3, <2>1, <2>2, ResponseElsewhere
<1>5. CASE r = serving[s]
  <2>1. stream[r] = s /\ Writing(r) /\ Written(s, r) /\ AllTaken(r)' /\ ~Preparing(r)
    BY <1>1, <1>2, <1>3, <1>5 DEF ResponseInv
  <2>2. UNCHANGED <<thr, cur, next_val, sending, req_recv>>
    BY <1>2, ElsewhereIs DEF threadVars, appVars, inputVars
  <2>3. ~Preparing(r)' /\ (Pending(r)' <=> Pending(r)) /\ Due(r)' = Due(r)
    BY <1>3, <2>1, <2>2 DEF Preparing, Queued, Pending, Due
  <2>4. Len(out'[r]) <= yielded'[r] + 1 /\ out'[r] = First(Due(r)', Len(out'[r]))
    BY <1>3, <2>1, <2>3 DEF Written, Begins
  <2>5. /\ receiving' = (IF writer'[s].resp_body THEN receiving ELSE receiving \ {r})
        /\ writer'[s].resp_body => r \in receiving
        /\ ~writer'[s].resp_body => chan'[r] = << >> /\ r \notin sending
    BY <2>1 DEF Written
  <2> DEFINE all == out'[r] \o writer'[s].buffer
  <2>6. CASE /\ stage' = stage /\ Len(all) >= 1 /\ Begins(all, r)
             /\ IF writer'[s].resp_body
                THEN \E m \in 0 .. yielded[r] :
                       /\ InChunks(chan'[r], r, Len(all) - 1, m)
                       /\ IF Pending(r) THEN next_val = <<Part(r, m, yielded[r])>> ELSE m = yielded[r]
                ELSE Len(all) = yielded[r] + 1
    <3>1. Writing(r)'
      BY <1>2, <1>3, <2>1, <2>6 DEF Writing
    <3>2. out'[r] \o writer'[stream'[r]].buffer = all
      BY <1>2, <2>1
    <3>3. Len(all) \in 1 .. yielded'[r] + 1 /\ all = First(Due(r)', Len(all))
      <4>1. Len(all) \in Nat
        <5>1. out'[r] \in Seq(OutCell) /\ writer'[s].buffer \in Seq(OutCell)
          BY <2>1 DEF Written, Writer
        <5>2. all \in Seq(OutCell)
          BY <5>1
        <5> HIDE DEF all
        <5> QED
          BY <5>2
      <4>2. Len(all) <= yielded[r] + 1 /\ all = First(Due(r), Len(all)) /\ yielded[r] \in Nat
        BY <1>1, <2>6 DEF Begins, TypeInv
      <4> HIDE DEF all
      <4> QED
        BY <1>3, <2>3, <2>6, <4>1, <4>2
    <3>4. PICK k \in Nat : k = Len(all) - 1
      <4>1. Len(all) - 1 \in Nat
        <5>1. yielded'[r] \in Nat
          BY <1>1, <1>3 DEF TypeInv
        <5> HIDE DEF all
        <5> QED
          BY <3>3, <5>1
      <4> QED
        BY <4>1
    <3>5. writer'[s].resp_body => Chunked(r, k)'
      <4>1. SUFFICES ASSUME writer'[s].resp_body PROVE Chunked(r, k)'
        OBVIOUS
      <4>2. PICK m \in 0 .. yielded[r] :
              /\ InChunks(chan'[r], r, k, m)
              /\ IF Pending(r) THEN next_val = <<Part(r, m, yielded[r])>> ELSE m = yielded[r]
        BY <2>6, <3>4, <4>1
      <4> QED
        BY <1>3, <2>2, <2>3, <4>2 DEF Chunked
    <3>6. Piped(r)'
      <4>1. ~writer'[s].resp_body => Len(all) = yielded'[r] + 1 /\ r \notin sending'
        BY <1>3, <2>2, <2>5, <2>6
      <4>2. stream'[r] = s /\ out'[r] \o writer'[stream'[r]].buffer = all
        BY <1>2, <2>1
      <4> HIDE DEF all
      <4> QED
        BY <3>3, <3>4, <3>5, <4>1, <4>2 DEF Piped
    <3> QED
      BY <1>2, <2>1, <2>3, <2>4, <2>5, <3>1, <3>6 DEF ResponseInv
  <2>7. CASE /\ stage' = [stage EXCEPT ![s] = IF kind[r].keep_alive THEN "idle" ELSE "closed"]
             /\ writer'[s] = NewWriter /\ Len(out'[r]) = yielded[r] + 1
    <3>1. ~Writing(r)' /\ ~writer'[s].resp_body
      BY <1>1, <1>2, <2>1, <2>7 DEF Writing, TypeInv, NewWriter
    <3>2. r # cur
      BY <1>1, <2>5, <3>1 DEF ThreadInv
    <3> QED
      BY <1>2, <1>3, <2>1, <2>2, <2>3, <2>4, <2>5, <2>7, <3>1, <3>2 DEF ResponseInv
  <2> QED
    BY <2>1, <2>6, <2>7 DEF Written
<1> QED
  BY <1>4, <1>5

(* Every response goes on as it should.                                    *)
LEMMA ResponseStep ==
  ASSUME IInv, [Next]_vars, NEW r \in Request
  PROVE  ResponseInv(r)'
<1>1. CASE Silent
  BY <1>1, ResponseSilent, ResponseReturns, ResponseChunks
<1> QED
  BY <1>1, ByAction, ResponseAnswers, ResponseClients, ResponseReads, ResponseGivenUp, ResponseWritten

-----------------------------------------------------------------------------
(* The theorems.                                                           *)

(* IInv is inductive.                                                      *)
THEOREM ExchangeInvariant == Spec => []IInv
<1>1. IInv /\ [Next]_vars => IInv'
  BY TypeStep, QueueStep, ThreadStep, StreamStep, ResponseStep DEF IInv
<1> QED
  BY <1>1, ExchangeInit, PTL DEF Spec

(* What the client of a stream has when its response has ended is all of   *)
(* that response.                                                          *)
LEMMA EndedIsWhole ==
  ASSUME IInv, NEW s \in Stream, NEW r \in Request, stage[s] # "writing", serving[s] = r,
         out[r] # << >>, s \notin given_up
  PROVE  out[r] = Due(r)
<1>1. TypeInv /\ StreamInv(s) /\ ResponseInv(r) /\ r # NONE
  BY Constants DEF IInv
<1>2. stream[r] = s
  BY <1>1 DEF StreamInv
<1>3. Len(out[r]) = yielded[r] + 1 /\ out[r] = First(Due(r), Len(out[r]))
  BY <1>1, <1>2 DEF ResponseInv, Writing
<1>4. Due(r) \in Seq(OutCell) /\ Len(Due(r)) = yielded[r] + 1
  BY <1>1, DueIs
<1> DEFINE d == Due(r)
<1>5. d = First(d, Len(d))
  <2>1. d \in Seq(OutCell)
    BY <1>4
  <2> HIDE DEF d
  <2>2. Len(d) <= Len(d) /\ \A i \in 1 .. Len(d) : d[i] = d[i]
    BY <2>1
  <2> QED
    BY <2>1, <2>2, FirstIs
<1> QED
  BY <1>3, <1>4, <1>5

(* A client gets the response of its own request, from the beginning, with *)
(* nothing left out and nothing twice, and all of it when its stream is    *)
(* handed back or closed: execute and BytesIter of wsgi.rs, the body       *)
(* channel and ServerWriter.                                               *)
THEOREM ExchangeWholeResponses == Spec => []WholeResponses
<1>1. IInv => WholeResponses
  <2>1. SUFFICES ASSUME IInv PROVE WholeResponses
    OBVIOUS
  <2>2. \A r \in Request : ResponseInv(r)
    BY <2>1 DEF IInv
  <2> QED
    BY <2>1, <2>2, EndedIsWhole DEF WholeResponses, ResponseInv
<1> QED
  BY <1>1, ExchangeInvariant, PTL

(* A request is executed with its own body, whole, and nothing of the next *)
(* request has been taken when a stream waits for it: ServerReader,        *)
(* read_header and take_body.                                              *)
THEOREM ExchangeRequestsFramed == Spec => []RequestsFramed
<1>1. IInv => RequestsFramed
  <2>1. SUFFICES ASSUME IInv PROVE RequestsFramed
    OBVIOUS
  <2>2. TypeInv /\ QueueInv /\ ThreadInv /\ \A s \in Stream : StreamInv(s)
    BY <2>1 DEF IInv
  <2>3. ASSUME NEW s \in Stream, stage[s] \in {"idle", "waiting", "writing"}
        PROVE  taken[s] = IF serving[s] = NONE THEN 0 ELSE Len(Through(s, serving[s]))
    BY <2>2, <2>3 DEF StreamInv, End
  <2> QED
    BY <2>2, <2>3 DEF RequestsFramed, QueueInv, ThreadInv
<1> QED
  BY <1>1, ExchangeInvariant, PTL

(* While an application runs, the slots of its thread are those of its     *)
(* request: init_req_thread, set_context and take_response_header.         *)
THEOREM ExchangeSlotsOwn == Spec => []SlotsOwn
<1>1. IInv => SlotsOwn
  BY DEF IInv, ThreadInv
<1> QED
  BY <1>1, ExchangeInvariant, PTL

(* A client that has neither closed nor failed loses its stream only for a *)
(* reason: it asked for that, its request was not valid, or it sent bytes  *)
(* before the response: the closes of ServerReader and ServerWriter.       *)
THEOREM ExchangeNotCutOff == Spec => []NotCutOff
<1>1. IInv => NotCutOff
  <2>1. SUFFICES ASSUME IInv, NEW s \in Stream, stage[s] = "closed", s \notin eof \cup given_up
                 PROVE  /\ serving[s] # NONE
                        /\ \/ ~kind[serving[s]].valid
                           \/ ~kind[serving[s]].keep_alive /\ out[serving[s]] = Due(serving[s])
                           \/ taken[s] > Len(Through(s, serving[s]))
    BY DEF NotCutOff
  <2>2. TypeInv /\ StreamInv(s)
    BY <2>1 DEF IInv
  <2>3. serving[s] # NONE /\ serving[s] \in Request /\ stream[serving[s]] = s
    BY <2>1, <2>2 DEF StreamInv, TypeInv
  <2>4. \/ ~kind[serving[s]].valid
        \/ ~kind[serving[s]].keep_alive /\ out[serving[s]] # << >>
        \/ taken[s] > Len(Through(s, serving[s]))
    BY <2>1, <2>2, <2>3 DEF StreamInv, End
  <2>5. out[serving[s]] # << >> => out[serving[s]] = Due(serving[s])
    BY <2>1, <2>3, EndedIsWhole
  <2> QED
    BY <2>3, <2>4, <2>5
<1> QED
  BY <1>1, ExchangeInvariant, PTL

(* A reader always has room for a byte: what HeaderReader and BodyReader   *)
(* pass to read is never an empty slice, which would end the stream.       *)
LEMMA RoomToRead ==
  ASSUME TypeInv, NEW s \in Stream, StreamInv(s)
  PROVE  IF reader[s].have = NONE
         THEN Len(reader[s].bytes) < Grown(reader[s].size, Len(reader[s].bytes))
         ELSE Len(reader[s].bytes) < kind[reader[s].have].length
<1>1. ASSUME NEW size \in Nat \ {0}, NEW used \in Nat, used <= size
      PROVE  used < Grown(size, used)
  BY <1>1, Constants DEF Grown
<1>2. reader[s].bytes \in Seq(Cell) /\ Len(reader[s].bytes) \in Nat
  BY DEF TypeInv, Reader
<1>3. CASE stage[s] # "reading"
  <2>1. reader[s] = NewReader
    BY <1>3 DEF StreamInv
  <2>2. Len(<< >>) = 0 /\ 0 < Grown(BufferSize, 0)
    BY <1>1, Constants
  <2> QED
    BY <2>1, <2>2 DEF NewReader
<1>4. CASE stage[s] = "reading" /\ reader[s].have = NONE
  <2>1. ReadsHeader(s)
    BY <1>4 DEF StreamInv
  <2> QED
    BY <1>1, <1>2, <1>4, <2>1 DEF ReadsHeader
<1>5. CASE stage[s] = "reading" /\ reader[s].have # NONE
  <2>1. ReadsBody(s)
    BY <1>5 DEF StreamInv
  <2> QED
    BY <1>5, <2>1 DEF ReadsBody
<1> QED
  BY <1>3, <1>4, <1>5

(* Every variable keeps its type, and no read is made with an empty slice  *)
(* (HeaderReader and BodyReader).                                          *)
THEOREM ExchangeTypes == Spec => []TypeOK
<1>1. IInv => TypeOK
  <2>1. SUFFICES ASSUME IInv PROVE TypeOK
    OBVIOUS
  <2>2. TypeInv /\ ThreadInv /\ \A s \in Stream : StreamInv(s)
    BY <2>1 DEF IInv
  <2>3. \A s \in Stream : sent[s] \in Nat /\ taken[s] \in 0 .. sent[s]
    BY <2>2 DEF TypeInv, StreamInv
  <2>4. cur \in Request \cup {NONE} /\ (cur = NONE <=> thr = "recv")
    BY <2>2, Constants DEF ThreadInv, AllTaken
  <2>5. ASSUME NEW p PROVE Len(<<p>>) <= 1 /\ Len(<< >>) <= 1
    OBVIOUS
  <2>6. Len(response_header) <= 1 /\ Len(next_val) <= 1
    <3>1. Slot(response_header) /\ (next_val = << >> \/ \E x : next_val = <<x>>)
      BY <2>2 DEF ThreadInv
    <3>2. response_header = << >> \/ \E x : response_header = <<x>>
      BY <3>1 DEF Slot
    <3> QED
      BY ONLY <2>5, <3>1, <3>2
  <2>7. Len(header) = (IF thr = "first" THEN 1 ELSE 0)
    BY <2>2 DEF ThreadInv
  <2>8. sending \subseteq Request
    BY <2>2, <2>4 DEF ThreadInv
  <2>9. in_readlines \in BOOLEAN
    BY <2>2 DEF ThreadInv, ReadLinesInv
  <2> QED
    BY <2>2, <2>3, <2>4, <2>5, <2>6, <2>7, <2>8, <2>9, RoomToRead DEF TypeOK, TypeInv, ThreadInv
<1> QED
  BY <1>1, ExchangeInvariant, PTL
=============================================================================
