---------------------------- MODULE ChannelFrames ---------------------------
(***************************************************************************)
(* Frames of the channel, whatever the state: sequences in parts, messages *)
(* in frames, and what a read makes of frames.  Induction is by least      *)
(* counterexample: a set of numbers that is not empty has a least one.     *)
(***************************************************************************)
EXTENDS ChannelInv, FiniteSetTheorems, SequenceTheorems, WellFoundedInduction, TLAPS

-----------------------------------------------------------------------------
(* Induction: what fails for a number fails for a least one.               *)
LEMMA NatLeast ==
  ASSUME NEW T \in SUBSET Nat, T # {}
  PROVE  \E m \in T : \A n \in T : m <= n
<1>1. PICK m \in T : \A n \in T : <<n, m>> \notin OpToRel(<, Nat)
  BY NatLessThanWellFounded, WFMin
<1>2. ASSUME NEW n \in T PROVE m <= n
  <2>1. ~(n < m)
    BY <1>1 DEF OpToRel
  <2> QED
    BY <2>1
<1> QED
  BY <1>2

(* A set that has 0 and, with every number below k, the next one, has all  *)
(* up to k.                                                                *)
LEMMA UpTo ==
  ASSUME NEW k \in Nat, NEW T, 0 \in T, \A n \in Nat : n < k /\ n \in T => n + 1 \in T
  PROVE  0 .. k \subseteq T
<1> DEFINE F == {n \in 0 .. k : n \notin T}
<1>1. SUFFICES ASSUME F # {} PROVE FALSE
  OBVIOUS
<1>2. F \in SUBSET Nat
  OBVIOUS
<1>3. PICK m \in F : \A n \in F : m <= n
  <2> HIDE DEF F
  <2> QED
    BY <1>1, <1>2, NatLeast
<1>4. m # 0 /\ m - 1 \in Nat /\ m - 1 < k
  BY <1>3
<1>5. m - 1 \notin F
  BY <1>2, <1>3, <1>4
<1> QED
  BY <1>3, <1>4, <1>5

-----------------------------------------------------------------------------
(* Sequences one after the other.                                          *)

Turn(ss, f, i) == IF i = 1 THEN ss[i] ELSE f[i - 1] \o ss[i]

(* The recursive function by which FlattenSeq is defined exists.           *)
LEMMA FlatExists ==
  ASSUME NEW ss, NEW r \in Nat
  PROVE  \E f : f = [i \in 1 .. r |-> Turn(ss, f, i)]
<1> DEFINE T == {m \in Nat : \E f : f = [i \in 1 .. m |-> Turn(ss, f, i)]}
<1>1. 0 \in T
  <2> DEFINE f == << >>
  <2>1. f = [i \in 1 .. 0 |-> Turn(ss, f, i)]
    OBVIOUS
  <2> QED
    BY <2>1
<1>2. ASSUME NEW m \in Nat, m \in T PROVE m + 1 \in T
  <2>1. PICK f : f = [i \in 1 .. m |-> Turn(ss, f, i)]
    BY <1>2
  <2> DEFINE g == [i \in 1 .. m + 1 |-> IF i = m + 1 THEN Turn(ss, f, m + 1) ELSE f[i]]
  <2>2. ASSUME NEW i \in 1 .. m + 1 PROVE g[i] = Turn(ss, g, i)
    <3>1. i = 1 \/ i - 1 \in 1 .. m
      OBVIOUS
    <3>2. i # 1 => g[i - 1] = f[i - 1]
      BY <3>1
    <3>3. Turn(ss, g, i) = Turn(ss, f, i)
      BY <3>2 DEF Turn
    <3>4. i # m + 1 => f[i] = Turn(ss, f, i)
      BY <2>1
    <3> QED
      BY <3>3, <3>4
  <2>3. g = [i \in 1 .. m + 1 |-> Turn(ss, g, i)]
    BY <2>2
  <2> HIDE DEF g
  <2> QED
    BY <2>3
<1> HIDE DEF T
<1>3. 0 .. r \subseteq T
  BY <1>1, <1>2, UpTo
<1>4. r \in T
  BY <1>3
<1> QED
  BY <1>4 DEF T

(* FlattenSeq is the last value of that function.                          *)
LEMMA FlatIs ==
  ASSUME NEW S, NEW ss \in Seq(Seq(S)), ss # << >>
  PROVE  \E f : f = [i \in 1 .. Len(ss) |-> Turn(ss, f, i)] /\ FlattenSeq(ss) = f[Len(ss)]
<1> DEFINE f == CHOOSE g : g = [i \in 1 .. Len(ss) |-> Turn(ss, g, i)]
<1>1. f = [i \in 1 .. Len(ss) |-> Turn(ss, f, i)]
  <2>1. Len(ss) \in Nat
    OBVIOUS
  <2> QED
    BY <2>1, FlatExists
<1>2. FlattenSeq(ss) = f[Len(ss)]
  <2>1. Len(ss) # 0
    OBVIOUS
  <2> QED
    BY <2>1 DEF FlattenSeq, Turn
<1> QED
  BY <1>1, <1>2

(* The values of that function are sequences.                              *)
LEMMA FlatType ==
  ASSUME NEW S, NEW ss \in Seq(Seq(S))
  PROVE  FlattenSeq(ss) \in Seq(S)
<1>1. CASE ss = << >>
  BY <1>1 DEF FlattenSeq
<1>2. CASE ss # << >>
  <2>1. PICK f : f = [i \in 1 .. Len(ss) |-> Turn(ss, f, i)] /\ FlattenSeq(ss) = f[Len(ss)]
    BY <1>2, FlatIs
  <2> DEFINE T == {n \in Nat : n = 0 \/ n > Len(ss) \/ f[n] \in Seq(S)}
  <2>2. 0 \in T
    OBVIOUS
  <2>3. ASSUME NEW n \in Nat, n < Len(ss), n \in T PROVE n + 1 \in T
    <3>1. Len(ss) \in Nat /\ n + 1 \in 1 .. Len(ss)
      BY <2>3
    <3>2. f[n + 1] = Turn(ss, f, n + 1)
      BY <2>1, <3>1
    <3>3. ss[n + 1] \in Seq(S)
      BY <3>1, ElementOfSeq
    <3>4. n # 0 => f[n] \in Seq(S)
      BY <2>3, <3>1
    <3>5. n + 1 = 1 <=> n = 0
      OBVIOUS
    <3>6. Turn(ss, f, n + 1) = IF n = 0 THEN ss[n + 1] ELSE f[n] \o ss[n + 1]
      BY <3>5 DEF Turn
    <3>7. n # 0 => f[n] \o ss[n + 1] \in Seq(S)
      BY <3>3, <3>4
    <3>8. f[n + 1] \in Seq(S)
      BY <3>2, <3>3, <3>6, <3>7
    <3> QED
      BY <3>8
  <2>4. Len(ss) \in Nat /\ Len(ss) # 0
    BY <1>2
  <2> HIDE DEF T
  <2>5. 0 .. Len(ss) \subseteq T
    BY <2>2, <2>3, <2>4, UpTo
  <2>6. Len(ss) \in T
    BY <2>4, <2>5
  <2> QED
    BY <2>1, <2>4, <2>6 DEF T
<1> QED
  BY <1>1, <1>2

(* One sequence more.                                                      *)
LEMMA FlatAppend ==
  ASSUME NEW S, NEW ss \in Seq(Seq(S)), NEW x \in Seq(S)
  PROVE  FlattenSeq(Append(ss, x)) = FlattenSeq(ss) \o x
<1> DEFINE tt == Append(ss, x)
           r  == Len(ss)
<1>1. /\ tt \in Seq(Seq(S)) /\ tt # << >> /\ Len(tt) = r + 1 /\ r \in Nat
      /\ tt[r + 1] = x /\ \A i \in 1 .. r : tt[i] = ss[i]
  <2> DEFINE U == Seq(S)
  <2>1. ss \in Seq(U) /\ x \in U
    OBVIOUS
  <2> HIDE DEF U
  <2>2. /\ tt \in Seq(U) /\ tt # << >> /\ Len(tt) = r + 1 /\ r \in Nat
        /\ tt[r + 1] = x /\ \A i \in 1 .. r : tt[i] = ss[i]
    BY <2>1
  <2> QED
    BY <2>2 DEF U
<1> HIDE DEF tt, r
<1>2. PICK g : g = [i \in 1 .. r + 1 |-> Turn(tt, g, i)] /\ FlattenSeq(tt) = g[r + 1]
  <2>1. \E g : g = [i \in 1 .. Len(tt) |-> Turn(tt, g, i)] /\ FlattenSeq(tt) = g[Len(tt)]
    BY ONLY <1>1, FlatIs
  <2> QED
    BY <1>1, <2>1
<1>3. g[r + 1] = Turn(tt, g, r + 1)
  <2>1. r + 1 \in 1 .. r + 1
    BY <1>1
  <2> QED
    BY <1>2, <2>1
<1>4. CASE ss = << >>
  <2>1. r = 0 /\ FlattenSeq(ss) = << >>
    BY <1>4 DEF r, FlattenSeq
  <2>2. FlattenSeq(tt) = x
    BY <1>1, <1>2, <1>3, <2>1 DEF Turn
  <2> QED
    BY <2>1, <2>2 DEF tt
<1>5. CASE ss # << >>
  <2>1. PICK f : f = [i \in 1 .. r |-> Turn(ss, f, i)] /\ FlattenSeq(ss) = f[r]
    BY <1>5, FlatIs DEF r
  <2>2. r # 0
    BY <1>5 DEF r
  <2> DEFINE T == {n \in Nat : n = 0 \/ n > r \/ f[n] = g[n]}
  <2>3. 0 \in T
    OBVIOUS
  <2>4. ASSUME NEW n \in Nat, n < r, n \in T PROVE n + 1 \in T
    <3>1. n + 1 \in 1 .. r /\ n + 1 \in 1 .. r + 1
      BY <1>1, <2>4
    <3>2. f[n + 1] = Turn(ss, f, n + 1) /\ g[n + 1] = Turn(tt, g, n + 1) /\ tt[n + 1] = ss[n + 1]
      BY <1>1, <1>2, <2>1, <3>1
    <3>3. n # 0 => f[n] = g[n]
      BY <1>1, <2>4
    <3>4. (n + 1) - 1 = n /\ (n + 1 = 1 <=> n = 0)
      OBVIOUS
    <3>5. f[n + 1] = g[n + 1]
      BY <3>2, <3>3, <3>4 DEF Turn
    <3> QED
      BY <3>5
  <2> HIDE DEF T
  <2>5. 0 .. r \subseteq T
    BY <1>1, <2>3, <2>4, UpTo
  <2>6. r \in T
    BY <1>1, <2>5
  <2>7. f[r] = g[r]
    BY <1>1, <2>2, <2>6 DEF T
  <2>8. Turn(tt, g, r + 1) = g[r] \o x
    BY <1>1, <2>2 DEF Turn
  <2> QED
    BY <1>2, <1>3, <2>1, <2>7, <2>8 DEF tt
<1> QED
  BY <1>4, <1>5

(* What is one after the other is flattened one after the other.           *)
LEMMA FlatJoin ==
  ASSUME NEW S, NEW ss \in Seq(Seq(S)), NEW tt \in Seq(Seq(S))
  PROVE  FlattenSeq(ss \o tt) = FlattenSeq(ss) \o FlattenSeq(tt)
<1> DEFINE a(n) == SubSeq(tt, 1, n)
           T == {n \in Nat : n <= Len(tt) => FlattenSeq(ss \o a(n)) = FlattenSeq(ss) \o FlattenSeq(a(n))}
<1>1. FlattenSeq(ss) \in Seq(S)
  BY FlatType
<1>2. 0 \in T
  <2>1. a(0) = << >> /\ ss \o a(0) = ss
    OBVIOUS
  <2>2. FlattenSeq(a(0)) = << >>
    BY <2>1 DEF FlattenSeq
  <2>3. FlattenSeq(ss) \o << >> = FlattenSeq(ss)
    BY <1>1
  <2> HIDE DEF a
  <2> QED
    BY <2>1, <2>2, <2>3
<1>3. ASSUME NEW n \in Nat, n < Len(tt), n \in T PROVE n + 1 \in T
  <2>1. /\ a(n) \in Seq(Seq(S)) /\ ss \o a(n) \in Seq(Seq(S)) /\ tt[n + 1] \in Seq(S)
        /\ a(n + 1) = Append(a(n), tt[n + 1])
    BY <1>3
  <2>2. ss \o Append(a(n), tt[n + 1]) = Append(ss \o a(n), tt[n + 1])
    <3> DEFINE U == Seq(S)
               y == a(n)
               z == tt[n + 1]
    <3>1. ss \in Seq(U) /\ y \in Seq(U) /\ z \in U
      BY <2>1
    <3> HIDE DEF U, y, z
    <3>2. ss \o Append(y, z) = Append(ss \o y, z)
      BY <3>1
    <3> QED
      BY <3>2 DEF y, z
  <2>3. FlattenSeq(ss \o a(n)) = FlattenSeq(ss) \o FlattenSeq(a(n))
    BY <1>3
  <2> HIDE DEF a
  <2>4. FlattenSeq(a(n)) \in Seq(S)
    BY <2>1, FlatType
  <2>5. FlattenSeq(a(n + 1)) = FlattenSeq(a(n)) \o tt[n + 1]
    BY <2>1, FlatAppend
  <2>6. FlattenSeq(ss \o a(n + 1)) = FlattenSeq(ss \o a(n)) \o tt[n + 1]
    BY <2>1, <2>2, FlatAppend
  <2>7. FlattenSeq(ss \o a(n + 1)) = FlattenSeq(ss) \o FlattenSeq(a(n + 1))
    <3> DEFINE x == FlattenSeq(ss)
               y == FlattenSeq(a(n))
               z == tt[n + 1]
    <3>1. x \in Seq(S) /\ y \in Seq(S) /\ z \in Seq(S)
      BY <1>1, <2>1, <2>4
    <3> HIDE DEF x, y, z
    <3>2. (x \o y) \o z = x \o (y \o z)
      BY ONLY <3>1, ConcatAssociative
    <3> QED
      BY <2>3, <2>5, <2>6, <3>2 DEF x, y, z
  <2> QED
    BY <2>7
<1>4. Len(tt) \in Nat /\ a(Len(tt)) = tt
  OBVIOUS
<1> HIDE DEF T
<1>5. 0 .. Len(tt) \subseteq T
  BY <1>2, <1>3, <1>4, UpTo
<1>6. Len(tt) \in T
  BY <1>4, <1>5
<1>7. FlattenSeq(ss \o a(Len(tt))) = FlattenSeq(ss) \o FlattenSeq(a(Len(tt)))
  BY <1>4, <1>6 DEF T
<1> HIDE DEF a
<1> QED
  BY <1>4, <1>7

(* None, and one.                                                          *)
LEMMA FlatOne ==
  ASSUME NEW S, NEW x \in Seq(S)
  PROVE  FlattenSeq(<< >>) = << >> /\ FlattenSeq(<<x>>) = x
<1>1. FlattenSeq(<< >>) = << >>
  BY DEF FlattenSeq
<1>2. << >> \in Seq(Seq(S)) /\ Append(<< >>, x) = <<x>> /\ << >> \o x = x
  OBVIOUS
<1>3. FlattenSeq(Append(<< >>, x)) = FlattenSeq(<< >>) \o x
  BY <1>2, FlatAppend
<1> QED
  BY <1>1, <1>2, <1>3

(* A set that has the empty sequence and, with every sequence, those that  *)
(* are longer by one, has all.                                             *)
LEMMA SeqInduction ==
  ASSUME NEW S, NEW T, << >> \in T, \A s \in Seq(S) : s \in T => \A x \in S : Append(s, x) \in T
  PROVE  Seq(S) \subseteq T
<1> SUFFICES ASSUME NEW s \in Seq(S) PROVE s \in T
  OBVIOUS
<1> DEFINE N == {n \in Nat : n <= Len(s) => SubSeq(s, 1, n) \in T}
<1>1. Len(s) \in Nat /\ SubSeq(s, 1, 0) = << >> /\ SubSeq(s, 1, Len(s)) = s
  OBVIOUS
<1>2. 0 \in N
  BY <1>1
<1>3. ASSUME NEW n \in Nat, n < Len(s), n \in N PROVE n + 1 \in N
  <2>1. SubSeq(s, 1, n) \in Seq(S) /\ s[n + 1] \in S /\ SubSeq(s, 1, n + 1) = Append(SubSeq(s, 1, n), s[n + 1])
    BY <1>1, <1>3
  <2>2. SubSeq(s, 1, n) \in T
    BY <1>1, <1>3
  <2>3. SubSeq(s, 1, n + 1) \in T
    <3> DEFINE y == SubSeq(s, 1, n)
               z == s[n + 1]
    <3>1. y \in Seq(S) /\ y \in T /\ z \in S
      BY <2>1, <2>2
    <3> HIDE DEF y, z
    <3>2. Append(y, z) \in T
      BY <3>1
    <3> QED
      BY <2>1, <3>2 DEF y, z
  <2> QED
    BY <2>3
<1> HIDE DEF N
<1>4. Len(s) \in N
  <2>1. 0 .. Len(s) \subseteq N
    BY <1>1, <1>2, <1>3, UpTo
  <2> QED
    BY <1>1, <2>1
<1>5. SubSeq(s, 1, Len(s)) \in T
  <2>1. Len(s) <= Len(s)
    BY <1>1
  <2> QED
    BY <1>4, <2>1 DEF N
<1> QED
  BY <1>1, <1>5

(* Nothing, over and over, is nothing.                                     *)
LEMMA FlatNone ==
  ASSUME NEW S, NEW ss \in Seq(Seq(S)), \A i \in 1 .. Len(ss) : ss[i] = << >>
  PROVE  FlattenSeq(ss) = << >>
<1> DEFINE U == Seq(S)
           T == {s \in Seq(U) : (\A i \in 1 .. Len(s) : s[i] = << >>) => FlattenSeq(s) = << >>}
<1>1. << >> \in T
  BY DEF FlattenSeq
<1>2. ASSUME NEW s \in Seq(U), s \in T, NEW x \in U PROVE Append(s, x) \in T
  <2>1. FlattenSeq(Append(s, x)) = FlattenSeq(s) \o x
    BY FlatAppend
  <2> HIDE DEF U
  <2>2. Append(s, x) \in Seq(U) /\ Len(s) \in Nat /\ Len(Append(s, x)) = Len(s) + 1
        /\ Append(s, x)[Len(s) + 1] = x /\ \A i \in 1 .. Len(s) : Append(s, x)[i] = s[i]
    OBVIOUS
  <2>3. ASSUME \A i \in 1 .. Len(Append(s, x)) : Append(s, x)[i] = << >>
        PROVE  FlattenSeq(Append(s, x)) = << >>
    <3>1. x = << >> /\ \A i \in 1 .. Len(s) : s[i] = << >>
      BY <2>2, <2>3
    <3>2. FlattenSeq(s) = << >>
      BY <1>2, <3>1
    <3>3. << >> \o << >> = << >>
      OBVIOUS
    <3> QED
      BY <2>1, <3>1, <3>2, <3>3
  <2> QED
    BY <2>2, <2>3
<1> HIDE DEF T
<1>3. ss \in Seq(U)
  OBVIOUS
<1> HIDE DEF U
<1>4. Seq(U) \subseteq T
  BY <1>1, <1>2, SeqInduction
<1> QED
  BY <1>3, <1>4 DEF T

-----------------------------------------------------------------------------
(* Sequences.                                                              *)

(* One after the other.                                                    *)
LEMMA Joined ==
  ASSUME NEW S, NEW x \in Seq(S), NEW y \in Seq(S)
  PROVE  /\ x \o y \in Seq(S) /\ Len(x) \in Nat /\ Len(y) \in Nat /\ Len(x \o y) = Len(x) + Len(y)
         /\ \A i \in 1 .. Len(x) : (x \o y)[i] = x[i]
         /\ \A i \in 1 .. Len(y) : (x \o y)[Len(x) + i] = y[i]
<1>1. x \o y \in Seq(S) /\ Len(x) \in Nat /\ Len(y) \in Nat /\ Len(x \o y) = Len(x) + Len(y)
      /\ \A i \in 1 .. Len(x) : (x \o y)[i] = x[i]
  OBVIOUS
<1>2. ASSUME NEW i \in 1 .. Len(y) PROVE (x \o y)[Len(x) + i] = y[i]
  <2>1. PICK k \in Nat : k = Len(x) + i /\ k > Len(x) /\ k <= Len(x) + Len(y) /\ k - Len(x) = i
    BY <1>1
  <2>2. (x \o y)[k] = y[k - Len(x)]
    BY <1>1, <2>1
  <2> QED
    BY <2>1, <2>2
<1> QED
  BY <1>1, <1>2

(* The first n of a sequence, and the rest.                                *)
LEMMA Halves ==
  ASSUME NEW S, NEW x \in Seq(S), NEW n \in 0 .. Len(x)
  PROVE  /\ First(x, n) \in Seq(S) /\ Len(First(x, n)) = n
         /\ \A i \in 1 .. n : First(x, n)[i] = x[i]
         /\ Rest(x, n) \in Seq(S) /\ Len(Rest(x, n)) = Len(x) - n
         /\ \A i \in 1 .. Len(x) - n : Rest(x, n)[i] = x[n + i]
         /\ First(x, n) \o Rest(x, n) = x
<1>1. Len(x) \in Nat /\ n \in Nat
  OBVIOUS
<1>2. /\ SubSeq(x, 1, n) \in Seq(S) /\ Len(SubSeq(x, 1, n)) = n
      /\ \A i \in 1 .. n : SubSeq(x, 1, n)[i] = x[i]
  BY <1>1
<1>3. /\ SubSeq(x, n + 1, Len(x)) \in Seq(S) /\ Len(SubSeq(x, n + 1, Len(x))) = Len(x) - n
      /\ \A i \in 1 .. Len(x) - n : SubSeq(x, n + 1, Len(x))[i] = x[n + i]
  BY <1>1
<1>4. SubSeq(x, 1, n) \o SubSeq(x, n + 1, Len(x)) = x
  <2>1. SubSeq(x, 1, n) \o SubSeq(x, n + 1, Len(x)) = SubSeq(x, 1, Len(x))
    <3>1. 1 \in 1 .. Len(x) + 1 /\ n \in 1 - 1 .. Len(x) /\ Len(x) \in n .. Len(x)
      BY <1>1
    <3> QED
      BY ONLY <3>1, x \in Seq(S), ConcatAdjacentSubSeq
  <2> QED
    BY <2>1, SubSeqFull
<1> QED
  BY <1>2, <1>3, <1>4 DEF First, Rest

(* Sequences of one length and with the same elements are the same.        *)
LEMMA SameSeq ==
  ASSUME NEW S, NEW x \in Seq(S), NEW y \in Seq(S), Len(x) = Len(y), \A i \in 1 .. Len(x) : x[i] = y[i]
  PROVE  x = y
OBVIOUS

(* A joined sequence, element by element.                                  *)
LEMMA InJoined ==
  ASSUME NEW S, NEW x \in Seq(S), NEW y \in Seq(S), NEW i \in 1 .. Len(x \o y)
  PROVE  \/ i \in 1 .. Len(x) /\ (x \o y)[i] = x[i]
         \/ i - Len(x) \in 1 .. Len(y) /\ (x \o y)[i] = y[i - Len(x)]
<1>1. Len(x) \in Nat /\ Len(y) \in Nat /\ Len(x \o y) = Len(x) + Len(y)
  BY Joined
<1>2. CASE i <= Len(x)
  BY <1>1, <1>2
<1>3. CASE i > Len(x)
  BY <1>1, <1>3
<1> QED
  BY <1>1, <1>2, <1>3

-----------------------------------------------------------------------------
(* Tokens and descriptors.                                                 *)

Msg    == Request \X DOMAIN Size
Packet == [cell : Cell, fds : Seq(Request), first : BOOLEAN]

(* Message by message.                                                     *)
LEMMA TokensIs ==
  ASSUME NEW x \in Seq(Msg)
  PROVE  /\ Tokens(x) \in Seq(Request) /\ Len(Tokens(x)) = Len(x)
         /\ \A i \in 1 .. Len(x) : Tokens(x)[i] = x[i][1]
<1>1. Len(x) \in Nat /\ DOMAIN x = 1 .. Len(x) /\ \A i \in 1 .. Len(x) : x[i] \in Msg
  OBVIOUS
<1>2. \A i \in 1 .. Len(x) : x[i][1] \in Request
  BY <1>1 DEF Msg
<1>3. Tokens(x) = [i \in 1 .. Len(x) |-> x[i][1]]
  BY <1>1 DEF Tokens
<1> QED
  BY <1>1, <1>2, <1>3

(* Tokens of one sequence of messages after the other.                     *)
LEMMA TokensJoin ==
  ASSUME NEW x \in Seq(Msg), NEW y \in Seq(Msg)
  PROVE  Tokens(x \o y) = Tokens(x) \o Tokens(y)
<1>1. /\ x \o y \in Seq(Msg) /\ Len(x) \in Nat /\ Len(y) \in Nat /\ Len(x \o y) = Len(x) + Len(y)
  BY Joined
<1> DEFINE a == Tokens(x)
           b == Tokens(y)
           c == Tokens(x \o y)
<1>2. /\ a \in Seq(Request) /\ Len(a) = Len(x) /\ \A i \in 1 .. Len(x) : a[i] = x[i][1]
      /\ b \in Seq(Request) /\ Len(b) = Len(y) /\ \A i \in 1 .. Len(y) : b[i] = y[i][1]
      /\ c \in Seq(Request) /\ Len(c) = Len(x \o y) /\ \A i \in 1 .. Len(x \o y) : c[i] = (x \o y)[i][1]
  BY <1>1, TokensIs
<1> HIDE DEF a, b, c
<1>3. a \o b \in Seq(Request) /\ Len(a \o b) = Len(a) + Len(b)
  BY <1>2
<1>4. ASSUME NEW i \in 1 .. Len(c) PROVE c[i] = (a \o b)[i]
  <2>1. i \in 1 .. Len(x \o y) /\ i \in 1 .. Len(a \o b)
    BY <1>1, <1>2, <1>3
  <2>2. CASE i \in 1 .. Len(x)
    BY <1>1, <1>2, <2>1, <2>2
  <2>3. CASE ~(i \in 1 .. Len(x))
    <3>1. i - Len(x) \in 1 .. Len(y) /\ (x \o y)[i] = y[i - Len(x)]
      BY <1>1, <2>1, <2>3
    <3>2. (a \o b)[i] = b[i - Len(x)]
      BY <1>1, <1>2, <2>1, <2>3
    <3> QED
      BY <1>2, <2>1, <3>1, <3>2
  <2> QED
    BY <2>2, <2>3
<1>5. c = a \o b
  BY <1>1, <1>2, <1>3, <1>4, SameSeq
<1> QED
  BY <1>5 DEF a, b, c

(* What each element stands for, element after element.                    *)
Mapped(F, x) == FlattenSeq([i \in DOMAIN x |-> F[x[i]]])

(* It is of sequences, of both of two parts, of one element and of none.   *)
Maps(S, D, F) ==
  /\ \A x \in Seq(D) : Mapped(F, x) \in Seq(S)
  /\ \A x, y \in Seq(D) : Mapped(F, x \o y) = Mapped(F, x) \o Mapped(F, y)
  /\ Mapped(F, << >>) = << >>
  /\ \A d \in D : Mapped(F, <<d>>) = F[d]
  /\ \A x \in Seq(D) : (\A i \in 1 .. Len(x) : F[x[i]] = << >>) => Mapped(F, x) = << >>

(* A function on the elements, applied along a sequence.                   *)
LEMMA MappedIs ==
  ASSUME NEW S, NEW D, NEW F \in [D -> Seq(S)]
  PROVE  Maps(S, D, F)
<1> DEFINE U == Seq(S)
           a(z) == [i \in DOMAIN z |-> F[z[i]]]
<1>1. F \in [D -> U]
  OBVIOUS
<1> HIDE DEF U
<1>2. ASSUME NEW z \in Seq(D)
      PROVE  a(z) \in Seq(U) /\ Len(a(z)) = Len(z) /\ \A i \in 1 .. Len(z) : a(z)[i] = F[z[i]]
  <2>1. Len(z) \in Nat /\ DOMAIN z = 1 .. Len(z) /\ \A i \in 1 .. Len(z) : z[i] \in D
    OBVIOUS
  <2>2. \A i \in 1 .. Len(z) : F[z[i]] \in U
    BY <1>1, <2>1
  <2>3. a(z) = [i \in 1 .. Len(z) |-> F[z[i]]]
    BY <2>1
  <2> HIDE DEF a
  <2> QED
    BY <2>1, <2>2, <2>3
<1>3. ASSUME NEW x \in Seq(D), NEW y \in Seq(D)
      PROVE  /\ Mapped(F, x) \in Seq(S) /\ Mapped(F, x \o y) = Mapped(F, x) \o Mapped(F, y)
             /\ (\A i \in 1 .. Len(x) : F[x[i]] = << >>) => Mapped(F, x) = << >>
  <2>1. x \o y \in Seq(D) /\ Len(x) \in Nat /\ Len(y) \in Nat /\ Len(x \o y) = Len(x) + Len(y)
    BY Joined
  <2> DEFINE ax == a(x)
             ay == a(y)
             az == a(x \o y)
  <2>2. /\ ax \in Seq(U) /\ Len(ax) = Len(x) /\ \A i \in 1 .. Len(x) : ax[i] = F[x[i]]
        /\ ay \in Seq(U) /\ Len(ay) = Len(y) /\ \A i \in 1 .. Len(y) : ay[i] = F[y[i]]
        /\ az \in Seq(U) /\ Len(az) = Len(x \o y) /\ \A i \in 1 .. Len(x \o y) : az[i] = F[(x \o y)[i]]
    BY <1>2, <2>1
  <2>3. Mapped(F, x) = FlattenSeq(ax) /\ Mapped(F, y) = FlattenSeq(ay) /\ Mapped(F, x \o y) = FlattenSeq(az)
    BY DEF Mapped
  <2> HIDE DEF ax, ay, az, a
  <2>4. ax \o ay \in Seq(U) /\ Len(ax \o ay) = Len(ax) + Len(ay)
    BY ONLY <2>2
  <2>5. ASSUME NEW i \in 1 .. Len(az) PROVE az[i] = (ax \o ay)[i]
    <3>1. i \in 1 .. Len(x \o y) /\ i \in 1 .. Len(ax \o ay)
      BY <2>1, <2>2, <2>4
    <3>2. CASE i \in 1 .. Len(x)
      BY <2>1, <2>2, <3>1, <3>2
    <3>3. CASE ~(i \in 1 .. Len(x))
      <4>1. i - Len(x) \in 1 .. Len(y) /\ (x \o y)[i] = y[i - Len(x)]
        BY <2>1, <3>1, <3>3
      <4>2. (ax \o ay)[i] = ay[i - Len(x)]
        BY <2>1, <2>2, <3>1, <3>3
      <4> QED
        BY <2>2, <3>1, <4>1, <4>2
    <3> QED
      BY <3>2, <3>3
  <2>6. az = ax \o ay
    BY <2>1, <2>2, <2>4, <2>5, SameSeq
  <2>7. ax \in Seq(Seq(S)) /\ ay \in Seq(Seq(S))
    BY <2>2 DEF U
  <2>8. FlattenSeq(ax) \in Seq(S) /\ FlattenSeq(ax \o ay) = FlattenSeq(ax) \o FlattenSeq(ay)
    BY <2>7, FlatType, FlatJoin
  <2>9. (\A i \in 1 .. Len(x) : F[x[i]] = << >>) => Mapped(F, x) = << >>
    BY <2>2, <2>3, <2>7, FlatNone
  <2> QED
    BY <2>3, <2>6, <2>8, <2>9
<1>4. Mapped(F, << >>) = << >>
  BY DEF Mapped, FlattenSeq
<1>5. ASSUME NEW d \in D PROVE Mapped(F, <<d>>) = F[d]
  <2>1. a(<<d>>) = <<F[d]>> /\ F[d] \in Seq(S)
    BY DEF a
  <2>2. FlattenSeq(<<F[d]>>) = F[d]
    BY <2>1, FlatOne
  <2> QED
    BY <2>1, <2>2 DEF Mapped, a
<1> QED
  BY <1>3, <1>4, <1>5 DEF Maps

-----------------------------------------------------------------------------
(* Frames.                                                                 *)

(* The constants are numbers, and there are answers to keep a stream.      *)
LEMMA Constants ==
  /\ NumRequests \in Nat /\ FdQueue \in Nat \ {0} /\ SocketSize \in Nat \ {0}
  /\ WorkerBuffer \in Nat /\ Size["request"] <= WorkerBuffer /\ ServerBuffer \in Nat \ {0}
  /\ ServerRoom \in Nat \ {0} /\ Request \subseteq Nat \ {0}
  /\ "request" \in DOMAIN Size /\ "keep" \in DOMAIN Size /\ Kind \subseteq DOMAIN Size
  /\ \A k \in DOMAIN Size : Size[k] \in Nat \ {0}
  /\ \A m \in Msg : Size[m[2]] \in Nat \ {0}
<1>1. /\ NumRequests \in Nat
      /\ {"request", "keep"} \subseteq DOMAIN Size /\ \A k \in DOMAIN Size : Size[k] \in Nat \ {0}
      /\ FdQueue \in Nat \ {0} /\ SocketSize \in Nat \ {0}
      /\ WorkerBuffer \in Nat /\ WorkerBuffer >= Size["request"]
      /\ ServerBuffer \in Nat \ {0} /\ ServerRoom \in 1 .. ServerBuffer
  BY ChannelAssumption
<1>2. \A m \in Msg : m[2] \in DOMAIN Size
  BY DEF Msg
<1> QED
  BY <1>1, <1>2 DEF Request, Kind

(* A cell, and the number of those in its frame.                           *)
LEMMA CellIs ==
  ASSUME NEW c \in Cell
  PROVE  c.msg \in Msg /\ c.at \in Nat /\ Size[c.msg[2]] \in Nat \ {0} /\ c = [msg |-> c.msg, at |-> c.at]
<1>1. c.msg \in Msg /\ c.at \in Nat /\ c = [msg |-> c.msg, at |-> c.at]
  BY DEF Cell, Msg
<1> QED
  BY <1>1, Constants

(* The bytes of one frame.                                                 *)
LEMMA FrameIs ==
  ASSUME NEW m \in Msg
  PROVE  /\ Frame(m) \in Seq(Cell) /\ Len(Frame(m)) = Size[m[2]] /\ Frame(m) # << >>
         /\ \A i \in 1 .. Size[m[2]] : Frame(m)[i] = [msg |-> m, at |-> i]
         /\ Framed(Frame(m)) /\ Ended(Frame(m))
<1> DEFINE f == Frame(m)
           n == Size[m[2]]
<1>1. n \in Nat \ {0}
  BY Constants
<1>2. f = [i \in 1 .. n |-> [msg |-> m, at |-> i]]
  BY DEF Frame
<1> HIDE DEF f
<1>3. \A i \in 1 .. n : [msg |-> m, at |-> i] \in Cell
  BY <1>1 DEF Cell, Msg
<1>4. f \in Seq(Cell) /\ Len(f) = n /\ \A i \in 1 .. n : f[i] = [msg |-> m, at |-> i]
  <2> HIDE DEF n
  <2> QED
    BY <1>1, <1>2, <1>3
<1>5. f # << >>
  BY <1>1, <1>4
<1>6. ASSUME NEW i \in 1 .. Len(f) PROVE f[i].at = i /\ f[i].msg = m /\ Size[f[i].msg[2]] = n
  <2>1. f[i] = [msg |-> m, at |-> i]
    BY <1>4
  <2>2. f[i].at = i /\ f[i].msg = m
    BY <2>1
  <2> QED
    BY <2>2
<1>7. Framed(f)
  <2>1. \A i \in 1 .. Len(f) : f[i].at \in 1 .. Size[f[i].msg[2]]
    BY <1>1, <1>4, <1>6
  <2>2. ASSUME NEW i \in 1 .. Len(f) - 1 PROVE Follows(f[i], f[i + 1])
    <3>1. i \in 1 .. n /\ i + 1 \in 1 .. n /\ i # n
      BY <1>1, <1>4
    <3>2. f[i].at = i /\ f[i].msg = m /\ f[i + 1] = [msg |-> m, at |-> i + 1]
      BY <1>4, <1>6, <3>1
    <3>3. ~LastOf(f[i])
      BY <3>1, <3>2 DEF LastOf
    <3> QED
      BY <3>2, <3>3 DEF Follows
  <2>3. f[1].at = 1
    <3>1. 1 \in 1 .. Len(f)
      BY <1>1, <1>4
    <3> QED
      BY <1>6, <3>1
  <2> QED
    BY <2>1, <2>2, <2>3 DEF Framed
<1>8. Ended(f)
  <2>1. f[n].at = n /\ Size[f[n].msg[2]] = n
    BY <1>1, <1>4, <1>6
  <2> QED
    BY <1>4, <2>1 DEF Ended, LastOf
<1> QED
  BY <1>4, <1>5, <1>7, <1>8 DEF f

(* Frames after frames.                                                    *)
LEMMA FramedJoin ==
  ASSUME NEW c \in Seq(Cell), NEW d \in Seq(Cell), Framed(c), Ended(c), Framed(d)
  PROVE  Framed(c \o d) /\ (Ended(d) => Ended(c \o d))
<1> DEFINE e == c \o d
<1>1. /\ e \in Seq(Cell) /\ Len(c) \in Nat /\ Len(d) \in Nat /\ Len(e) = Len(c) + Len(d)
      /\ \A i \in 1 .. Len(c) : e[i] = c[i]
      /\ \A i \in 1 .. Len(d) : e[Len(c) + i] = d[i]
  BY Joined
<1>2. /\ (c # << >> <=> Len(c) # 0) /\ (d # << >> <=> Len(d) # 0) /\ (e # << >> <=> Len(e) # 0)
  BY <1>1
<1>3. \A i \in 1 .. Len(e) : \/ i \in 1 .. Len(c) /\ e[i] = c[i]
                             \/ i - Len(c) \in 1 .. Len(d) /\ e[i] = d[i - Len(c)]
  BY InJoined
<1>4. /\ \A i \in 1 .. Len(c) : c[i].at \in 1 .. Size[c[i].msg[2]]
      /\ \A i \in 1 .. Len(c) - 1 : Follows(c[i], c[i + 1])
      /\ c # << >> => c[1].at = 1
      /\ \A i \in 1 .. Len(d) : d[i].at \in 1 .. Size[d[i].msg[2]]
      /\ \A i \in 1 .. Len(d) - 1 : Follows(d[i], d[i + 1])
      /\ d # << >> => d[1].at = 1
  BY DEF Framed
<1>5. (c # << >> => LastOf(c[Len(c)])) /\ (Ended(d) => (d # << >> => LastOf(d[Len(d)])))
  BY DEF Ended
<1> HIDE DEF e
<1>6. \A i \in 1 .. Len(e) : e[i].at \in 1 .. Size[e[i].msg[2]]
  BY <1>3, <1>4
<1>7. ASSUME NEW i \in 1 .. Len(e) - 1 PROVE Follows(e[i], e[i + 1])
  <2>1. CASE i < Len(c)
    <3>1. i \in 1 .. Len(c) - 1 /\ e[i] = c[i] /\ e[i + 1] = c[i + 1]
      BY <1>1, <2>1
    <3> QED
      BY <1>4, <3>1
  <2>2. CASE i = Len(c)
    <3>1. 1 \in 1 .. Len(d) /\ i \in 1 .. Len(c)
      BY <1>1, <2>2
    <3>2. e[i] = c[i] /\ e[i + 1] = d[1] /\ c # << >> /\ d # << >>
      BY <1>1, <1>2, <2>2, <3>1
    <3>3. LastOf(e[i]) /\ e[i + 1].at = 1
      BY <1>4, <1>5, <2>2, <3>2
    <3> QED
      BY <3>3 DEF Follows
  <2>3. CASE i > Len(c)
    <3> DEFINE j == i - Len(c)
    <3>1. j \in 1 .. Len(d) - 1 /\ j + 1 \in 1 .. Len(d) /\ i = Len(c) + j /\ i + 1 = Len(c) + (j + 1)
      BY <1>1, <2>3
    <3> HIDE DEF j
    <3>2. e[Len(c) + j] = d[j] /\ e[Len(c) + (j + 1)] = d[j + 1]
      BY <1>1, <3>1
    <3>3. e[i] = d[j] /\ e[i + 1] = d[j + 1]
      BY <3>1, <3>2
    <3> QED
      BY <1>4, <3>1, <3>3
  <2> QED
    BY <1>1, <2>1, <2>2, <2>3
<1>8. e # << >> => e[1].at = 1
  <2>1. CASE Len(c) # 0
    <3>1. e[1] = c[1]
      BY <1>1, <2>1
    <3> QED
      BY <1>2, <1>4, <2>1, <3>1
  <2>2. CASE Len(c) = 0 /\ Len(d) # 0
    <3>1. 1 \in 1 .. Len(d) /\ e[Len(c) + 1] = d[1] /\ Len(c) + 1 = 1
      BY <1>1, <2>2
    <3> QED
      BY <1>2, <1>4, <2>2, <3>1
  <2> QED
    BY <1>1, <1>2, <2>1, <2>2
<1>9. ASSUME Ended(d) PROVE Ended(e)
  <2>1. CASE Len(d) # 0
    <3>1. Len(d) \in 1 .. Len(d) /\ e[Len(c) + Len(d)] = d[Len(d)]
      BY <1>1, <2>1
    <3> QED
      BY <1>1, <1>2, <1>5, <1>9, <2>1, <3>1 DEF Ended
  <2>2. CASE Len(d) = 0 /\ Len(c) # 0
    <3>1. Len(c) \in 1 .. Len(c) /\ e[Len(c)] = c[Len(c)] /\ Len(e) = Len(c)
      BY <1>1, <2>2
    <3> QED
      BY <1>2, <1>5, <2>2, <3>1 DEF Ended
  <2> QED
    BY <1>1, <1>2, <2>1, <2>2 DEF Ended
<1>10. Framed(e)
  BY <1>6, <1>7, <1>8 DEF Framed
<1> QED
  BY <1>9, <1>10 DEF e

(* A beginning of frames, and what follows a frame.                        *)
LEMMA FramedHalves ==
  ASSUME NEW c \in Seq(Cell), Framed(c), NEW n \in 0 .. Len(c)
  PROVE  /\ Framed(First(c, n))
         /\ Ended(First(c, n)) => Framed(Rest(c, n)) /\ (Ended(c) => Ended(Rest(c, n)))
<1> DEFINE a == First(c, n)
           b == Rest(c, n)
<1>1. /\ a \in Seq(Cell) /\ Len(a) = n /\ \A i \in 1 .. n : a[i] = c[i]
      /\ b \in Seq(Cell) /\ Len(b) = Len(c) - n /\ \A i \in 1 .. Len(c) - n : b[i] = c[n + i]
  BY Halves
<1>2. /\ \A i \in 1 .. Len(c) : c[i].at \in 1 .. Size[c[i].msg[2]]
      /\ \A i \in 1 .. Len(c) - 1 : Follows(c[i], c[i + 1])
      /\ c # << >> => c[1].at = 1
  BY DEF Framed
<1> HIDE DEF a, b
<1>3. /\ Len(c) \in Nat /\ n \in Nat /\ (c # << >> <=> Len(c) # 0)
      /\ (a # << >> <=> Len(a) # 0) /\ (b # << >> <=> Len(b) # 0)
  BY <1>1
<1>4. Framed(a)
  <2>1. \A i \in 1 .. Len(a) : a[i].at \in 1 .. Size[a[i].msg[2]]
    BY <1>1, <1>2, <1>3
  <2>2. ASSUME NEW i \in 1 .. Len(a) - 1 PROVE Follows(a[i], a[i + 1])
    <3>1. a[i] = c[i] /\ a[i + 1] = c[i + 1] /\ i \in 1 .. Len(c) - 1
      BY <1>1, <1>3
    <3> QED
      BY <1>2, <3>1
  <2>3. a # << >> => a[1].at = 1
    BY <1>1, <1>2, <1>3
  <2> QED
    BY <2>1, <2>2, <2>3 DEF Framed
<1>5. ASSUME Ended(a) PROVE Framed(b)
  <2>1. ASSUME NEW i \in 1 .. Len(b) PROVE b[i].at \in 1 .. Size[b[i].msg[2]]
    <3>1. b[i] = c[n + i] /\ n + i \in 1 .. Len(c)
      BY <1>1, <1>3
    <3> QED
      BY <1>2, <3>1
  <2>2. ASSUME NEW i \in 1 .. Len(b) - 1 PROVE Follows(b[i], b[i + 1])
    <3>1. b[i] = c[n + i] /\ b[i + 1] = c[n + i + 1] /\ n + i \in 1 .. Len(c) - 1
      BY <1>1, <1>3
    <3> QED
      BY <1>2, <3>1
  <2>3. ASSUME b # << >> PROVE b[1].at = 1
    <3>1. b[1] = c[n + 1] /\ n < Len(c)
      BY <1>1, <1>3, <2>3
    <3>2. CASE n = 0
      BY <1>2, <1>3, <3>1, <3>2
    <3>3. CASE n # 0
      <4>1. n \in 1 .. Len(c) - 1 /\ a[n] = c[n] /\ a # << >>
        BY <1>1, <1>3, <3>1, <3>3
      <4>2. LastOf(c[n]) /\ Follows(c[n], c[n + 1])
        BY <1>1, <1>2, <1>5, <4>1 DEF Ended
      <4> QED
        BY <3>1, <4>2 DEF Follows
    <3> QED
      BY <3>2, <3>3
  <2> QED
    BY <2>1, <2>2, <2>3 DEF Framed
<1>6. ASSUME Ended(c) PROVE Ended(b)
  <2>1. ASSUME b # << >> PROVE b[Len(b)] = c[Len(c)] /\ c # << >>
    BY <1>1, <1>3, <2>1
  <2> QED
    BY <1>6, <2>1 DEF Ended
<1> QED
  BY <1>4, <1>5, <1>6 DEF a, b

-----------------------------------------------------------------------------
(* What is made of bytes, one after the other.                             *)

(* The messages that are whole.                                            *)
LEMMA WholeIs ==
  ASSUME NEW x \in Seq(Cell), NEW y \in Seq(Cell)
  PROVE  /\ Whole(x) \in Seq(Msg) /\ Whole(x \o y) = Whole(x) \o Whole(y) /\ Whole(<< >>) = << >>
         /\ \A c \in Cell : Whole(<<c>>) = IF LastOf(c) THEN <<c.msg>> ELSE << >>
         /\ (\A i \in 1 .. Len(x) : ~LastOf(x[i])) => Whole(x) = << >>
<1> DEFINE F == [c \in Cell |-> IF LastOf(c) THEN <<c.msg>> ELSE << >>]
<1>1. F \in [Cell -> Seq(Msg)]
  <2>1. ASSUME NEW c \in Cell PROVE (IF LastOf(c) THEN <<c.msg>> ELSE << >>) \in Seq(Msg)
    <3>1. c.msg \in Msg
      BY CellIs
    <3> QED
      BY <3>1
  <2> QED
    BY <2>1
<1>2. ASSUME NEW z \in Seq(Cell) PROVE Whole(z) = Mapped(F, z)
  <2>1. \A i \in DOMAIN z : z[i] \in Cell
    OBVIOUS
  <2>2. [i \in DOMAIN z |-> IF LastOf(z[i]) THEN <<z[i].msg>> ELSE << >>] = [i \in DOMAIN z |-> F[z[i]]]
    BY <2>1
  <2> QED
    BY <2>2 DEF Whole, Mapped
<1>3. /\ x \o y \in Seq(Cell) /\ << >> \in Seq(Cell) /\ \A c \in Cell : <<c>> \in Seq(Cell)
      /\ Len(x) \in Nat /\ \A i \in 1 .. Len(x) : x[i] \in Cell
  OBVIOUS
<1>4. \A c \in Cell : F[c] = IF LastOf(c) THEN <<c.msg>> ELSE << >>
  OBVIOUS
<1> HIDE DEF F
<1>5. /\ Mapped(F, x) \in Seq(Msg)
      /\ Mapped(F, x \o y) = Mapped(F, x) \o Mapped(F, y)
      /\ Mapped(F, << >>) = << >>
      /\ \A c \in Cell : Mapped(F, <<c>>) = F[c]
      /\ (\A i \in 1 .. Len(x) : F[x[i]] = << >>) => Mapped(F, x) = << >>
  <2>1. Maps(Msg, Cell, F)
    BY ONLY <1>1, MappedIs
  <2> QED
    BY <2>1 DEF Maps
<1>6. ASSUME \A i \in 1 .. Len(x) : ~LastOf(x[i]) PROVE \A i \in 1 .. Len(x) : F[x[i]] = << >>
  BY <1>3, <1>4, <1>6
<1> QED
  BY <1>2, <1>3, <1>4, <1>5, <1>6

(* A frame is one message.                                                 *)
LEMMA WholeFrame ==
  ASSUME NEW m \in Msg
  PROVE  Whole(Frame(m)) = <<m>>
<1> DEFINE f == Frame(m)
           n == Size[m[2]]
           a == First(f, n - 1)
           b == Rest(f, n - 1)
<1>1. /\ f \in Seq(Cell) /\ Len(f) = n /\ n \in Nat \ {0}
      /\ \A i \in 1 .. n : f[i] = [msg |-> m, at |-> i]
  BY FrameIs, Constants
<1> HIDE DEF f
<1>2. /\ a \in Seq(Cell) /\ Len(a) = n - 1 /\ \A i \in 1 .. n - 1 : a[i] = f[i]
      /\ b \in Seq(Cell) /\ Len(b) = n - (n - 1) /\ \A i \in 1 .. n - (n - 1) : b[i] = f[n - 1 + i]
      /\ a \o b = f
  <2>1. n - 1 \in 0 .. Len(f)
    BY <1>1
  <2>2. /\ First(f, n - 1) \in Seq(Cell) /\ Len(First(f, n - 1)) = n - 1
        /\ \A i \in 1 .. n - 1 : First(f, n - 1)[i] = f[i]
        /\ Rest(f, n - 1) \in Seq(Cell) /\ Len(Rest(f, n - 1)) = Len(f) - (n - 1)
        /\ \A i \in 1 .. Len(f) - (n - 1) : Rest(f, n - 1)[i] = f[n - 1 + i]
        /\ First(f, n - 1) \o Rest(f, n - 1) = f
    BY ONLY <1>1, <2>1, Halves
  <2> QED
    BY <1>1, <2>2
<1> HIDE DEF a, b
<1>3. b = <<f[n]>> /\ f[n] \in Cell
  <2> HIDE DEF n
  <2>1. Len(b) = 1 /\ b[1] = f[n]
    BY <1>1, <1>2
  <2> QED
    BY <1>1, <1>2, <2>1
<1>4. LastOf(f[n]) /\ f[n].msg = m
  <2>1. f[n] = [msg |-> m, at |-> n]
    BY <1>1
  <2>2. f[n].msg = m /\ f[n].at = n
    BY <2>1
  <2> QED
    BY <2>2 DEF LastOf
<1>5. Whole(b) = <<m>>
  <2>1. Whole(<<f[n]>>) = IF LastOf(f[n]) THEN <<f[n].msg>> ELSE << >>
    <3> HIDE DEF n
    <3> QED
      BY <1>2, <1>3, WholeIs
  <2> QED
    BY <1>3, <1>4, <2>1
<1>6. Whole(a) = << >>
  <2>1. ASSUME NEW i \in 1 .. Len(a) PROVE ~LastOf(a[i])
    <3>1. i \in 1 .. n /\ i # n /\ a[i] = f[i]
      BY <1>1, <1>2
    <3>2. a[i] = [msg |-> m, at |-> i]
      BY <1>1, <3>1
    <3>3. a[i].msg = m /\ a[i].at = i
      BY <3>2
    <3> QED
      BY <3>1, <3>3 DEF LastOf
  <2> QED
    BY <1>2, <2>1, WholeIs
<1>7. Whole(f) = Whole(a) \o Whole(b)
  BY <1>2, WholeIs
<1>8. << >> \o <<m>> = <<m>>
  OBVIOUS
<1> QED
  BY <1>5, <1>6, <1>7, <1>8 DEF f

(* The descriptors that come with bytes.                                   *)
LEMMA FdsIs ==
  ASSUME NEW x \in Seq(Packet), NEW y \in Seq(Packet)
  PROVE  /\ Fds(x) \in Seq(Request) /\ Fds(x \o y) = Fds(x) \o Fds(y) /\ Fds(<< >>) = << >>
         /\ \A p \in Packet : Fds(<<p>>) = p.fds
         /\ (\A i \in 1 .. Len(x) : x[i].fds = << >>) => Fds(x) = << >>
<1> DEFINE F == [p \in Packet |-> p.fds]
<1>1. F \in [Packet -> Seq(Request)]
  <2>1. \A p \in Packet : p.fds \in Seq(Request)
    BY DEF Packet
  <2> QED
    BY <2>1
<1>2. ASSUME NEW z \in Seq(Packet) PROVE Fds(z) = Mapped(F, z)
  <2>1. \A i \in DOMAIN z : z[i] \in Packet
    OBVIOUS
  <2>2. [i \in DOMAIN z |-> z[i].fds] = [i \in DOMAIN z |-> F[z[i]]]
    BY <2>1
  <2> QED
    BY <2>2 DEF Fds, Mapped
<1>3. /\ x \o y \in Seq(Packet) /\ << >> \in Seq(Packet) /\ \A p \in Packet : <<p>> \in Seq(Packet)
      /\ Len(x) \in Nat /\ \A i \in 1 .. Len(x) : x[i] \in Packet
  OBVIOUS
<1>4. \A p \in Packet : F[p] = p.fds
  OBVIOUS
<1> HIDE DEF F
<1>5. /\ Mapped(F, x) \in Seq(Request)
      /\ Mapped(F, x \o y) = Mapped(F, x) \o Mapped(F, y)
      /\ Mapped(F, << >>) = << >>
      /\ \A p \in Packet : Mapped(F, <<p>>) = F[p]
      /\ (\A i \in 1 .. Len(x) : F[x[i]] = << >>) => Mapped(F, x) = << >>
  <2>1. Maps(Request, Packet, F)
    BY ONLY <1>1, MappedIs
  <2> QED
    BY <2>1 DEF Maps
<1>6. ASSUME \A i \in 1 .. Len(x) : x[i].fds = << >> PROVE \A i \in 1 .. Len(x) : F[x[i]] = << >>
  BY <1>3, <1>4, <1>6
<1> QED
  BY <1>2, <1>3, <1>4, <1>5, <1>6

(* The tokens of answers of some kinds.                                    *)
LEMMA TokensOfIs ==
  ASSUME NEW x \in Seq(Msg), NEW K
  PROVE  TokensOf(x, K) \in Seq(Request) /\ TokensOf(<< >>, K) = << >>
<1> DEFINE F == [m \in Msg |-> IF m[2] \in K THEN <<m[1]>> ELSE << >>]
<1>1. F \in [Msg -> Seq(Request)]
  <2>1. ASSUME NEW m \in Msg PROVE (IF m[2] \in K THEN <<m[1]>> ELSE << >>) \in Seq(Request)
    <3>1. m[1] \in Request
      BY DEF Msg
    <3> QED
      BY <3>1
  <2> QED
    BY <2>1
<1>2. ASSUME NEW z \in Seq(Msg) PROVE TokensOf(z, K) = Mapped(F, z)
  <2>1. \A i \in DOMAIN z : z[i] \in Msg
    OBVIOUS
  <2>2. [i \in DOMAIN z |-> IF z[i][2] \in K THEN <<z[i][1]>> ELSE << >>] = [i \in DOMAIN z |-> F[z[i]]]
    BY <2>1
  <2> QED
    BY <2>2 DEF TokensOf, Mapped
<1> HIDE DEF F
<1>3. Mapped(F, x) \in Seq(Request) /\ Mapped(F, << >>) = << >>
  <2>1. Maps(Request, Msg, F)
    BY ONLY <1>1, MappedIs
  <2> QED
    BY <2>1 DEF Maps
<1>4. << >> \in Seq(Msg)
  OBVIOUS
<1> QED
  BY <1>2, <1>3, <1>4

(* The frames of requests are framed, and carry these.                     *)
LEMMA RequestsIs ==
  ASSUME NEW tks \in Seq(Request)
  PROVE  /\ Requests(tks) \in Seq(Cell) /\ Framed(Requests(tks)) /\ Ended(Requests(tks))
         /\ Tokens(Whole(Requests(tks))) = tks
         /\ \A i \in 1 .. Len(Requests(tks)) : Requests(tks)[i].msg[2] = "request"
<1> DEFINE F == [t \in Request |-> Frame(<<t, "request">>)]
           OK(s, b) == /\ b \in Seq(Cell) /\ Framed(b) /\ Ended(b)
                       /\ Tokens(Whole(b)) = s
                       /\ \A i \in 1 .. Len(b) : b[i].msg[2] = "request"
           T == {s \in Seq(Request) : OK(s, Requests(s))}
<1>1. ASSUME NEW t \in Request
      PROVE  /\ <<t, "request">> \in Msg /\ Frame(<<t, "request">>) \in Seq(Cell)
             /\ OK(<<t>>, Frame(<<t, "request">>))
  <2>1. <<t, "request">> \in Msg
    BY Constants DEF Msg
  <2> DEFINE m == <<t, "request">>
  <2>2. m \in Msg /\ m[1] = t /\ m[2] = "request"
    BY <2>1
  <2> HIDE DEF m
  <2>3. /\ Frame(m) \in Seq(Cell) /\ Len(Frame(m)) = Size[m[2]] /\ Framed(Frame(m)) /\ Ended(Frame(m))
        /\ \A i \in 1 .. Size[m[2]] : Frame(m)[i] = [msg |-> m, at |-> i]
    BY <2>2, FrameIs
  <2>4. Whole(Frame(m)) = <<m>> /\ Tokens(<<m>>) = <<t>>
    BY <2>2, WholeFrame DEF Tokens
  <2>5. ASSUME NEW i \in 1 .. Len(Frame(m)) PROVE Frame(m)[i].msg[2] = "request"
    <3>1. Frame(m)[i] = [msg |-> m, at |-> i]
      BY <2>3
    <3>2. Frame(m)[i].msg = m
      BY <3>1
    <3> QED
      BY <2>2, <3>2
  <2>6. OK(<<t>>, Frame(m))
    BY <2>3, <2>4, <2>5
  <2> QED
    BY <2>2, <2>3, <2>6 DEF m
<1>2. F \in [Request -> Seq(Cell)]
  BY <1>1
<1>3. ASSUME NEW s \in Seq(Request) PROVE Requests(s) = Mapped(F, s)
  <2>1. \A i \in DOMAIN s : s[i] \in Request
    OBVIOUS
  <2>2. [i \in DOMAIN s |-> Frame(<<s[i], "request">>)] = [i \in DOMAIN s |-> F[s[i]]]
    BY <2>1
  <2> QED
    BY <2>2 DEF Requests, Mapped
<1>4. \A t \in Request : F[t] = Frame(<<t, "request">>)
  OBVIOUS
<1> HIDE DEF F
<1>5. Maps(Cell, Request, F)
  BY ONLY <1>2, MappedIs
<1>6. << >> \in T
  <2>1. << >> \in Seq(Request) /\ Requests(<< >>) = << >>
    <3>1. << >> \in Seq(Request)
      OBVIOUS
    <3>2. Mapped(F, << >>) = << >>
      BY <1>5 DEF Maps
    <3> QED
      BY <1>3, <3>1, <3>2
  <2>2. << >> \in Seq(Cell) /\ Framed(<< >>) /\ Ended(<< >>)
    BY DEF Framed, Ended
  <2>3. Whole(<< >>) = << >>
    BY <2>2, WholeIs
  <2>4. Tokens(<< >>) = << >>
    BY DEF Tokens
  <2>5. \A i \in 1 .. Len(<< >>) : << >>[i].msg[2] = "request"
    OBVIOUS
  <2>6. OK(<< >>, << >>)
    BY <2>2, <2>3, <2>4, <2>5
  <2> QED
    BY <2>1, <2>6
<1>7. ASSUME NEW s \in Seq(Request), s \in T, NEW t \in Request PROVE Append(s, t) \in T
  <2>1. Append(s, t) \in Seq(Request) /\ Append(s, t) = s \o <<t>> /\ <<t>> \in Seq(Request)
    OBVIOUS
  <2> DEFINE b == Requests(s)
             f == Frame(<<t, "request">>)
  <2>2. Requests(s \o <<t>>) = b \o f
    <3>1. Mapped(F, s \o <<t>>) = Mapped(F, s) \o Mapped(F, <<t>>)
      BY <1>5, <2>1 DEF Maps
    <3>2. Mapped(F, <<t>>) = F[t]
      BY <1>5 DEF Maps
    <3>3. Requests(s \o <<t>>) = Mapped(F, s \o <<t>>) /\ Requests(s) = Mapped(F, s)
      BY <1>3, <2>1
    <3> QED
      BY <1>4, <3>1, <3>3, <3>2
  <2>3. OK(s, b) /\ OK(<<t>>, f)
    BY <1>1, <1>7
  <2> HIDE DEF b, f
  <2>4. b \o f \in Seq(Cell) /\ Framed(b \o f) /\ Ended(b \o f)
    BY <2>3, FramedJoin
  <2>5. Whole(b \o f) = Whole(b) \o Whole(f) /\ Whole(b) \in Seq(Msg) /\ Whole(f) \in Seq(Msg)
    BY <2>3, WholeIs
  <2>6. Tokens(Whole(b \o f)) = s \o <<t>>
    BY <2>3, <2>5, TokensJoin
  <2>7. ASSUME NEW i \in 1 .. Len(b \o f) PROVE (b \o f)[i].msg[2] = "request"
    BY <2>3, InJoined
  <2> QED
    BY <2>1, <2>2, <2>4, <2>6, <2>7
<1> HIDE DEF T
<1>8. tks \in T
  BY <1>6, <1>7, SeqInduction
<1> QED
  BY <1>8 DEF T

-----------------------------------------------------------------------------
(* What is read: complete frames, and the beginning of one.                *)

(* The bytes after a complete frame are those of the next frame, as far as *)
(* they have arrived.                                                      *)
LEMMA FrameAt ==
  ASSUME NEW buf \in Seq(Cell), Framed(buf), NEW p \in Nat, p < Len(buf), Ended(First(buf, p))
  PROVE  /\ buf[p + 1].msg \in Msg /\ Size[buf[p + 1].msg[2]] \in Nat \ {0}
         /\ \A j \in 1 .. Len(buf) - p : j <= Size[buf[p + 1].msg[2]] =>
              buf[p + j] = [msg |-> buf[p + 1].msg, at |-> j]
<1> DEFINE m == buf[p + 1].msg
           T == {n \in Nat : p + n < Len(buf) /\ n < Size[m[2]] => buf[p + n + 1] = [msg |-> m, at |-> n + 1]}
<1>1. /\ Len(buf) \in Nat /\ p \in 0 .. Len(buf) /\ p + 1 \in 1 .. Len(buf) /\ buf[p + 1] \in Cell
  OBVIOUS
<1>2. m \in Msg /\ Size[m[2]] \in Nat \ {0} /\ buf[p + 1] = [msg |-> m, at |-> buf[p + 1].at]
  BY <1>1, CellIs
<1>3. buf[p + 1].at = 1
  <2>1. Framed(Rest(buf, p))
    BY <1>1, FramedHalves
  <2>2. /\ Rest(buf, p) \in Seq(Cell) /\ Len(Rest(buf, p)) = Len(buf) - p
        /\ \A i \in 1 .. Len(buf) - p : Rest(buf, p)[i] = buf[p + i]
    BY <1>1, Halves
  <2>3. Rest(buf, p) # << >> /\ Rest(buf, p)[1] = buf[p + 1]
    BY <1>1, <2>2
  <2> QED
    BY <2>1, <2>3 DEF Framed
<1>4. 0 \in T
  BY <1>1, <1>2, <1>3
<1>5. ASSUME NEW n \in Nat, n < Len(buf), n \in T PROVE n + 1 \in T
  <2>1. SUFFICES ASSUME p + (n + 1) < Len(buf), n + 1 < Size[m[2]]
                 PROVE  buf[p + (n + 1) + 1] = [msg |-> m, at |-> (n + 1) + 1]
    OBVIOUS
  <2>2. buf[p + n + 1] = [msg |-> m, at |-> n + 1]
    BY <1>1, <1>2, <1>5, <2>1
  <2> HIDE DEF m
  <2>3. buf[p + n + 1].msg = m /\ buf[p + n + 1].at = n + 1
    BY <2>2
  <2>4. ~LastOf(buf[p + n + 1])
    BY <1>2, <2>1, <2>3 DEF LastOf
  <2>5. Follows(buf[p + n + 1], buf[p + n + 1 + 1])
    <3>1. p + n + 1 \in 1 .. Len(buf) - 1
      BY <1>1, <2>1
    <3> QED
      BY <3>1 DEF Framed
  <2>6. p + (n + 1) + 1 = p + n + 1 + 1
    OBVIOUS
  <2> QED
    BY <2>3, <2>4, <2>5, <2>6 DEF Follows
<1> HIDE DEF T, m
<1>6. 0 .. Len(buf) \subseteq T
  BY <1>1, <1>4, <1>5, UpTo
<1>7. ASSUME NEW j \in 1 .. Len(buf) - p, j <= Size[m[2]] PROVE buf[p + j] = [msg |-> m, at |-> j]
  <2>1. j - 1 \in 0 .. Len(buf) /\ p + (j - 1) < Len(buf) /\ j - 1 < Size[m[2]]
        /\ p + (j - 1) + 1 = p + j /\ (j - 1) + 1 = j
    BY <1>1, <1>2, <1>7
  <2>2. j - 1 \in T
    BY <1>6, <2>1
  <2>3. buf[p + (j - 1) + 1] = [msg |-> m, at |-> (j - 1) + 1]
    BY <2>1, <2>2 DEF T
  <2> QED
    BY <2>1, <2>3
<1> QED
  BY <1>2, <1>7 DEF m

(* A frame that is complete, after others.                                 *)
LEMMA OneFrame ==
  ASSUME NEW buf \in Seq(Cell), Framed(buf), NEW p \in Nat, p < Len(buf), Ended(First(buf, p)),
         NEW q \in Nat, q = p + Size[buf[p + 1].msg[2]], q <= Len(buf)
  PROVE  /\ p < q /\ Whole(First(buf, q)) = Whole(First(buf, p)) \o <<buf[q].msg>>
         /\ Ended(First(buf, q)) /\ buf[q].msg \in Msg
<1> DEFINE m == buf[p + 1].msg
           n == Size[m[2]]
           a == First(buf, p)
           b == First(buf, q)
           f == Frame(m)
<1>1. /\ m \in Msg /\ n \in Nat \ {0}
      /\ \A j \in 1 .. Len(buf) - p : j <= n => buf[p + j] = [msg |-> m, at |-> j]
  BY FrameAt
<1>2. q = p + n /\ Len(buf) \in Nat /\ p \in 0 .. Len(buf) /\ q \in 0 .. Len(buf)
  OBVIOUS
<1>3. /\ f \in Seq(Cell) /\ Len(f) = n /\ f # << >> /\ \A i \in 1 .. n : f[i] = [msg |-> m, at |-> i]
      /\ Ended(f) /\ Whole(f) = <<m>>
  BY <1>1, FrameIs, WholeFrame
<1>4. /\ a \in Seq(Cell) /\ Len(a) = p /\ \A i \in 1 .. p : a[i] = buf[i]
      /\ b \in Seq(Cell) /\ Len(b) = q /\ \A i \in 1 .. q : b[i] = buf[i]
  BY <1>2, Halves
<1> HIDE DEF m, n, a, b, f
<1>5. a \o f \in Seq(Cell) /\ Len(a \o f) = p + n
  BY <1>3, <1>4, Joined
<1>6. ASSUME NEW i \in 1 .. Len(b) PROVE b[i] = (a \o f)[i]
  <2>1. i \in 1 .. Len(a \o f) /\ b[i] = buf[i]
    BY <1>2, <1>4, <1>5
  <2>2. \/ i \in 1 .. Len(a) /\ (a \o f)[i] = a[i]
        \/ i - Len(a) \in 1 .. Len(f) /\ (a \o f)[i] = f[i - Len(a)]
    <3>1. a \in Seq(Cell) /\ f \in Seq(Cell) /\ i \in 1 .. Len(a \o f)
      BY <1>3, <1>4, <2>1
    <3> QED
      BY ONLY <3>1, InJoined
  <2>3. CASE i - p \in 1 .. n /\ (a \o f)[i] = f[i - p]
    <3> DEFINE j == i - p
    <3>1. j \in 1 .. n /\ j \in 1 .. Len(buf) - p /\ p + j = i
      BY <1>1, <1>2, <1>4, <2>3
    <3>2. f[j] = [msg |-> m, at |-> j] /\ buf[p + j] = [msg |-> m, at |-> j]
      BY <1>1, <1>3, <3>1
    <3> QED
      BY <2>1, <2>3, <3>1, <3>2
  <2> QED
    BY <1>3, <1>4, <2>1, <2>2, <2>3
<1>7. b = a \o f
  BY <1>1, <1>2, <1>4, <1>5, <1>6, SameSeq
<1>8. Whole(b) = Whole(a) \o <<m>>
  BY <1>3, <1>4, <1>7, WholeIs
<1>9. buf[q] = [msg |-> m, at |-> n]
  <2>1. n \in 1 .. Len(buf) - p /\ n <= n
    BY <1>1, <1>2
  <2> QED
    BY <1>1, <1>2, <2>1
<1>10. buf[q].msg = m /\ buf[q].at = n
  BY <1>9
<1>11. Ended(b)
  <2>1. LastOf(buf[q])
    BY <1>10 DEF LastOf, n
  <2>2. b[Len(b)] = buf[q]
    BY <1>1, <1>2, <1>4
  <2> QED
    BY <2>1, <2>2 DEF Ended
<1>12. p < q
  BY <1>1, <1>2
<1> QED
  BY <1>1, <1>8, <1>10, <1>11, <1>12 DEF a, b

(* The beginning of a frame, after others.                                 *)
LEMMA NoFrame ==
  ASSUME NEW buf \in Seq(Cell), Framed(buf), NEW p \in 0 .. Len(buf), Ended(First(buf, p)),
         p < Len(buf) => p + Size[buf[p + 1].msg[2]] > Len(buf)
  PROVE  Begun(Rest(buf, p)) /\ Whole(Rest(buf, p)) = << >>
<1> DEFINE b == Rest(buf, p)
<1>1. /\ b \in Seq(Cell) /\ Len(b) = Len(buf) - p /\ \A i \in 1 .. Len(buf) - p : b[i] = buf[p + i]
      /\ Len(buf) \in Nat /\ p \in Nat
  BY Halves
<1> HIDE DEF b
<1>2. CASE b = << >>
  BY <1>1, <1>2, WholeIs DEF b, Begun
<1>3. CASE b # << >>
  <2> DEFINE m == buf[p + 1].msg
             n == Size[m[2]]
  <2>1. p < Len(buf) /\ b[1] = buf[p + 1]
    BY <1>1, <1>3
  <2>2. /\ n \in Nat \ {0}
        /\ \A j \in 1 .. Len(buf) - p : j <= n => buf[p + j] = [msg |-> m, at |-> j]
    BY <1>1, <2>1, FrameAt
  <2>3. p + n > Len(buf)
    BY <2>1
  <2>4. Begun(b)
    BY <1>1, <2>1, <2>2, <2>3 DEF Begun
  <2>5. ASSUME NEW i \in 1 .. Len(b) PROVE ~LastOf(b[i])
    <3>1. i < n /\ b[i] = [msg |-> m, at |-> i]
      <4>1. i \in 1 .. Len(buf) - p /\ b[i] = buf[p + i]
        BY <1>1
      <4> HIDE DEF n
      <4>2. i < n
        BY <1>1, <2>2, <2>3, <4>1
      <4> HIDE DEF m
      <4> QED
        BY <2>2, <4>1, <4>2
    <3>2. b[i].msg = m /\ b[i].at = i
      BY <3>1
    <3> QED
      BY <1>1, <2>2, <3>1, <3>2 DEF LastOf
  <2>6. Whole(b) = << >>
    BY <1>1, <2>5, WholeIs
  <2> QED
    BY <2>4, <2>6 DEF b
<1> QED
  BY <1>2, <1>3

(* Where the frame after p ends, if it is complete.                        *)
After(buf, p) == IF p < Len(buf) /\ p + Size[buf[p + 1].msg[2]] <= Len(buf)
                 THEN p + Size[buf[p + 1].msg[2]] ELSE p
EndTurn(buf, f, n) == IF n = 0 THEN 0 ELSE After(buf, f[n - 1])

(* The recursive function by which Ends is defined exists.                 *)
LEMMA EndsExists ==
  ASSUME NEW buf, NEW r \in Nat
  PROVE  \E f : f = [n \in 0 .. r |-> EndTurn(buf, f, n)]
<1> DEFINE T == {m \in Nat : \E f : f = [n \in 0 .. m |-> EndTurn(buf, f, n)]}
<1>1. 0 \in T
  <2> DEFINE f == [n \in 0 .. 0 |-> 0]
  <2>1. f = [n \in 0 .. 0 |-> EndTurn(buf, f, n)]
    BY DEF EndTurn
  <2> QED
    BY <2>1
<1>2. ASSUME NEW m \in Nat, m \in T PROVE m + 1 \in T
  <2>1. PICK f : f = [n \in 0 .. m |-> EndTurn(buf, f, n)]
    BY <1>2
  <2> DEFINE g == [n \in 0 .. m + 1 |-> IF n = m + 1 THEN EndTurn(buf, f, m + 1) ELSE f[n]]
  <2>2. ASSUME NEW n \in 0 .. m + 1 PROVE g[n] = EndTurn(buf, g, n)
    <3>1. n = 0 \/ n - 1 \in 0 .. m
      OBVIOUS
    <3>2. n # 0 => g[n - 1] = f[n - 1]
      BY <3>1
    <3>3. EndTurn(buf, g, n) = EndTurn(buf, f, n)
      BY <3>2 DEF EndTurn
    <3>4. n # m + 1 => f[n] = EndTurn(buf, f, n)
      BY <2>1
    <3> QED
      BY <3>3, <3>4
  <2>3. g = [n \in 0 .. m + 1 |-> EndTurn(buf, g, n)]
    BY <2>2
  <2> HIDE DEF g
  <2> QED
    BY <2>3
<1> HIDE DEF T
<1>3. 0 .. r \subseteq T
  BY <1>1, <1>2, UpTo
<1>4. r \in T
  BY <1>3
<1> QED
  BY <1>4 DEF T

(* Frame by frame.                                                         *)
LEMMA EndsIs ==
  ASSUME NEW buf \in Seq(Cell)
  PROVE  /\ Ends(buf)[0] = 0
         /\ \A n \in 0 .. Len(buf) - 1 : Ends(buf)[n + 1] = After(buf, Ends(buf)[n])
<1> DEFINE f == CHOOSE g : g = [n \in 0 .. Len(buf) |-> EndTurn(buf, g, n)]
<1>1. Len(buf) \in Nat
  OBVIOUS
<1>2. f = [n \in 0 .. Len(buf) |-> EndTurn(buf, f, n)]
  BY <1>1, EndsExists
<1>3. Ends(buf) = f
  BY DEF Ends, EndTurn, After
<1> HIDE DEF f
<1>4. \A n \in 0 .. Len(buf) : f[n] = EndTurn(buf, f, n)
  BY <1>2
<1>5. f[0] = 0
  BY <1>1, <1>4 DEF EndTurn
<1>6. ASSUME NEW n \in 0 .. Len(buf) - 1 PROVE f[n + 1] = After(buf, f[n])
  <2>1. n + 1 \in 0 .. Len(buf) /\ n + 1 # 0 /\ (n + 1) - 1 = n
    BY <1>1
  <2> QED
    BY <1>4, <2>1 DEF EndTurn
<1> QED
  BY <1>3, <1>5, <1>6

(* The loop takes the messages that are whole, and leaves the beginning of *)
(* one frame.                                                              *)
LEMMA ParseIs ==
  ASSUME NEW buf \in Seq(Cell), Framed(buf)
  PROVE  \E e \in 0 .. Len(buf) :
           /\ Parse(buf).rest = Rest(buf, e) /\ Parse(buf).msgs = Whole(buf)
           /\ Ended(First(buf, e)) /\ Begun(Rest(buf, e))
           /\ Whole(First(buf, e)) = Whole(buf) /\ Whole(Rest(buf, e)) = << >>
<1> DEFINE l == Len(buf)
           E == Ends(buf)
           C == {n \in 0 .. l : n = l \/ E[n + 1] = E[n]}
<1>1. l \in Nat /\ E[0] = 0 /\ \A n \in 0 .. l - 1 : E[n + 1] = After(buf, E[n])
  BY EndsIs
<1> HIDE DEF E, l
<1>2. PICK c \in C : \A n \in C : c <= n
  <2>1. C \in SUBSET Nat /\ l \in C
    BY <1>1
  <2> HIDE DEF C
  <2> QED
    BY <2>1, NatLeast
<1>3. c \in 0 .. l /\ (c = l \/ E[c + 1] = E[c])
  OBVIOUS
<1>4. ASSUME NEW n \in 0 .. c - 1 PROVE n \in 0 .. l - 1 /\ E[n + 1] # E[n]
  BY <1>1, <1>2, <1>3
<1> HIDE DEF C
<1> DEFINE M(n) == [j \in 1 .. n |-> buf[E[j]].msg]
           Good(n) == /\ E[n] \in n .. l /\ Ended(First(buf, E[n]))
                      /\ M(n) \in Seq(Msg) /\ Whole(First(buf, E[n])) = M(n)
                      /\ n # 0 => E[n] > E[n - 1]
           T == {n \in Nat : n <= c => Good(n)}
<1>5. 0 \in T
  <2>1. First(buf, 0) = << >> /\ M(0) = << >> /\ << >> \in Seq(Msg)
    BY DEF First
  <2>2. Ended(<< >>) /\ Whole(<< >>) = << >>
    BY WholeIs DEF Ended
  <2> HIDE DEF M
  <2>3. E[0] \in 0 .. l
    BY <1>1
  <2>4. Ended(First(buf, E[0])) /\ Whole(First(buf, E[0])) = M(0)
    BY <1>1, <2>1, <2>2
  <2>5. Good(0)
    BY <2>1, <2>3, <2>4
  <2> QED
    BY <2>5
<1>6. ASSUME NEW n \in Nat, n < c, n \in T PROVE n + 1 \in T
  <2> DEFINE p == E[n]
             q == E[n + 1]
  <2>1. n \in 0 .. l - 1 /\ q # p /\ q = After(buf, p)
    BY <1>1, <1>3, <1>4, <1>6
  <2>2. Good(n)
    BY <1>3, <1>6
  <2>3. p \in Nat /\ p < Len(buf) /\ q = p + Size[buf[p + 1].msg[2]] /\ q <= Len(buf)
    <3>1. p \in Nat
      BY <1>1, <2>2
    <3> QED
      BY <2>1, <3>1 DEF After
  <2>4. q \in Nat
    <3>1. Size[buf[p + 1].msg[2]] \in Nat \ {0}
      <4>1. Ended(First(buf, p))
        BY <2>2
      <4> HIDE DEF p
      <4> QED
        BY <2>3, <4>1, FrameAt
    <3> HIDE DEF p, q
    <3> QED
      BY <2>3, <3>1
  <2>5. /\ p < q /\ Whole(First(buf, q)) = Whole(First(buf, p)) \o <<buf[q].msg>>
        /\ Ended(First(buf, q)) /\ buf[q].msg \in Msg
    <3>1. Ended(First(buf, p))
      BY <2>2
    <3> HIDE DEF p, q
    <3> QED
      BY <2>3, <2>4, <3>1, OneFrame
  <2>6. M(n + 1) = M(n) \o <<buf[q].msg>> /\ M(n + 1) \in Seq(Msg)
    <3> DEFINE x == M(n)
               y == M(n + 1)
               m == buf[q].msg
    <3>1. x \in Seq(Msg) /\ m \in Msg
      BY <2>2, <2>5
    <3>2. /\ x = [j \in 1 .. n |-> buf[E[j]].msg] /\ y = [j \in 1 .. n + 1 |-> buf[E[j]].msg]
          /\ m = buf[E[n + 1]].msg
      OBVIOUS
    <3> HIDE DEF x, y, m
    <3>3. Len(x) = n /\ (\A j \in 1 .. n : x[j] = y[j] /\ x[j] \in Msg) /\ y[n + 1] = m
      BY <3>1, <3>2
    <3>4. \A j \in 1 .. n + 1 : y[j] \in Msg
      BY <3>1, <3>3
    <3>5. y \in Seq(Msg) /\ Len(y) = n + 1
      BY <3>2, <3>4
    <3>6. y = x \o <<m>>
      <4> DEFINE z == x \o <<m>>
      <4>1. /\ z \in Seq(Msg) /\ Len(z) = n + 1 /\ \A j \in 1 .. n : z[j] = x[j]
            /\ z[n + 1] = m
        BY <3>1, <3>3
      <4> HIDE DEF z
      <4>2. \A j \in 1 .. n + 1 : y[j] = z[j]
        BY <3>3, <4>1
      <4>3. y = z
        BY <3>5, <4>1, <4>2, SameSeq
      <4> QED
        BY <4>3 DEF z
    <3> QED
      BY <3>5, <3>6 DEF x, y, m
  <2>7. q \in n + 1 .. l
    <3>1. p >= n /\ p \in Nat
      BY <1>1, <2>2
    <3>2. q <= l
      BY <2>3 DEF l
    <3> HIDE DEF p, q
    <3> QED
      BY <1>1, <2>4, <2>5, <3>1, <3>2
  <2>8. (n + 1) - 1 = n
    OBVIOUS
  <2>9. Good(n + 1)
    <3>1. Whole(First(buf, q)) = M(n + 1)
      BY <2>2, <2>5, <2>6
    <3>2. E[n + 1] > E[n]
      BY <2>3, <2>4, <2>5
    <3> HIDE DEF M
    <3> QED
      BY <2>5, <2>6, <2>7, <2>8, <3>1, <3>2
  <2> QED
    BY <2>9
<1>7. \A n \in 0 .. c : Good(n)
  <2> HIDE DEF T
  <2>1. 0 .. c \subseteq T
    BY <1>3, <1>5, <1>6, UpTo
  <2> QED
    BY <1>3, <2>1 DEF T
<1> DEFINE e == E[c]
<1>8. /\ e \in 0 .. l /\ e >= c /\ Ended(First(buf, e)) /\ M(c) \in Seq(Msg) /\ Whole(First(buf, e)) = M(c)
  <2>1. Good(c) /\ c \in Nat
    BY <1>1, <1>3, <1>7
  <2> HIDE DEF M
  <2> QED
    BY <1>1, <2>1
<1>9. \A n \in 1 .. c : E[n] > E[n - 1]
  <2> HIDE DEF M
  <2> QED
    BY <1>3, <1>7
<1> HIDE DEF Good, T
<1>10. After(buf, e) = e
  <2>1. CASE c = l
    BY <1>1, <1>3, <1>8, <2>1 DEF After, l
  <2>2. CASE c # l
    BY <1>1, <1>3, <2>2
  <2> QED
    BY <2>1, <2>2
<1>11. \A n \in c .. l : E[n] = e
  <2> DEFINE N == {n \in Nat : c + n <= l => E[c + n] = e}
  <2>1. 0 \in N
    BY <1>3
  <2>2. ASSUME NEW n \in Nat, n < l - c, n \in N PROVE n + 1 \in N
    <3>1. c + n \in 0 .. l - 1 /\ c + (n + 1) = (c + n) + 1 /\ E[c + n] = e
      BY <1>1, <1>3, <2>2
    <3>2. E[(c + n) + 1] = e
      BY <1>1, <1>10, <3>1
    <3> QED
      BY <3>1, <3>2
  <2> HIDE DEF N
  <2>3. 0 .. l - c \subseteq N
    <3>1. l - c \in Nat
      BY <1>1, <1>3
    <3> QED
      BY <2>1, <2>2, <3>1, UpTo
  <2>4. ASSUME NEW n \in c .. l PROVE E[n] = e
    <3>1. n - c \in 0 .. l - c /\ c + (n - c) = n /\ n <= l
      BY <1>1, <1>3
    <3>2. n - c \in N
      BY <2>3, <3>1
    <3> QED
      BY <3>1, <3>2 DEF N
  <2> QED
    BY <2>4
<1>12. Cardinality({n \in 1 .. l : E[n] > E[n - 1]}) = c
  <2>1. ASSUME NEW n \in 1 .. l, n > c PROVE ~(E[n] > E[n - 1])
    <3>1. n \in c .. l /\ n - 1 \in c .. l
      BY <1>1, <1>3, <2>1
    <3>2. E[n] = e /\ E[n - 1] = e /\ e \in Nat
      BY <1>1, <1>8, <1>11, <3>1
    <3> QED
      BY <3>2
  <2>2. {n \in 1 .. l : E[n] > E[n - 1]} = 1 .. c
    BY <1>1, <1>3, <1>9, <2>1
  <2>3. Cardinality(1 .. c) = c
    <3>1. c \in Int /\ 1 \in Int /\ c >= 0
      BY <1>1, <1>3
    <3> QED
      BY <3>1, FS_Interval
  <2> QED
    BY <2>2, <2>3
<1>13. Parse(buf).msgs = M(c) /\ Parse(buf).rest = Rest(buf, e)
  <2>1. E[l] = e
    BY <1>1, <1>3, <1>11
  <2> QED
    BY <1>12, <2>1 DEF Parse, E, l
<1> HIDE DEF M
<1>14. Begun(Rest(buf, e)) /\ Whole(Rest(buf, e)) = << >>
  <2>1. e < Len(buf) => e + Size[buf[e + 1].msg[2]] > Len(buf)
    <3>1. ASSUME e < Len(buf) PROVE e + Size[buf[e + 1].msg[2]] > Len(buf)
      <4>1. e \in Nat /\ Size[buf[e + 1].msg[2]] \in Nat \ {0}
        <5>1. e \in Nat
          BY <1>1, <1>8
        <5> HIDE DEF e
        <5> QED
          BY <1>8, <3>1, <5>1, FrameAt
      <4> HIDE DEF e
      <4> QED
        BY <1>1, <1>10, <3>1, <4>1 DEF After, l
    <3> QED
      BY <3>1
  <2>2. e \in 0 .. Len(buf)
    BY <1>8 DEF l
  <2> HIDE DEF e
  <2> QED
    BY <1>8, <2>1, <2>2, NoFrame
<1>15. Whole(buf) = M(c)
  <2>1. /\ First(buf, e) \in Seq(Cell) /\ Rest(buf, e) \in Seq(Cell)
        /\ First(buf, e) \o Rest(buf, e) = buf
    <3>1. e \in 0 .. Len(buf)
      BY <1>8 DEF l
    <3> HIDE DEF e
    <3> QED
      BY <3>1, Halves
  <2> HIDE DEF e
  <2>2. Whole(buf) = Whole(First(buf, e)) \o Whole(Rest(buf, e))
    BY <2>1, WholeIs
  <2>3. M(c) \o << >> = M(c)
    BY <1>8
  <2> QED
    BY <1>8, <1>14, <2>2, <2>3
<1> HIDE DEF e
<1> QED
  BY <1>8, <1>13, <1>14, <1>15 DEF l

-----------------------------------------------------------------------------
(* Parts of sequences, regrouped.                                          *)

(* The parts of what is joined.                                            *)
LEMMA Parts ==
  ASSUME NEW S, NEW a \in Seq(S), NEW b \in Seq(S)
  PROVE  First(a \o b, Len(a)) = a /\ Rest(a \o b, Len(a)) = b
<1>1. /\ a \o b \in Seq(S) /\ Len(a) \in Nat /\ Len(b) \in Nat /\ Len(a \o b) = Len(a) + Len(b)
      /\ \A i \in 1 .. Len(a) : (a \o b)[i] = a[i]
      /\ \A i \in 1 .. Len(b) : (a \o b)[Len(a) + i] = b[i]
  BY Joined
<1> DEFINE c == a \o b
           n == Len(a)
<1>2. c \in Seq(S) /\ n \in 0 .. Len(c)
  BY <1>1
<1> HIDE DEF c, n
<1>3. /\ First(c, n) \in Seq(S) /\ Len(First(c, n)) = n
      /\ \A i \in 1 .. n : First(c, n)[i] = c[i]
      /\ Rest(c, n) \in Seq(S) /\ Len(Rest(c, n)) = Len(c) - n
      /\ \A i \in 1 .. Len(c) - n : Rest(c, n)[i] = c[n + i]
  BY <1>2, Halves
<1>4. First(c, n) = a
  BY <1>1, <1>3, SameSeq DEF c, n
<1>5. Rest(c, n) = b
  <2>1. Len(c) - n = Len(b)
    BY <1>1 DEF c, n
  <2>2. \A i \in 1 .. Len(b) : Rest(c, n)[i] = b[i]
    BY <1>1, <1>3, <2>1 DEF c, n
  <2> QED
    BY <1>3, <2>1, <2>2, SameSeq
<1> QED
  BY <1>4, <1>5 DEF c, n

(* The first k of what is joined, within its first part and beyond it.     *)
LEMMA FirstOfJoined ==
  ASSUME NEW S, NEW a \in Seq(S), NEW b \in Seq(S), NEW k \in 0 .. Len(a) + Len(b)
  PROVE  /\ k <= Len(a) => First(a \o b, k) = First(a, k)
         /\ k > Len(a) => First(a \o b, k) = a \o First(b, k - Len(a))
<1> DEFINE c == a \o b
<1>1. /\ c \in Seq(S) /\ Len(a) \in Nat /\ Len(b) \in Nat /\ Len(c) = Len(a) + Len(b)
      /\ \A i \in 1 .. Len(a) : c[i] = a[i]
      /\ \A i \in 1 .. Len(b) : c[Len(a) + i] = b[i]
  BY Joined
<1> HIDE DEF c
<1>2. /\ First(c, k) \in Seq(S) /\ Len(First(c, k)) = k /\ \A i \in 1 .. k : First(c, k)[i] = c[i]
  <2>1. c \in Seq(S) /\ k \in 0 .. Len(c)
    BY <1>1
  <2> QED
    BY ONLY <2>1, Halves
<1>3. ASSUME k <= Len(a) PROVE First(c, k) = First(a, k)
  <2>1. /\ First(a, k) \in Seq(S) /\ Len(First(a, k)) = k /\ \A i \in 1 .. k : First(a, k)[i] = a[i]
    BY <1>1, <1>3, Halves
  <2>2. \A i \in 1 .. k : First(c, k)[i] = First(a, k)[i]
    <3>1. \A i \in 1 .. k : i \in 1 .. Len(a)
      BY <1>1, <1>3
    <3> QED
      BY <1>1, <1>2, <2>1, <3>1
  <2> QED
    BY <1>2, <2>1, <2>2, SameSeq
<1>4. ASSUME k > Len(a) PROVE First(c, k) = a \o First(b, k - Len(a))
  <2> DEFINE j == k - Len(a)
             f == First(b, j)
             d == a \o f
  <2>1. j \in 0 .. Len(b) /\ k = Len(a) + j
    BY <1>1, <1>4
  <2> HIDE DEF j
  <2>2. f \in Seq(S) /\ Len(f) = j /\ \A i \in 1 .. j : f[i] = b[i]
    BY <2>1, Halves
  <2> HIDE DEF f
  <2>3. d \in Seq(S) /\ Len(d) = k /\ \A i \in 1 .. Len(a) : d[i] = a[i]
    <3>1. d \in Seq(S) /\ Len(d) = Len(a) + Len(f) /\ \A i \in 1 .. Len(a) : d[i] = a[i]
      BY <2>2, Joined
    <3> QED
      BY <2>1, <2>2, <3>1
  <2>4. \A h \in 1 .. j : d[Len(a) + h] = f[h]
    BY <2>2, Joined
  <2> HIDE DEF d
  <2>5. ASSUME NEW i \in 1 .. k PROVE First(c, k)[i] = d[i]
    <3>1. CASE i <= Len(a)
      BY <1>1, <1>2, <2>3, <3>1
    <3>2. CASE i > Len(a)
      <4>1. i - Len(a) \in 1 .. j /\ Len(a) + (i - Len(a)) = i /\ i - Len(a) \in 1 .. Len(b)
        BY <1>1, <2>1, <3>2
      <4>2. c[Len(a) + (i - Len(a))] = b[i - Len(a)] /\ d[Len(a) + (i - Len(a))] = f[i - Len(a)]
        BY <1>1, <2>4, <4>1
      <4> QED
        BY <1>2, <2>2, <4>1, <4>2
    <3> QED
      BY <1>1, <3>1, <3>2
  <2>6. First(c, k) = d
    BY <1>2, <2>3, <2>5, SameSeq
  <2> QED
    BY <2>6 DEF d, f, j
<1> QED
  BY <1>3, <1>4 DEF c

(* The bytes on their way.                                                 *)
LEMMA CellsIs ==
  ASSUME NEW x \in Seq(Packet), NEW y \in Seq(Packet)
  PROVE  /\ Cells(x) \in Seq(Cell) /\ Len(Cells(x)) = Len(x) /\ \A i \in 1 .. Len(x) : Cells(x)[i] = x[i].cell
         /\ Cells(x \o y) = Cells(x) \o Cells(y)
<1>1. ASSUME NEW z \in Seq(Packet)
      PROVE  Cells(z) \in Seq(Cell) /\ Len(Cells(z)) = Len(z) /\ \A i \in 1 .. Len(z) : Cells(z)[i] = z[i].cell
  <2>1. Len(z) \in Nat /\ DOMAIN z = 1 .. Len(z) /\ \A i \in 1 .. Len(z) : z[i] \in Packet
    OBVIOUS
  <2>2. \A i \in 1 .. Len(z) : z[i].cell \in Cell
    BY <2>1 DEF Packet
  <2>3. Cells(z) = [i \in 1 .. Len(z) |-> z[i].cell]
    BY <2>1 DEF Cells
  <2> QED
    BY <2>1, <2>2, <2>3
<1>2. x \o y \in Seq(Packet) /\ Len(x) \in Nat /\ Len(y) \in Nat /\ Len(x \o y) = Len(x) + Len(y)
  BY Joined
<1> DEFINE a == Cells(x)
           b == Cells(y)
           c == Cells(x \o y)
<1>3. /\ a \in Seq(Cell) /\ Len(a) = Len(x) /\ \A i \in 1 .. Len(x) : a[i] = x[i].cell
      /\ b \in Seq(Cell) /\ Len(b) = Len(y) /\ \A i \in 1 .. Len(y) : b[i] = y[i].cell
      /\ c \in Seq(Cell) /\ Len(c) = Len(x \o y) /\ \A i \in 1 .. Len(x \o y) : c[i] = (x \o y)[i].cell
  BY <1>1, <1>2
<1> HIDE DEF a, b, c
<1>4. a \o b \in Seq(Cell) /\ Len(a \o b) = Len(a) + Len(b)
  BY <1>3, Joined
<1>5. ASSUME NEW i \in 1 .. Len(c) PROVE c[i] = (a \o b)[i]
  <2>1. i \in 1 .. Len(x \o y) /\ i \in 1 .. Len(a \o b)
    BY <1>2, <1>3, <1>4
  <2>2. CASE i \in 1 .. Len(x)
    BY <1>2, <1>3, <2>1, <2>2
  <2>3. CASE ~(i \in 1 .. Len(x))
    <3>1. i - Len(x) \in 1 .. Len(y) /\ (x \o y)[i] = y[i - Len(x)]
      BY <1>2, <2>1, <2>3
    <3>2. (a \o b)[i] = b[i - Len(x)]
      BY <1>2, <1>3, <2>1, <2>3
    <3> QED
      BY <1>3, <2>1, <3>1, <3>2
  <2> QED
    BY <2>2, <2>3
<1>6. c = a \o b
  BY <1>2, <1>3, <1>4, <1>5, SameSeq
<1> QED
  BY <1>3, <1>6 DEF a, b, c

(* Frames in two parts.                                                    *)
LEMMA FramedParts ==
  ASSUME NEW a \in Seq(Cell), NEW b \in Seq(Cell), Framed(a \o b)
  PROVE  /\ Framed(a)
         /\ Ended(a) => Framed(b) /\ (Ended(a \o b) => Ended(b))
<1> DEFINE c == a \o b
           n == Len(a)
<1>1. c \in Seq(Cell) /\ n \in 0 .. Len(c)
  BY Joined
<1>2. First(c, n) = a /\ Rest(c, n) = b
  BY Parts
<1> HIDE DEF n
<1>3. /\ Framed(First(c, n))
      /\ Ended(First(c, n)) => Framed(Rest(c, n)) /\ (Ended(c) => Ended(Rest(c, n)))
  <2> HIDE DEF c
  <2> QED
    BY <1>1, FramedHalves DEF c
<1> QED
  BY <1>2, <1>3

(* What a read makes of frames a and what follows them, b.                 *)
LEMMA ReadIs ==
  ASSUME NEW a \in Seq(Cell), NEW b \in Seq(Cell), Framed(a \o b)
  PROVE  /\ Parse(a).rest \in Seq(Cell) /\ Parse(a).msgs \in Seq(Msg) /\ Parse(a).msgs = Whole(a)
         /\ Len(Parse(a).rest) <= Len(a) /\ Begun(Parse(a).rest) /\ Whole(Parse(a).rest) = << >>
         /\ Framed(Parse(a).rest \o b) /\ (Ended(a \o b) => Ended(Parse(a).rest \o b))
         /\ Whole(a \o b) = Parse(a).msgs \o Whole(Parse(a).rest \o b)
         /\ \E f \in Seq(Cell) : a \o b = f \o (Parse(a).rest \o b)
<1>1. Framed(a)
  BY FramedParts
<1>2. PICK e \in 0 .. Len(a) :
        /\ Parse(a).rest = Rest(a, e) /\ Parse(a).msgs = Whole(a)
        /\ Ended(First(a, e)) /\ Begun(Rest(a, e))
        /\ Whole(First(a, e)) = Whole(a) /\ Whole(Rest(a, e)) = << >>
  BY <1>1, ParseIs
<1> DEFINE f == First(a, e)
           r == Rest(a, e)
<1>3. f \in Seq(Cell) /\ r \in Seq(Cell) /\ Len(r) = Len(a) - e /\ f \o r = a
  BY Halves
<1>4. Ended(f) /\ Begun(r) /\ Whole(f) = Whole(a) /\ Whole(r) = << >>
  BY <1>2
<1> HIDE DEF f, r
<1>5. r \o b \in Seq(Cell) /\ f \o (r \o b) = a \o b
  <2>1. (f \o r) \o b = f \o (r \o b)
    <3>1. f \in Seq(Cell) /\ r \in Seq(Cell) /\ b \in Seq(Cell)
      BY <1>3
    <3> QED
      BY ONLY <3>1, ConcatAssociative
  <2> QED
    BY <1>3, <2>1, Joined
<1>6. Framed(r \o b) /\ (Ended(a \o b) => Ended(r \o b))
  <2> DEFINE g == r \o b
  <2>1. g \in Seq(Cell) /\ Framed(f \o g) /\ f \o g = a \o b
    BY <1>5
  <2> HIDE DEF g
  <2>2. Framed(g) /\ (Ended(f \o g) => Ended(g))
    BY <1>3, <1>4, <2>1, FramedParts
  <2> QED
    BY <2>1, <2>2 DEF g
<1>7. Whole(a \o b) = Whole(a) \o Whole(r \o b) /\ Whole(a) \in Seq(Msg)
  <2>1. Whole(f \o (r \o b)) = Whole(f) \o Whole(r \o b)
    BY <1>3, <1>5, WholeIs
  <2>2. Whole(a) \in Seq(Msg)
    BY WholeIs
  <2> QED
    BY <1>4, <1>5, <2>1, <2>2
<1>8. Len(r) <= Len(a)
  <2>1. Len(a) \in Nat
    OBVIOUS
  <2> QED
    BY <1>3, <2>1
<1>9. Parse(a).rest = r /\ Parse(a).msgs = Whole(a)
  BY <1>2 DEF r
<1>10. \E g \in Seq(Cell) : a \o b = g \o (r \o b)
  BY <1>3, <1>5
<1> QED
  BY <1>3, <1>4, <1>6, <1>7, <1>8, <1>9, <1>10
=============================================================================
