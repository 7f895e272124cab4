---------------------------- MODULE ServerSafety ----------------------------
(***************************************************************************)
(* The safety properties of the server, for any number of clients and      *)
(* workers, any limit on the streams and any set of faults: tokens and     *)
(* types first; then, from the inductive invariant, the streams and their  *)
(* tokens, and what is with the workers.                                   *)
(***************************************************************************)
EXTENDS ServerInv, FiniteSetTheorems, WellFoundedInduction, TLAPS

-----------------------------------------------------------------------------
(* Tokens.  Only the lemmas of this part look inside them.                 *)

(* Quotient and remainder are what they are built from.                    *)
LEMMA DivUnique ==
  ASSUME NEW n \in Nat \ {0}, NEW s \in Nat, NEW m \in Nat, m < n
  PROVE  (s * n + m) \div n = s /\ (s * n + m) % n = m
<1> DEFINE x == s * n + m
           q == x \div n
           r == x % n
<1>1. x \in Nat /\ q \in Int /\ r \in Int
  OBVIOUS
<1>2. x = n * q + r /\ 0 <= r /\ r < n
  OBVIOUS
<1>3. s * n + m = q * n + r
  BY <1>1, <1>2
<1> HIDE DEF x, q, r
<1>4. q <= s
  <2>1. SUFFICES ASSUME q >= s + 1 PROVE FALSE
    BY <1>1
  <2>2. (q - s) * n >= n
    BY <1>1, <2>1
  <2> QED
    BY <1>1, <1>2, <1>3, <2>2
<1>5. s <= q
  <2>1. SUFFICES ASSUME s >= q + 1 PROVE FALSE
    BY <1>1
  <2>2. (s - q) * n >= n
    BY <1>1, <2>1
  <2> QED
    BY <1>1, <1>2, <1>3, <2>2
<1>6. q = s
  BY <1>1, <1>4, <1>5
<1>7. r = m
  BY <1>1, <1>3, <1>6
<1> QED
  BY <1>6, <1>7 DEF q, r, x

(* There is a number of clients.                                           *)
LEMMA Clients == Cardinality(Client) \in Nat
BY FS_CardinalityType, ServerAssumption

(* A token says which stream it is of, and how often that was kept alive.  *)
LEMMA TokenParts ==
  ASSUME NEW s \in Nat, NEW r \in 0 .. KeepAliveBound
  PROVE  TokenOf(s, r) \in Nat /\ Number(TokenOf(s, r)) = s /\ Round(TokenOf(s, r)) = r
<1> DEFINE n == NEW_STREAM_COUNT_INC
           k == KEEP_ALIVE_COUNT_INC
           m == r * k
<1>1. n \in Nat \ {0} /\ k \in Nat \ {0} /\ m \in Nat /\ r \in Nat
  BY ServerAssumption
<1>2. m < n
  <2>1. (KeepAliveBound - r) * k >= 0
    BY ServerAssumption
  <2> QED
    BY <2>1, ServerAssumption
<1>3. (s * n + m) \div n = s /\ (s * n + m) % n = m
  BY <1>1, <1>2, DivUnique
<1>4. (r * k + 0) \div k = r
  BY <1>1, DivUnique
<1>5. m \div k = r
  BY <1>1, <1>4
<1> QED
  BY <1>1, <1>3, <1>5 DEF Number, Round, TokenOf

(* The tokens of streams are made of these.                                *)
LEMMA TokenMade ==
  ASSUME NEW tk \in StreamToken
  PROVE  \E s \in 1 .. Cardinality(Client), r \in 0 .. KeepAliveBound :
           tk = TokenOf(s, r) /\ Number(tk) = s /\ Round(tk) = r /\ tk \in Nat
<1>1. PICK s \in 1 .. Cardinality(Client), r \in 0 .. KeepAliveBound : tk = TokenOf(s, r)
  BY DEF StreamToken, TokenOf
<1>2. s \in Nat
  BY Clients
<1> QED
  BY <1>1, <1>2, TokenParts

(* What TokenOf makes of a stream and a number of rounds in range is one   *)
(* of the tokens that TypeOK allows.                                       *)
LEMMA MadeToken ==
  ASSUME NEW s \in 1 .. Cardinality(Client), NEW r \in 0 .. KeepAliveBound
  PROVE  TokenOf(s, r) \in StreamToken
BY DEF StreamToken, TokenOf

(* They are neither the server's nor the workers'.                         *)
LEMMA TokenRange ==
  ASSUME NEW tk \in StreamToken
  PROVE  /\ tk \in Nat /\ Number(tk) \in 1 .. Cardinality(Client)
         /\ tk \notin Worker /\ tk # SERVER_TOKEN
<1>1. PICK s \in 1 .. Cardinality(Client), r \in 0 .. KeepAliveBound :
        tk = TokenOf(s, r) /\ Number(tk) = s /\ tk \in Nat
  BY TokenMade
<1>2. s \in Nat /\ s >= 1 /\ r \in Nat
  BY Clients, ServerAssumption
<1>3. tk > NumWorkers
  <2>1. (s - 1) * NEW_STREAM_COUNT_INC >= 0
    BY <1>2, ServerAssumption
  <2>2. r * KEEP_ALIVE_COUNT_INC >= 0
    BY <1>2, ServerAssumption
  <2>3. tk = s * NEW_STREAM_COUNT_INC + r * KEEP_ALIVE_COUNT_INC
    BY <1>1 DEF TokenOf
  <2> QED
    BY <1>2, <2>1, <2>2, <2>3, ServerAssumption
<1> QED
  BY <1>1, <1>3, ServerAssumption DEF Worker, SERVER_TOKEN

(* The first token of a stream.                                            *)
LEMMA FirstToken ==
  ASSUME NEW s \in 1 .. Cardinality(Client)
  PROVE  s * NEW_STREAM_COUNT_INC \in StreamToken /\ Number(s * NEW_STREAM_COUNT_INC) = s
<1>1. s \in Nat /\ 0 \in 0 .. KeepAliveBound
  BY Clients, ServerAssumption
<1>2. TokenOf(s, 0) = s * NEW_STREAM_COUNT_INC
  BY <1>1, ServerAssumption DEF TokenOf
<1>3. TokenOf(s, 0) \in StreamToken
  BY <1>1, MadeToken
<1>4. Number(TokenOf(s, 0)) = s
  BY <1>1, TokenParts
<1> QED
  BY <1>2, <1>3, <1>4

(* Its next one, which is another of the same stream.                      *)
LEMMA NextToken ==
  ASSUME NEW tk \in StreamToken, Round(tk) < KeepAliveBound
  PROVE  /\ tk + KEEP_ALIVE_COUNT_INC \in StreamToken
         /\ Number(tk + KEEP_ALIVE_COUNT_INC) = Number(tk)
         /\ tk + KEEP_ALIVE_COUNT_INC # tk
<1>1. PICK s \in 1 .. Cardinality(Client), r \in 0 .. KeepAliveBound :
        tk = TokenOf(s, r) /\ Number(tk) = s /\ Round(tk) = r /\ tk \in Nat
  BY TokenMade
<1>2. s \in Nat /\ r \in Nat
  BY Clients, ServerAssumption
<1>3. r + 1 \in 0 .. KeepAliveBound
  BY <1>1, <1>2, ServerAssumption
<1>4. tk + KEEP_ALIVE_COUNT_INC = TokenOf(s, r + 1)
  <2>1. (r + 1) * KEEP_ALIVE_COUNT_INC = r * KEEP_ALIVE_COUNT_INC + KEEP_ALIVE_COUNT_INC
    BY <1>2, ServerAssumption
  <2> QED
    BY <1>1, <1>2, <2>1, ServerAssumption DEF TokenOf
<1>5. TokenOf(s, r + 1) \in StreamToken
  BY <1>3, MadeToken
<1>6. Number(TokenOf(s, r + 1)) = s
  BY <1>2, <1>3, TokenParts
<1> QED
  BY <1>1, <1>4, <1>5, <1>6, ServerAssumption

(* A function takes no more values than it has arguments.                  *)
LEMMA ImageFinite ==
  ASSUME NEW D, NEW f, f = [x \in D |-> f[x]], IsFiniteSet(D)
  PROVE  /\ IsFiniteSet({f[x] : x \in D})
         /\ Cardinality({f[x] : x \in D}) <= Cardinality(D)
<1>1. f \in Surjection(D, {f[x] : x \in D})
  BY DEF Surjection
<1> QED
  BY <1>1, FS_Surjection

(* There are finitely many tokens.                                         *)
LEMMA StreamTokenFinite == IsFiniteSet(StreamToken)
<1> DEFINE S == 1 .. Cardinality(Client)
           R == 0 .. KeepAliveBound
           f == [p \in S \X R |-> TokenOf(p[1], p[2])]
<1>1. IsFiniteSet(S \X R)
  <2>1. IsFiniteSet(S) /\ IsFiniteSet(R)
    BY Clients, ServerAssumption, FS_Interval
  <2> QED
    BY <2>1, FS_Product
<1>2. f \in Surjection(S \X R, StreamToken)
  <2>1. \A p \in S \X R : f[p] \in StreamToken
    BY MadeToken
  <2>2. ASSUME NEW tk \in StreamToken PROVE \E p \in S \X R : f[p] = tk
    <3>1. PICK s \in S, r \in R : tk = TokenOf(s, r)
      BY TokenMade
    <3>2. <<s, r>> \in S \X R /\ f[<<s, r>>] = tk
      BY <3>1
    <3> QED
      BY <3>2
  <2> QED
    BY <2>1, <2>2 DEF Surjection
<1> HIDE DEF f, S, R
<1> QED
  BY <1>1, <1>2, FS_Surjection

-----------------------------------------------------------------------------
(* The maps from tokens to streams.                                        *)

(* HashMap::insert adds one key and leaves the values of the others        *)
(* (server/mod.rs:114,164,176).                                            *)
LEMMA InsertIs ==
  ASSUME NEW map, NEW tk, NEW c
  PROVE  /\ DOMAIN Insert(map, tk, c) = DOMAIN map \cup {tk}
         /\ \A k \in DOMAIN map \cup {tk} : Insert(map, tk, c)[k] = IF k = tk THEN c ELSE map[k]
BY DEF Insert

(* HashMap::remove takes one key and leaves the values of the others       *)
(* (server/mod.rs:95,120,169).                                             *)
LEMMA RemoveIs ==
  ASSUME NEW map, NEW tk
  PROVE  /\ DOMAIN Remove(map, tk) = DOMAIN map \ {tk}
         /\ \A k \in DOMAIN map \ {tk} : Remove(map, tk)[k] = map[k]
BY DEF Remove

(* The type of a map.                                                      *)
MapOK(map) == map \in [DOMAIN map -> Client] /\ DOMAIN map \subseteq StreamToken

(* Neither spoils the type of a map.                                       *)
LEMMA MapTypes ==
  ASSUME NEW map, MapOK(map), NEW tk
  PROVE  /\ MapOK(Remove(map, tk))
         /\ \A c \in Client : tk \in StreamToken => MapOK(Insert(map, tk, c))
<1>1. Remove(map, tk) \in [DOMAIN map \ {tk} -> Client]
  BY DEF MapOK, Remove
<1>2. MapOK(Remove(map, tk))
  BY <1>1, RemoveIs DEF MapOK
<1>3. ASSUME NEW c \in Client, tk \in StreamToken PROVE MapOK(Insert(map, tk, c))
  <2>1. Insert(map, tk, c) \in [DOMAIN map \cup {tk} -> Client]
    BY <1>3 DEF MapOK, Insert
  <2> QED
    BY <1>3, <2>1, InsertIs DEF MapOK
<1> QED
  BY <1>2, <1>3

(* The empty map has no key.                                               *)
LEMMA EmptyIs == DOMAIN << >> = {} /\ << >> \in [{} -> Client]
OBVIOUS

(* What is with a worker, stage by stage.                                  *)
LEMMA Union6 ==
  ASSUME NEW s1, NEW s2, NEW s3, NEW s4, NEW s5, NEW s6
  PROVE  UNION {<<s1, s2, s3, s4, s5, s6>>[i] : i \in 1 .. 6}
           = s1 \cup s2 \cup s3 \cup s4 \cup s5 \cup s6
<1> DEFINE t == <<s1, s2, s3, s4, s5, s6>>
<1>1. t[1] = s1 /\ t[2] = s2 /\ t[3] = s3 /\ t[4] = s4 /\ t[5] = s5 /\ t[6] = s6
  OBVIOUS
<1>2. 1 .. 6 = {1, 2, 3, 4, 5, 6}
  OBVIOUS
<1> HIDE DEF t
<1>3. UNION {t[i] : i \in 1 .. 6} = t[1] \cup t[2] \cup t[3] \cup t[4] \cup t[5] \cup t[6]
  BY <1>2
<1> QED
  BY <1>1, <1>3 DEF t

(* The six stages of a request that is with a worker, as a plain union.    *)
LEMMA WithIs ==
  ASSUME NEW w \in Worker
  PROVE  With(w) = to_send[w] \cup unix_out[w] \cup held[w] \cup {a[1] : a \in unix_back[w]}
                     \cup stream_tks[w] \cup stream_close_tks[w]
BY Union6 DEF With, Stages

(* The same after a step.                                                  *)
LEMMA WithIsNext ==
  ASSUME NEW w \in Worker
  PROVE  With(w)' = to_send'[w] \cup unix_out'[w] \cup held'[w] \cup {a[1] : a \in unix_back'[w]}
                      \cup stream_tks'[w] \cup stream_close_tks'[w]
BY Union6 DEF With, Stages

(* An answer on the way says to keep the stream or to close it.            *)
LEMMA PairsFirst ==
  ASSUME NEW A \in SUBSET (StreamToken \X BOOLEAN), NEW tk
  PROVE  tk \in {a[1] : a \in A} <=> <<tk, TRUE>> \in A \/ <<tk, FALSE>> \in A
<1>1. ASSUME NEW a \in A, a[1] = tk PROVE <<tk, TRUE>> \in A \/ <<tk, FALSE>> \in A
  <2>1. a = <<a[1], a[2]>> /\ a[2] \in BOOLEAN
    OBVIOUS
  <2>2. a = <<tk, a[2]>> /\ (a[2] = TRUE \/ a[2] = FALSE)
    BY <1>1, <2>1
  <2> QED
    BY <2>2
<1>2. ASSUME NEW b \in BOOLEAN, <<tk, b>> \in A PROVE tk \in {a[1] : a \in A}
  <2>1. <<tk, b>>[1] = tk
    OBVIOUS
  <2> QED
    BY <1>2, <2>1
<1> QED
  BY <1>1, <1>2

(* With, token by token.                                                   *)
LEMMA WithMember ==
  ASSUME TypeOK, NEW w \in Worker
  PROVE  \A tk : tk \in With(w) <=> IsWith(tk, w)
<1>1. unix_back[w] \in SUBSET (StreamToken \X BOOLEAN)
  BY DEF TypeOK
<1> QED
  BY <1>1, PairsFirst, WithIs DEF IsWith, Answered

(* The same after a step.                                                  *)
LEMMA WithMemberNext ==
  ASSUME TypeOK', NEW w \in Worker
  PROVE  \A tk : tk \in With(w)' <=> IsWith(tk, w)'
<1>1. unix_back'[w] \in SUBSET (StreamToken \X BOOLEAN)
  BY DEF TypeOK
<1> QED
  BY <1>1, PairsFirst, WithIsNext DEF IsWith, Answered

(* What is with a worker can be counted.                                   *)
LEMMA WithFinite ==
  ASSUME TypeOK, NEW w \in Worker
  PROVE  With(w) \subseteq StreamToken /\ IsFiniteSet(With(w)) /\ Cardinality(With(w)) \in Nat
<1>1. ASSUME NEW tk, IsWith(tk, w) PROVE tk \in StreamToken
  BY <1>1 DEF TypeOK, IsWith, Answered
<1>2. With(w) \subseteq StreamToken
  BY <1>1, WithMember
<1>3. IsFiniteSet(With(w))
  BY <1>2, StreamTokenFinite, FS_Subset
<1> QED
  BY <1>2, <1>3, FS_CardinalityType

-----------------------------------------------------------------------------
(* Types.                                                                  *)

(* A worker that has a request has a load to lower.                        *)
LEMMA LoadPositive ==
  ASSUME TypeOK, LoadCounted, Up, NEW w \in Worker, NEW tk, IsWith(tk, w)
  PROVE  num_reqs[w] - 1 \in Nat
<1>1. tk \in With(w)
  BY WithMember
<1>2. Cardinality(With(w)) # 0
  BY <1>1, WithFinite, FS_EmptySet
<1> QED
  BY <1>2, WithFinite DEF LoadCounted

(* While a stream waits to be accepted the count can be raised.            *)
LEMMA CountRises ==
  ASSUME TypeOK, AcceptInv, NEW c \in Client, client[c] = "backlog"
  PROVE  stream_count + 1 \in 1 .. Cardinality(Client)
<1>1. IsFiniteSet(Client)
  BY ServerAssumption
<1>2. Accepted \subseteq Client \ {c}
  BY DEF Accepted
<1>3. IsFiniteSet(Client \ {c}) /\ Cardinality(Client \ {c}) = Cardinality(Client) - 1
  BY <1>1, FS_RemoveElement
<1>4. Cardinality(Accepted) <= Cardinality(Client \ {c})
  BY <1>2, <1>3, FS_Subset
<1>5. stream_count \in Nat /\ stream_count <= Cardinality(Client) - 1
  BY <1>3, <1>4, Clients DEF AcceptInv, TypeOK
<1> QED
  BY <1>5, Clients

(* Closing streams keeps the type of the clients' states.                  *)
LEMMA CloseType ==
  ASSUME TypeOK, NEW S, Close(S)
  PROVE  client' \in [Client -> {"new", "backlog", "open", "closed"}]
BY DEF TypeOK, Close

(* What is read or written at once is part of what there is.               *)
LEMMA AtMostSubset ==
  ASSUME NEW n, NEW S, NEW T \in AtMost(n, S)
  PROVE  T \subseteq S
BY DEF AtMost

(* A set of numbers has a least one: dispatch finds a worker               *)
(* (unixstreams.rs:192-201).                                               *)
LEMMA NatLeast ==
  ASSUME NEW T \in SUBSET Nat, T # {}
  PROVE  \E m \in T : \A n \in T : m <= n
<1>1. PICK m \in T : \A n \in T : <<n, m>> \notin OpToRel(<, Nat)
  BY NatLessThanWellFounded, WFMin
<1>2. ASSUME NEW n \in T PROVE m <= n
  <2>1. ~(n < m)
    BY <1>1 DEF OpToRel
  <2> QED
    BY <2>1
<1> QED
  BY <1>2

(* There is a worker with the fewest requests, whatever the counts.        *)
LEMMA LeastIsWorker ==
  ASSUME TypeOK
  PROVE  LeastLoaded \in Worker
<1> DEFINE Counts == {num_reqs[w] : w \in Worker}
<1>1. 1 \in Worker /\ Worker \in SUBSET Nat
  BY ServerAssumption DEF Worker
<1>2. Counts \in SUBSET Nat /\ num_reqs[1] \in Counts
  BY <1>1 DEF TypeOK
<1>3. PICK m \in Counts : \A n \in Counts : m <= n
  BY <1>2, NatLeast
<1> DEFINE Least == {w \in Worker : num_reqs[w] = m}
<1>4. Least \in SUBSET Nat /\ Least # {}
  BY <1>1, <1>3
<1>5. PICK w \in Least : \A v \in Least : w <= v
  BY <1>4, NatLeast
<1>6. w \in Worker /\ num_reqs[w] = m
  BY <1>5
<1>7. ASSUME NEW v \in Worker
      PROVE  num_reqs[w] < num_reqs[v] \/ (num_reqs[w] = num_reqs[v] /\ w <= v)
  <2>1. m <= num_reqs[v] /\ num_reqs[v] \in Nat /\ m \in Nat
    BY <1>2, <1>3
  <2>2. CASE num_reqs[v] = m
    BY <1>5, <1>6, <2>2
  <2>3. CASE num_reqs[v] # m
    BY <1>6, <2>1, <2>3
  <2> QED
    BY <2>2, <2>3
<1> QED
  BY <1>6, <1>7 DEF LeastLoaded

(* Every step keeps the types: a token that is made is one of a stream     *)
(* because of KeepInv and AcceptInv, a count that is lowered was positive  *)
(* because of WorkInv and LoadCounted.                                     *)
LEMMA TypeStep == IInv /\ [Next]_vars => TypeOK'
<1> SUFFICES ASSUME IInv, [Next]_vars PROVE TypeOK'
  OBVIOUS
<1>i. TypeOK /\ AcceptInv /\ WorkInv /\ KeepInv /\ LoadCounted
  BY DEF IInv
<1>t. TypeOK
  BY <1>i
<1>m. MapOK(reading) /\ MapOK(processing)
  BY <1>t DEF TypeOK, MapOK
<1> USE DEF clientVars, mapVars, unixVars, workerVars, sigVars
<1>0. CASE UNCHANGED vars
  BY <1>t, <1>0 DEF vars, TypeOK
<1>1. CASE Exit
  <2>1. client' \in [Client -> {"new", "backlog", "open", "closed"}]
    BY <1>t, <1>1, CloseType DEF Exit, TypeOK
  <2>2. processing' \in [DOMAIN processing' -> Client] /\ DOMAIN processing' \subseteq StreamToken
    BY <1>t, <1>1, EmptyIs DEF Exit, TypeOK
  <2> QED
    BY <1>t, <1>1, <2>1, <2>2 DEF Exit, TypeOK, Stopped
<1>2. CASE Reregister
  BY <1>t, <1>2 DEF Reregister, Wanted, TypeOK, Condition
<1>3. CASE StartPoll
  BY <1>t, <1>3 DEF StartPoll, TypeOK
<1>4. CASE Accept
  <2>1. PICK c \in Client :
          /\ client[c] = "backlog" /\ stream_count' = stream_count + 1
          /\ LET tk == (stream_count + 1) * NEW_STREAM_COUNT_INC
             IN \/ Close({c}) /\ UNCHANGED reading
                \/ /\ reading' = Insert(reading, tk, c)
                   /\ client' = [d \in Client |->
                        IF d = c THEN "open"
                        ELSE IF tk \in DOMAIN reading /\ d = reading[tk] THEN "closed" ELSE client[d]]
    BY <1>4 DEF Accept
  <2>2. stream_count + 1 \in 1 .. Cardinality(Client)
    BY <1>i, <2>1, CountRises
  <2>3. (stream_count + 1) * NEW_STREAM_COUNT_INC \in StreamToken
    BY <2>2, FirstToken
  <2>4. client' \in [Client -> {"new", "backlog", "open", "closed"}]
    BY <1>t, <2>1, CloseType DEF TypeOK
  <2>5. reading' \in [DOMAIN reading' -> Client] /\ DOMAIN reading' \subseteq StreamToken
    BY <1>m, <2>1, <2>3, MapTypes DEF MapOK
  <2> QED
    BY <1>t, <1>4, <2>1, <2>2, <2>4, <2>5, Clients DEF Accept, TakeEvent, TypeOK
<1>5. CASE AcceptFails
  BY <1>t, <1>5 DEF AcceptFails, TakeEvent, TypeOK
<1>6. CASE EndRound
  BY <1>t, <1>6 DEF EndRound, TypeOK
<1>7. ASSUME NEW w \in Worker, NEW tk \in stream_tks[w], KeepAlive(w, tk) PROVE TypeOK'
  <2>1. tk \in StreamToken /\ Round(tk) < KeepAliveBound
    BY <1>i DEF KeepInv, TypeOK
  <2>2. num_reqs[w] - 1 \in Nat
    BY <1>7, <1>i, LoadPositive DEF KeepAlive, Up, Stopped, IsWith
  <2>3. client' \in [Client -> {"new", "backlog", "open", "closed"}]
    BY <1>t, <1>7, CloseType DEF KeepAlive
  <2>4. processing' \in [DOMAIN processing' -> Client] /\ DOMAIN processing' \subseteq StreamToken
    BY <1>m, <1>7, MapTypes DEF KeepAlive, MapOK
  <2>5. processing[tk] \in Client
    BY <1>t, <1>7 DEF KeepAlive, TypeOK
  <2>6. reading' \in [DOMAIN reading' -> Client] /\ DOMAIN reading' \subseteq StreamToken
    BY <1>m, <1>7, <2>1, <2>5, MapTypes, NextToken DEF KeepAlive, MapOK
  <2> QED
    BY <1>t, <1>7, <2>2, <2>3, <2>4, <2>6 DEF KeepAlive, TypeOK
<1>8. ASSUME NEW w \in Worker, NEW tk \in stream_close_tks[w], CloseStream(w, tk) PROVE TypeOK'
  <2>1. num_reqs[w] - 1 \in Nat
    BY <1>8, <1>i, LoadPositive DEF CloseStream, Up, Stopped, IsWith
  <2>2. client' \in [Client -> {"new", "backlog", "open", "closed"}]
    BY <1>t, <1>8, CloseType DEF CloseStream
  <2>3. processing' \in [DOMAIN processing' -> Client] /\ DOMAIN processing' \subseteq StreamToken
    BY <1>m, <1>8, MapTypes DEF CloseStream, MapOK
  <2> QED
    BY <1>t, <1>8, <2>1, <2>2, <2>3 DEF CloseStream, TypeOK
<1>9. ASSUME NEW tk, Dispatch(tk) PROVE TypeOK'
  <2>1. tk \in StreamToken /\ reading[tk] \in Client
    BY <1>t, <1>9 DEF Dispatch, TypeOK
  <2>2. client' \in [Client -> {"new", "backlog", "open", "closed"}]
    BY <1>t, <1>9, CloseType DEF Dispatch
  <2>3. reading' \in [DOMAIN reading' -> Client] /\ DOMAIN reading' \subseteq StreamToken
    BY <1>m, <1>9, MapTypes DEF Dispatch, MapOK
  <2>4. processing' \in [DOMAIN processing' -> Client] /\ DOMAIN processing' \subseteq StreamToken
    BY <1>m, <1>9, <2>1, MapTypes DEF Dispatch, MapOK
  <2>5. num_reqs' \in [Worker -> Nat] /\ to_send' \in [Worker -> SUBSET StreamToken]
    BY <1>t, <1>9, <2>1, LeastIsWorker DEF Dispatch, TypeOK
  <2> QED
    BY <1>t, <1>9, <2>2, <2>3, <2>4, <2>5 DEF Dispatch, TakeEvent, TypeOK
<1>10. ASSUME NEW ev, UnknownToken(ev) PROVE TypeOK'
  BY <1>t, <1>10 DEF UnknownToken, TypeOK, Stopped
<1>11. ASSUME NEW w \in Worker, NEW ready, UnixStream(w, ready) PROVE TypeOK'
  <2>1. PICK got \in AtMost(ReadMax, IF "readable" \in ready THEN unix_back[w] ELSE {}) :
          /\ unix_back' = [unix_back EXCEPT ![w] = @ \ got]
          /\ stream_tks' = [stream_tks EXCEPT ![w] = @ \cup {a[1] : a \in {b \in got : b[2]}}]
          /\ stream_close_tks' = [stream_close_tks EXCEPT
                                   ![w] = @ \cup {a[1] : a \in {b \in got : ~b[2]}}]
    BY <1>11 DEF UnixStream
  <2>2. PICK sent \in AtMost(FdQueue, IF "writable" \in ready /\ alive[w] THEN to_send[w] ELSE {}) :
          /\ to_send' = [to_send EXCEPT ![w] = @ \ sent]
          /\ unix_out' = [unix_out EXCEPT ![w] = @ \cup sent]
    BY <1>11 DEF UnixStream
  <2>3. got \subseteq unix_back[w] /\ unix_back[w] \subseteq StreamToken \X BOOLEAN
    BY <1>t, AtMostSubset DEF TypeOK
  <2>4. sent \subseteq to_send[w] /\ to_send[w] \subseteq StreamToken
    BY <1>t, AtMostSubset DEF TypeOK
  <2>5. \A a \in got : a[1] \in StreamToken
    BY <2>3
  <2>6. {a[1] : a \in {b \in got : b[2]}} \subseteq StreamToken
        /\ {a[1] : a \in {b \in got : ~b[2]}} \subseteq StreamToken
    BY <2>5
  <2>7. /\ unix_back' \in [Worker -> SUBSET (StreamToken \X BOOLEAN)]
        /\ stream_tks' \in [Worker -> SUBSET StreamToken]
        /\ stream_close_tks' \in [Worker -> SUBSET StreamToken]
    BY <1>t, <2>1, <2>3, <2>6 DEF TypeOK
  <2>8. to_send' \in [Worker -> SUBSET StreamToken] /\ unix_out' \in [Worker -> SUBSET StreamToken]
    BY <1>t, <2>2, <2>4 DEF TypeOK
  <2> QED
    BY <1>t, <1>11, <2>7, <2>8 DEF UnixStream, TakeEvent, TypeOK
<1>12. ASSUME NEW reported \in SUBSET Reportable, NEW fails \in BOOLEAN, Poll(reported, fails)
       PROVE  TypeOK'
  <2>1. Reportable \subseteq ({SERVER_TOKEN} \cup Worker \cup StreamToken) \X Condition
    <3>1. \A w \in Worker : Ready(w) \in Condition
      BY <1>t DEF Ready, TypeOK, Condition
    <3>2. {"readable"} \in Condition
      BY DEF Condition
    <3>3. \A tk \in DOMAIN reading : tk \in StreamToken
      BY <1>t DEF TypeOK
    <3>4. \A w \in edge : w \in Worker
      BY <1>t DEF TypeOK
    <3> QED
      BY <3>1, <3>2, <3>3, <3>4 DEF Reportable
  <2>2. events' \subseteq ({SERVER_TOKEN} \cup Worker \cup StreamToken) \X Condition
    BY <1>12, <2>1 DEF Poll
  <2>3. client' \in [Client -> {"new", "backlog", "open", "closed"}]
    BY <1>t, <1>12, CloseType DEF Poll, Shutdown, TypeOK
  <2>4. reading' \in [DOMAIN reading' -> Client] /\ DOMAIN reading' \subseteq StreamToken
    BY <1>t, <1>12, EmptyIs DEF Poll, Shutdown, TypeOK
  <2>5. listener' \in {"armed", "ready", "gone"} /\ run_shutdown' \in BOOLEAN
    BY <1>t, <1>12 DEF Poll, Shutdown, TypeOK
  <2>6. edge' \subseteq Worker /\ interrupted' \in BOOLEAN
          /\ loc' \in {"top", "return", "poll", "events"}
    BY <1>t, <1>12 DEF Poll, TypeOK
  <2>7. UNCHANGED <<readable, stream_count, processing, unixVars, workerVars, signals, unhandled,
                    running, close_now, expired>>
    BY <1>12 DEF Poll
  <2> QED
    BY <1>t, <2>2, <2>3, <2>4, <2>5, <2>6, <2>7 DEF TypeOK
<1>13. CASE Polling
  BY <1>12, <1>13 DEF Polling, PollReports, PollTimesOut, PollFails
<1>14. CASE Sigint
  <2>1. signals' \in 0 .. SigintBound /\ unhandled' \in 0 .. signals'
    BY <1>t, <1>14, ServerAssumption DEF Sigint, TypeOK
  <2>2. interrupted' \in BOOLEAN
    <3>1. interrupted \in BOOLEAN /\ (interrupted \/ loc = "poll") \in BOOLEAN
      BY <1>t DEF TypeOK
    <3> QED
      BY <1>14, <3>1 DEF Sigint
  <2> QED
    BY <1>t, <1>14, <2>1, <2>2 DEF Sigint, TypeOK
<1>15. CASE CtrlcHandler
  <2>1. unhandled' \in 0 .. signals'
    BY <1>t, <1>15, ServerAssumption DEF CtrlcHandler, TypeOK
  <2> QED
    BY <1>t, <1>15, <2>1 DEF CtrlcHandler, TypeOK
<1>16. CASE WaitExpires
  BY <1>t, <1>16 DEF WaitExpires, TypeOK
<1>17. ASSUME NEW c \in Client, Connect(c) \/ Send(c) PROVE TypeOK'
  BY <1>t, <1>17 DEF Connect, Send, TypeOK
<1>18. ASSUME NEW w \in Worker, WorkerReads(w) \/ WorkerDies(w) PROVE TypeOK'
  <2>1. CASE WorkerReads(w)
    <3>1. held' \in [Worker -> SUBSET StreamToken] /\ unix_out' \in [Worker -> SUBSET StreamToken]
      BY <1>t, <2>1 DEF WorkerReads, TypeOK
    <3> QED
      BY <1>t, <2>1, <3>1 DEF WorkerReads, TypeOK
  <2>2. CASE WorkerDies(w)
    BY <1>t, <2>2 DEF WorkerDies, TypeOK
  <2> QED
    BY <1>18, <2>1, <2>2
<1>19. ASSUME NEW w \in Worker, NEW tk \in held[w], NEW keep_alive \in BOOLEAN,
              WorkerAnswers(w, tk, keep_alive)
       PROVE  TypeOK'
  <2>1. <<tk, keep_alive>> \in StreamToken \X BOOLEAN
    BY <1>t DEF TypeOK
  <2> QED
    BY <1>t, <1>19, <2>1 DEF WorkerAnswers, TypeOK
<1>20. CASE Stop
  BY <1>0, <1>20 DEF Stop
<1> QED
  BY <1>0, <1>1, <1>2, <1>3, <1>4, <1>5, <1>6, <1>7, <1>8, <1>9, <1>10, <1>11, <1>13, <1>14,
     <1>15, <1>16, <1>17, <1>18, <1>19, <1>20 DEF Next, Loop, Environment

-----------------------------------------------------------------------------
(* What a step can do to the two maps.                                     *)

Quiet == UNCHANGED <<client, stream_count, reading, processing>>

Arrives(c) ==
  /\ client[c] = "new" /\ client' = [client EXCEPT ![c] = "backlog"]
  /\ UNCHANGED <<stream_count, reading, processing>>

Refused(c) ==
  /\ client[c] = "backlog" /\ Close({c})
  /\ stream_count' = stream_count + 1
  /\ UNCHANGED <<reading, processing>>

Taken(c, tk) ==
  /\ client[c] = "backlog" /\ client' = [client EXCEPT ![c] = "open"]
  /\ stream_count' = stream_count + 1
  /\ tk \notin DOMAIN reading /\ Number(tk) = stream_count + 1
  /\ reading' = Insert(reading, tk, c) /\ UNCHANGED processing
  /\ Cardinality(DOMAIN reading) + Cardinality(DOMAIN processing) < MaxConns

GivesUpIdle ==
  /\ Close(Streams(reading)) /\ reading' = << >>
  /\ UNCHANGED <<stream_count, processing>>

GivesUpBusy ==
  /\ Close(Streams(processing)) /\ processing' = << >>
  /\ UNCHANGED <<stream_count, reading>>

DropsIdle(tk) ==
  /\ tk \in DOMAIN reading
  /\ Close({reading[tk]}) /\ reading' = Remove(reading, tk)
  /\ UNCHANGED <<stream_count, processing>>

DropsBusy(tk) ==
  /\ tk \in DOMAIN processing
  /\ Close({processing[tk]}) /\ processing' = Remove(processing, tk)
  /\ UNCHANGED <<stream_count, reading>>

GoesIdle(tk, new_tk) ==
  /\ tk \in DOMAIN processing
  /\ new_tk \notin DOMAIN reading /\ new_tk # tk /\ Number(new_tk) = Number(tk)
  /\ reading' = Insert(reading, new_tk, processing[tk]) /\ processing' = Remove(processing, tk)
  /\ UNCHANGED <<client, stream_count>>

GoesBusy(tk) ==
  /\ tk \in DOMAIN reading /\ tk \notin DOMAIN processing
  /\ processing' = Insert(processing, tk, reading[tk]) /\ reading' = Remove(reading, tk)
  /\ UNCHANGED <<client, stream_count>>

MapStep ==
  \/ Quiet \/ GivesUpIdle \/ GivesUpBusy
  \/ \E c \in Client : Arrives(c) \/ Refused(c) \/ \E tk \in StreamToken : Taken(c, tk)
  \/ \E tk \in StreamToken :
       DropsIdle(tk) \/ DropsBusy(tk) \/ GoesBusy(tk) \/ \E new_tk \in StreamToken : GoesIdle(tk, new_tk)

(* Closing no stream changes no client.                                    *)
LEMMA CloseNone ==
  ASSUME TypeOK, Close({})
  PROVE  client' = client
BY DEF TypeOK, Close

(* What is inserted by a step has a token that is free.                    *)
LEMMA AcceptMap ==
  ASSUME IInv, Accept
  PROVE  \E c \in Client : Refused(c) \/ \E tk \in StreamToken : Taken(c, tk)
<1>i. TypeOK /\ TokenInv /\ AcceptInv
  BY DEF IInv
<1>t. TypeOK
  BY <1>i
<1> USE DEF clientVars, mapVars, unixVars, workerVars, sigVars
<1> DEFINE tk == (stream_count + 1) * NEW_STREAM_COUNT_INC
<1>1. PICK c \in Client :
        /\ client[c] = "backlog" /\ stream_count' = stream_count + 1
        /\ \/ Close({c}) /\ UNCHANGED reading
           \/ /\ Cardinality(DOMAIN reading) + Cardinality(DOMAIN processing) < MaxConns
              /\ reading' = Insert(reading, tk, c)
              /\ client' = [d \in Client |->
                   IF d = c THEN "open"
                   ELSE IF tk \in DOMAIN reading /\ d = reading[tk] THEN "closed" ELSE client[d]]
  BY DEF Accept
<1>2. processing' = processing
  BY DEF Accept
<1>3. stream_count + 1 \in 1 .. Cardinality(Client)
  BY <1>i, <1>1, CountRises
<1>4. tk \in StreamToken /\ Number(tk) = stream_count + 1
  BY <1>3, FirstToken
<1> HIDE DEF tk
<1>5. tk \notin DOMAIN reading
  <2>1. stream_count \in Nat
    BY <1>t, Clients DEF TypeOK
  <2> QED
    BY <1>i, <1>4, <2>1 DEF TokenInv, Tokens
<1>6. CASE Close({c}) /\ UNCHANGED reading
  BY <1>1, <1>2, <1>6 DEF Refused
<1>7. CASE /\ Cardinality(DOMAIN reading) + Cardinality(DOMAIN processing) < MaxConns
           /\ reading' = Insert(reading, tk, c)
           /\ client' = [d \in Client |->
                IF d = c THEN "open"
                ELSE IF tk \in DOMAIN reading /\ d = reading[tk] THEN "closed" ELSE client[d]]
  <2>1. client' = [client EXCEPT ![c] = "open"]
    BY <1>t, <1>5, <1>7 DEF TypeOK
  <2>2. Taken(c, tk)
    BY <1>1, <1>2, <1>4, <1>5, <1>7, <2>1 DEF Taken
  <2> QED
    BY <1>4, <2>2
<1> QED
  BY <1>1, <1>6, <1>7

(* A stream that its worker keeps alive goes back to the readers under a   *)
(* token that is free, or is closed (server/mod.rs:93-116).                *)
LEMMA KeepAliveMap ==
  ASSUME IInv, NEW w \in Worker, NEW tk \in stream_tks[w], KeepAlive(w, tk)
  PROVE  /\ tk \in StreamToken
         /\ DropsBusy(tk) \/ (~run_shutdown /\ \E new_tk \in StreamToken : GoesIdle(tk, new_tk))
<1>i. TypeOK /\ TokenInv /\ KeepInv
  BY DEF IInv
<1>t. TypeOK
  BY <1>i
<1> USE DEF clientVars, mapVars, unixVars, workerVars, sigVars
<1> DEFINE new_tk == tk + KEEP_ALIVE_COUNT_INC
<1>1. tk \in StreamToken /\ tk \in DOMAIN processing /\ Round(tk) < KeepAliveBound
  BY <1>i DEF KeepInv, KeepAlive, TypeOK
<1>2. new_tk \in StreamToken /\ Number(new_tk) = Number(tk) /\ new_tk # tk
  BY <1>1, NextToken
<1>3. processing' = Remove(processing, tk) /\ stream_count' = stream_count
  BY DEF KeepAlive
<1>4. \/ Close({processing[tk]}) /\ UNCHANGED reading
      \/ /\ ~run_shutdown /\ reading' = Insert(reading, new_tk, processing[tk])
         /\ Close(IF new_tk \in DOMAIN reading THEN {reading[new_tk]} ELSE {})
  BY DEF KeepAlive
<1> HIDE DEF new_tk
<1>5. new_tk \notin DOMAIN reading
  BY <1>i, <1>1, <1>2 DEF TokenInv, Tokens
<1>6. CASE Close({processing[tk]}) /\ UNCHANGED reading
  BY <1>1, <1>3, <1>6 DEF DropsBusy
<1>7. CASE ~run_shutdown /\ reading' = Insert(reading, new_tk, processing[tk]) /\ Close({})
  <2>1. client' = client
    BY <1>t, <1>7, CloseNone
  <2>2. GoesIdle(tk, new_tk)
    BY <1>1, <1>2, <1>3, <1>5, <1>7, <2>1 DEF GoesIdle
  <2> QED
    BY <1>1, <1>2, <1>7, <2>2
<1> QED
  BY <1>4, <1>5, <1>6, <1>7

(* A stream that has become readable goes to a worker, or is closed        *)
(* (server/mod.rs:169-179).                                                *)
LEMMA DispatchMap ==
  ASSUME IInv, NEW tk, Dispatch(tk)
  PROVE  tk \in StreamToken /\ (DropsIdle(tk) \/ GoesBusy(tk))
<1>i. TypeOK /\ TokenInv
  BY DEF IInv
<1>t. TypeOK
  BY <1>i
<1> USE DEF clientVars, mapVars, unixVars, workerVars, sigVars
<1>1. tk \in StreamToken /\ tk \in DOMAIN reading /\ reading' = Remove(reading, tk)
        /\ stream_count' = stream_count
  BY <1>t DEF Dispatch, TypeOK
<1>2. tk \notin DOMAIN processing
  BY <1>i, <1>1 DEF TokenInv
<1>3. \/ processing' = Insert(processing, tk, reading[tk]) /\ Close({})
      \/ Close({reading[tk]}) /\ processing' = processing
  BY <1>2 DEF Dispatch
<1>4. CASE processing' = Insert(processing, tk, reading[tk]) /\ Close({})
  <2>1. client' = client
    BY <1>t, <1>4, CloseNone
  <2>2. GoesBusy(tk)
    BY <1>1, <1>2, <1>4, <2>1 DEF GoesBusy
  <2> QED
    BY <1>1, <2>2
<1>5. CASE Close({reading[tk]}) /\ processing' = processing
  BY <1>1, <1>5 DEF DropsIdle
<1> QED
  BY <1>3, <1>4, <1>5

(* Every step of the server is one of those moves of the maps.             *)
LEMMA MapSteps == IInv /\ [Next]_vars => MapStep
<1> SUFFICES ASSUME IInv, [Next]_vars PROVE MapStep
  OBVIOUS
<1>t. TypeOK
  BY DEF IInv
<1> USE DEF clientVars, mapVars, unixVars, workerVars, sigVars
<1>0. CASE UNCHANGED vars
  BY <1>0 DEF vars, MapStep, Quiet
<1>1. CASE Exit
  <2>1. GivesUpBusy \/ Quiet
    BY <1>1 DEF Exit, GivesUpBusy, Quiet
  <2> QED
    BY <2>1 DEF MapStep
<1>2. CASE Reregister \/ StartPoll \/ AcceptFails \/ EndRound
  BY <1>2 DEF Reregister, StartPoll, AcceptFails, EndRound, MapStep, Quiet
<1>4. CASE Accept
  BY <1>4, AcceptMap DEF MapStep
<1>7. ASSUME NEW w \in Worker, NEW tk \in stream_tks[w], KeepAlive(w, tk) PROVE MapStep
  BY <1>7, KeepAliveMap DEF MapStep
<1>8. ASSUME NEW w \in Worker, NEW tk \in stream_close_tks[w], CloseStream(w, tk) PROVE MapStep
  <2>1. DropsBusy(tk) /\ tk \in StreamToken
    BY <1>t, <1>8 DEF CloseStream, DropsBusy, TypeOK
  <2> QED
    BY <2>1 DEF MapStep
<1>9. ASSUME NEW tk, Dispatch(tk) PROVE MapStep
  BY <1>9, DispatchMap DEF MapStep
<1>10. ASSUME NEW ev, UnknownToken(ev) PROVE MapStep
  BY <1>10 DEF UnknownToken, MapStep, Quiet
<1>11. ASSUME NEW w, NEW ready, UnixStream(w, ready) PROVE MapStep
  BY <1>11 DEF UnixStream, TakeEvent, MapStep, Quiet
<1>12. ASSUME NEW reported, NEW fails, Poll(reported, fails) PROVE MapStep
  <2>1. GivesUpIdle \/ Quiet
    BY <1>12 DEF Poll, Shutdown, GivesUpIdle, Quiet
  <2> QED
    BY <2>1 DEF MapStep
<1>13. CASE Polling
  BY <1>12, <1>13 DEF Polling, PollReports, PollTimesOut, PollFails
<1>14. CASE Sigint \/ CtrlcHandler \/ WaitExpires
  BY <1>14 DEF Sigint, CtrlcHandler, WaitExpires, MapStep, Quiet
<1>17. ASSUME NEW c \in Client, Connect(c) \/ Send(c) PROVE MapStep
  BY <1>17 DEF Connect, Send, MapStep, Quiet, Arrives
<1>18. ASSUME NEW w \in Worker, WorkerReads(w) \/ WorkerDies(w) PROVE MapStep
  BY <1>18 DEF WorkerReads, WorkerDies, MapStep, Quiet
<1>19. ASSUME NEW w, NEW tk, NEW keep_alive, WorkerAnswers(w, tk, keep_alive) PROVE MapStep
  BY <1>19 DEF WorkerAnswers, MapStep, Quiet
<1>20. CASE Stop
  BY <1>0, <1>20 DEF Stop
<1> QED
  BY <1>0, <1>1, <1>2, <1>4, <1>7, <1>8, <1>9, <1>10, <1>11, <1>13, <1>14, <1>17, <1>18, <1>19,
     <1>20 DEF Next, Loop, Environment

-----------------------------------------------------------------------------
(* The invariants of the maps.                                             *)

(* Streams that are given up were open, so they have been counted.         *)
LEMMA HeldAreOpen ==
  ASSUME TypeOK, OnceInv
  PROVE  /\ \A k \in DOMAIN reading : reading[k] \in Client /\ client[reading[k]] = "open"
         /\ \A k \in DOMAIN processing : processing[k] \in Client /\ client[processing[k]] = "open"
<1>1. /\ \A k \in DOMAIN reading : reading[k] \in Client
      /\ \A k \in DOMAIN processing : processing[k] \in Client
  BY DEF TypeOK
<1> QED
  BY <1>1 DEF OnceInv, Once, Has

(* No two streams ever share a token, and the tokens of the next stream    *)
(* stay free (server/mod.rs:54, 99, 146).                                  *)
LEMMA TokenStep == IInv /\ MapStep => TokenInv'
<1> SUFFICES ASSUME IInv, MapStep PROVE TokenInv'
  OBVIOUS
<1>i. TypeOK /\ TokenInv
  BY DEF IInv
<1>n. stream_count \in Nat /\ \A tk \in StreamToken : Number(tk) \in Nat
  BY <1>i, Clients, TokenRange DEF TypeOK
<1>d. DOMAIN reading \subseteq StreamToken /\ DOMAIN processing \subseteq StreamToken
  BY <1>i DEF TypeOK
<1>1. ASSUME DOMAIN reading' \subseteq DOMAIN reading, DOMAIN processing' \subseteq DOMAIN processing,
             stream_count' \in {stream_count, stream_count + 1}
      PROVE  TokenInv'
  BY <1>i, <1>n, <1>d, <1>1 DEF TokenInv, Tokens
<1>2. CASE Quiet \/ GivesUpIdle \/ GivesUpBusy
  BY <1>1, <1>2, EmptyIs DEF Quiet, GivesUpIdle, GivesUpBusy
<1>3. ASSUME NEW c, Arrives(c) \/ Refused(c) PROVE TokenInv'
  BY <1>1, <1>3 DEF Arrives, Refused
<1>4. ASSUME NEW c, NEW tk \in StreamToken, Taken(c, tk) PROVE TokenInv'
  <2>1. DOMAIN reading' = DOMAIN reading \cup {tk} /\ DOMAIN processing' = DOMAIN processing
    BY <1>4, InsertIs DEF Taken
  <2>2. Number(tk) = stream_count + 1 /\ stream_count' = stream_count + 1
    BY <1>4 DEF Taken
  <2>3. \A k \in Tokens : Number(k) <= stream_count /\ Number(k) \in Nat
    BY <1>i, <1>n, <1>d DEF TokenInv, Tokens
  <2> QED
    BY <1>i, <1>n, <2>1, <2>2, <2>3 DEF TokenInv, Tokens
<1>5. ASSUME NEW tk, DropsIdle(tk) \/ DropsBusy(tk) PROVE TokenInv'
  <2>1. DOMAIN reading' \subseteq DOMAIN reading /\ DOMAIN processing' \subseteq DOMAIN processing
    <3>1. CASE DropsIdle(tk)
      BY <3>1, RemoveIs DEF DropsIdle
    <3>2. CASE DropsBusy(tk)
      BY <3>2, RemoveIs DEF DropsBusy
    <3> QED
      BY <1>5, <3>1, <3>2
  <2>2. stream_count' = stream_count
    BY <1>5 DEF DropsIdle, DropsBusy
  <2> QED
    BY <1>1, <2>1, <2>2
<1>6. ASSUME NEW tk \in StreamToken, GoesBusy(tk) PROVE TokenInv'
  <2>1. /\ tk \in DOMAIN reading /\ DOMAIN reading' = DOMAIN reading \ {tk}
        /\ DOMAIN processing' = DOMAIN processing \cup {tk} /\ stream_count' = stream_count
    BY <1>6, InsertIs, RemoveIs DEF GoesBusy
  <2> QED
    BY <1>i, <2>1 DEF TokenInv, Tokens
<1>7. ASSUME NEW tk \in StreamToken, NEW new_tk \in StreamToken, GoesIdle(tk, new_tk) PROVE TokenInv'
  <2>1. /\ tk \in DOMAIN processing /\ DOMAIN processing' = DOMAIN processing \ {tk}
        /\ DOMAIN reading' = DOMAIN reading \cup {new_tk} /\ stream_count' = stream_count
        /\ Number(new_tk) = Number(tk) /\ new_tk # tk
    BY <1>7, InsertIs, RemoveIs DEF GoesIdle
  <2> QED
    BY <1>i, <2>1 DEF TokenInv, Tokens
<1> QED
  BY <1>2, <1>3, <1>4, <1>5, <1>6, <1>7 DEF MapStep

(* Each accepted stream is counted once.                                   *)
LEMMA AcceptStep == IInv /\ MapStep => AcceptInv'
<1> SUFFICES ASSUME IInv, MapStep PROVE AcceptInv'
  OBVIOUS
<1>i. TypeOK /\ AcceptInv /\ OnceInv
  BY DEF IInv
<1>f. IsFiniteSet(Accepted) /\ Cardinality(Accepted) \in Nat
  <2>1. Accepted \in SUBSET Client /\ IsFiniteSet(Client)
    BY ServerAssumption DEF Accepted
  <2>2. IsFiniteSet(Accepted)
    BY <2>1, FS_Subset
  <2> QED
    BY <2>2, FS_CardinalityType
<1>1. ASSUME NEW S, Close(S), S \subseteq Accepted, stream_count' = stream_count PROVE AcceptInv'
  <2>1. Accepted' = Accepted
    BY <1>i, <1>1 DEF Close, Accepted, TypeOK
  <2> QED
    BY <1>i, <1>1, <2>1 DEF AcceptInv
<1>2. /\ \A k \in DOMAIN reading : reading[k] \in Accepted
      /\ \A k \in DOMAIN processing : processing[k] \in Accepted
  BY <1>i, HeldAreOpen DEF Accepted
<1>3. CASE Quiet
  BY <1>i, <1>3 DEF Quiet, AcceptInv, Accepted
<1>4. CASE GivesUpIdle \/ GivesUpBusy
  <2>1. Streams(reading) \subseteq Accepted /\ Streams(processing) \subseteq Accepted
    BY <1>2 DEF Streams
  <2> QED
    BY <1>1, <1>4, <2>1 DEF GivesUpIdle, GivesUpBusy
<1>5. ASSUME NEW c \in Client, Arrives(c) PROVE AcceptInv'
  <2>1. Accepted' = Accepted
    BY <1>i, <1>5 DEF Arrives, Accepted, TypeOK
  <2> QED
    BY <1>i, <1>5, <2>1 DEF Arrives, AcceptInv
<1>6. ASSUME NEW c \in Client, client[c] = "backlog", stream_count' = stream_count + 1,
             client' \in {[client EXCEPT ![c] = "open"], [client EXCEPT ![c] = "closed"]}
      PROVE  AcceptInv'
  <2>1. Accepted' = Accepted \cup {c}
    BY <1>i, <1>6 DEF Accepted, TypeOK
  <2>2. c \notin Accepted
    BY <1>6 DEF Accepted
  <2>3. Cardinality(Accepted \cup {c}) = Cardinality(Accepted) + 1
    BY <1>f, <2>2, FS_AddElement
  <2> QED
    BY <1>i, <1>6, <2>1, <2>3 DEF AcceptInv
<1>7. ASSUME NEW c \in Client, Refused(c) PROVE AcceptInv'
  <2>1. client' = [client EXCEPT ![c] = "closed"]
    BY <1>i, <1>7 DEF Refused, Close, TypeOK
  <2> QED
    BY <1>6, <1>7, <2>1 DEF Refused
<1>8. ASSUME NEW c \in Client, NEW tk, Taken(c, tk) PROVE AcceptInv'
  BY <1>6, <1>8 DEF Taken
<1>9. ASSUME NEW tk, DropsIdle(tk) \/ DropsBusy(tk) PROVE AcceptInv'
  BY <1>1, <1>2, <1>9 DEF DropsIdle, DropsBusy
<1>10. ASSUME NEW tk, NEW new_tk, GoesBusy(tk) \/ GoesIdle(tk, new_tk) PROVE AcceptInv'
  BY <1>i, <1>10 DEF GoesBusy, GoesIdle, AcceptInv, Accepted
<1> QED
  BY <1>3, <1>4, <1>5, <1>7, <1>8, <1>9, <1>10 DEF MapStep

(* Each stream stays in one map under one token.                           *)
LEMMA OnceStep == IInv /\ MapStep => OnceInv'
<1> SUFFICES ASSUME IInv, MapStep, NEW d \in Client PROVE Once(d)'
  BY DEF OnceInv
<1>i. TypeOK /\ OnceInv
  BY DEF IInv
<1>o. Once(d)
  BY <1>i DEF OnceInv
<1>h. /\ \A k \in DOMAIN reading : reading[k] \in Client /\ client[reading[k]] = "open"
      /\ \A k \in DOMAIN processing : processing[k] \in Client /\ client[processing[k]] = "open"
  BY <1>i, HeldAreOpen
<1>c. client \in [Client -> {"new", "backlog", "open", "closed"}]
  BY <1>i DEF TypeOK
<1>1. CASE Quiet
  BY <1>o, <1>1 DEF Quiet, Once, Has
<1>2. CASE GivesUpIdle
  <2>1. client'[d] = IF Has(reading, d) THEN "closed" ELSE client[d]
    BY <1>2 DEF GivesUpIdle, Close, Streams, Has
  <2>2. DOMAIN reading' = {} /\ processing' = processing
    BY <1>2, EmptyIs DEF GivesUpIdle
  <2> QED
    BY <1>o, <2>1, <2>2 DEF Once, Has
<1>3. CASE GivesUpBusy
  <2>1. client'[d] = IF Has(processing, d) THEN "closed" ELSE client[d]
    BY <1>3 DEF GivesUpBusy, Close, Streams, Has
  <2>2. DOMAIN processing' = {} /\ reading' = reading
    BY <1>3, EmptyIs DEF GivesUpBusy
  <2> QED
    BY <1>o, <2>1, <2>2 DEF Once, Has
<1>4. ASSUME NEW c \in Client, Arrives(c) PROVE Once(d)'
  BY <1>o, <1>c, <1>4 DEF Arrives, Once, Has
<1>5. ASSUME NEW c \in Client, Refused(c) PROVE Once(d)'
  <2>1. client'[d] = IF d = c THEN "closed" ELSE client[d]
    BY <1>5 DEF Refused, Close
  <2> QED
    BY <1>o, <1>5, <2>1 DEF Refused, Once, Has
<1>6. ASSUME NEW c \in Client, NEW tk, Taken(c, tk) PROVE Once(d)'
  <2>1. client'[d] = IF d = c THEN "open" ELSE client[d]
    BY <1>c, <1>6 DEF Taken
  <2>2. /\ DOMAIN reading' = DOMAIN reading \cup {tk} /\ tk \notin DOMAIN reading
        /\ processing' = processing /\ client[c] = "backlog"
    BY <1>6 DEF Taken, Insert
  <2>v. \A k \in DOMAIN reading' : reading'[k] = IF k = tk THEN c ELSE reading[k]
    BY <1>6 DEF Taken, Insert
  <2>3. CASE d = c
    <3>1. ~Has(reading, c) /\ ~Has(processing, c)
      BY <1>o, <2>2, <2>3 DEF Once
    <3> QED
      BY <2>1, <2>2, <2>v, <2>3, <3>1 DEF Once, Has
  <2>4. CASE d # c
    BY <1>o, <2>1, <2>2, <2>v, <2>4 DEF Once, Has
  <2> QED
    BY <2>3, <2>4
<1>7. ASSUME NEW tk, DropsIdle(tk) PROVE Once(d)'
  <2>1. client'[d] = IF d = reading[tk] THEN "closed" ELSE client[d]
    BY <1>7 DEF DropsIdle, Close
  <2>2. /\ tk \in DOMAIN reading /\ DOMAIN reading' = DOMAIN reading \ {tk}
        /\ \A k \in DOMAIN reading' : reading'[k] = reading[k]
        /\ processing' = processing
    BY <1>7, RemoveIs DEF DropsIdle
  <2> QED
    BY <1>o, <2>1, <2>2 DEF Once, Has
<1>8. ASSUME NEW tk, DropsBusy(tk) PROVE Once(d)'
  <2>1. client'[d] = IF d = processing[tk] THEN "closed" ELSE client[d]
    BY <1>8 DEF DropsBusy, Close
  <2>2. /\ tk \in DOMAIN processing /\ DOMAIN processing' = DOMAIN processing \ {tk}
        /\ \A k \in DOMAIN processing' : processing'[k] = processing[k]
        /\ reading' = reading
    BY <1>8, RemoveIs DEF DropsBusy
  <2> QED
    BY <1>o, <2>1, <2>2 DEF Once, Has
<1>9. ASSUME NEW tk, GoesBusy(tk) PROVE Once(d)'
  <2>1. /\ tk \in DOMAIN reading /\ DOMAIN reading' = DOMAIN reading \ {tk}
        /\ \A k \in DOMAIN reading' : reading'[k] = reading[k]
        /\ tk \notin DOMAIN processing /\ DOMAIN processing' = DOMAIN processing \cup {tk}
        /\ client' = client
    BY <1>9 DEF GoesBusy, Insert, Remove
  <2>v. \A k \in DOMAIN processing' : processing'[k] = IF k = tk THEN reading[tk] ELSE processing[k]
    BY <1>9 DEF GoesBusy, Insert
  <2>2. CASE reading[tk] = d
    BY <1>o, <2>1, <2>v, <2>2 DEF Once, Has
  <2>3. CASE reading[tk] # d
    BY <1>o, <2>1, <2>v, <2>3 DEF Once, Has
  <2> QED
    BY <2>2, <2>3
<1>10. ASSUME NEW tk, NEW new_tk, GoesIdle(tk, new_tk) PROVE Once(d)'
  <2>1. /\ tk \in DOMAIN processing /\ DOMAIN processing' = DOMAIN processing \ {tk}
        /\ \A k \in DOMAIN processing' : processing'[k] = processing[k]
        /\ new_tk \notin DOMAIN reading /\ DOMAIN reading' = DOMAIN reading \cup {new_tk}
        /\ client' = client
    BY <1>10 DEF GoesIdle, Insert, Remove
  <2>v. \A k \in DOMAIN reading' : reading'[k] = IF k = new_tk THEN processing[tk] ELSE reading[k]
    BY <1>10 DEF GoesIdle, Insert
  <2>2. CASE processing[tk] = d
    BY <1>o, <2>1, <2>v, <2>2 DEF Once, Has
  <2>3. CASE processing[tk] # d
    BY <1>o, <2>1, <2>v, <2>3 DEF Once, Has
  <2> QED
    BY <2>2, <2>3
<1> QED
  BY <1>1, <1>2, <1>3, <1>4, <1>5, <1>6, <1>7, <1>8, <1>9, <1>10 DEF MapStep

(* The maps together do not outgrow the limit (server/mod.rs:148).         *)
LEMMA LimitStep == IInv /\ MapStep => LimitInv'
<1> SUFFICES ASSUME IInv, MapStep PROVE LimitInv'
  OBVIOUS
<1> DEFINE R == DOMAIN reading
           P == DOMAIN processing
<1>i. LimitInv
  BY DEF IInv
<1>f. IsFiniteSet(R) /\ IsFiniteSet(P) /\ Cardinality(R) \in Nat /\ Cardinality(P) \in Nat
        /\ Cardinality(R) + Cardinality(P) <= MaxConns /\ MaxConns \in Nat
  BY <1>i, FS_CardinalityType, ServerAssumption DEF LimitInv
<1>1. CASE Quiet
  BY <1>i, <1>1 DEF Quiet, LimitInv
<1>2. CASE GivesUpIdle \/ GivesUpBusy
  <2>1. IsFiniteSet({}) /\ Cardinality({}) = 0
    BY FS_EmptySet
  <2>2. (R' = {} /\ P' = P) \/ (R' = R /\ P' = {})
    <3>1. CASE GivesUpIdle
      BY <3>1, EmptyIs DEF GivesUpIdle
    <3>2. CASE GivesUpBusy
      BY <3>2, EmptyIs DEF GivesUpBusy
    <3> QED
      BY <1>2, <3>1, <3>2
  <2> HIDE DEF R, P
  <2>3. IsFiniteSet(R') /\ IsFiniteSet(P') /\ Cardinality(R') + Cardinality(P') <= MaxConns
    BY <1>f, <2>1, <2>2
  <2> QED
    BY <2>3 DEF LimitInv, R, P
<1>3. ASSUME NEW c, Arrives(c) \/ Refused(c) PROVE LimitInv'
  BY <1>i, <1>3 DEF Arrives, Refused, LimitInv
<1>4. ASSUME NEW c, NEW tk, Taken(c, tk) PROVE LimitInv'
  <2>1. R' = R \cup {tk} /\ P' = P /\ tk \notin R /\ Cardinality(R) + Cardinality(P) < MaxConns
    BY <1>4, InsertIs DEF Taken
  <2>2. IsFiniteSet(R \cup {tk}) /\ Cardinality(R \cup {tk}) = Cardinality(R) + 1
    BY <1>f, <2>1, FS_AddElement
  <2> QED
    BY <1>f, <2>1, <2>2 DEF LimitInv
<1>5. ASSUME NEW tk, DropsIdle(tk) PROVE LimitInv'
  <2>1. R' = R \ {tk} /\ P' = P /\ tk \in R
    BY <1>5, RemoveIs DEF DropsIdle
  <2>2. IsFiniteSet(R \ {tk}) /\ Cardinality(R \ {tk}) = Cardinality(R) - 1
    BY <1>f, <2>1, FS_RemoveElement
  <2> QED
    BY <1>f, <2>1, <2>2 DEF LimitInv
<1>6. ASSUME NEW tk, DropsBusy(tk) PROVE LimitInv'
  <2>1. R' = R /\ P' = P \ {tk} /\ tk \in P
    BY <1>6, RemoveIs DEF DropsBusy
  <2>2. IsFiniteSet(P \ {tk}) /\ Cardinality(P \ {tk}) = Cardinality(P) - 1
    BY <1>f, <2>1, FS_RemoveElement
  <2> QED
    BY <1>f, <2>1, <2>2 DEF LimitInv
<1>7. ASSUME NEW tk, GoesBusy(tk) PROVE LimitInv'
  <2>1. R' = R \ {tk} /\ tk \in R /\ P' = P \cup {tk} /\ tk \notin P
    BY <1>7, InsertIs, RemoveIs DEF GoesBusy
  <2>2. IsFiniteSet(R \ {tk}) /\ Cardinality(R \ {tk}) = Cardinality(R) - 1
    BY <1>f, <2>1, FS_RemoveElement
  <2>3. IsFiniteSet(P \cup {tk}) /\ Cardinality(P \cup {tk}) = Cardinality(P) + 1
    BY <1>f, <2>1, FS_AddElement
  <2> QED
    BY <1>f, <2>1, <2>2, <2>3 DEF LimitInv
<1>8. ASSUME NEW tk, NEW new_tk, GoesIdle(tk, new_tk) PROVE LimitInv'
  <2>1. P' = P \ {tk} /\ tk \in P /\ R' = R \cup {new_tk} /\ new_tk \notin R
    BY <1>8, InsertIs, RemoveIs DEF GoesIdle
  <2>2. IsFiniteSet(P \ {tk}) /\ Cardinality(P \ {tk}) = Cardinality(P) - 1
    BY <1>f, <2>1, FS_RemoveElement
  <2>3. IsFiniteSet(R \cup {new_tk}) /\ Cardinality(R \cup {new_tk}) = Cardinality(R) + 1
    BY <1>f, <2>1, FS_AddElement
  <2> QED
    BY <1>f, <2>1, <2>2, <2>3 DEF LimitInv
<1> QED
  BY <1>1, <1>2, <1>3, <1>4, <1>5, <1>6, <1>7, <1>8 DEF MapStep

-----------------------------------------------------------------------------
(* What is with the workers.                                               *)

SameWith ==
  \A w \in Worker, tk \in StreamToken :
    (IsWith(tk, w)' <=> IsWith(tk, w)) /\ (IsWith(tk, w) => OneStage(tk, w)')

(* Steps that move requests from stage to stage.                           *)
LEMMA Moves ==
  ASSUME IInv, TypeOK', Up, SameWith, num_reqs' = num_reqs, processing' = processing
  PROVE  WorkInv' /\ LoadCounted'
<1>i. TypeOK /\ WorkInv /\ LoadCounted
  BY DEF IInv
<1>d. DOMAIN processing \subseteq StreamToken
  BY <1>i DEF TypeOK
<1>1. WorkInv'
  BY <1>i, <1>d DEF WorkInv, SameWith
<1>2. ASSUME NEW w \in Worker PROVE With(w)' = With(w)
  <2>1. \A tk : tk \in With(w) <=> IsWith(tk, w)
    BY <1>i, WithMember
  <2>2. \A tk : tk \in With(w)' <=> IsWith(tk, w)'
    BY WithMemberNext
  <2>3. \A tk : IsWith(tk, w) \/ IsWith(tk, w)' => tk \in StreamToken
    BY <1>i DEF TypeOK, IsWith, Answered
  <2> QED
    BY <2>1, <2>2, <2>3 DEF SameWith
<1>3. LoadCounted'
  BY <1>i, <1>2 DEF LoadCounted
<1> QED
  BY <1>1, <1>3

(* A request that is given to a worker.                                    *)
LEMMA Adds ==
  ASSUME IInv, TypeOK', Up, NEW tk \in StreamToken, NEW w \in Worker,
         tk \notin DOMAIN processing, DOMAIN processing' = DOMAIN processing \cup {tk},
         num_reqs' = [num_reqs EXCEPT ![w] = @ + 1],
         to_send' = [to_send EXCEPT ![w] = @ \cup {tk}],
         UNCHANGED <<unix_out, held, unix_back, stream_tks, stream_close_tks>>
  PROVE  WorkInv' /\ LoadCounted'
<1>i. TypeOK /\ WorkInv /\ LoadCounted
  BY DEF IInv
<1>d. DOMAIN processing \subseteq StreamToken
  BY <1>i DEF TypeOK
<1>n. \A v \in Worker : ~IsWith(tk, v)
  BY <1>i DEF WorkInv
<1>1. \A v \in Worker, k \in StreamToken :
        IsWith(k, v)' <=> IsWith(k, v) \/ (k = tk /\ v = w)
  BY <1>i DEF IsWith, Answered, TypeOK
<1>2. \A v \in Worker, k \in StreamToken : k # tk /\ OneStage(k, v) => OneStage(k, v)'
  BY <1>i DEF OneStage, Answered, TypeOK
<1>3. OneStage(tk, w)'
  BY <1>i, <1>n DEF OneStage, Answered, IsWith, TypeOK
<1>4. WorkInv'
  BY <1>i, <1>d, <1>n, <1>1, <1>2, <1>3 DEF WorkInv
<1>5. ASSUME NEW v \in Worker PROVE num_reqs'[v] = Cardinality(With(v)')
  <2>1. /\ \A k : k \in With(v) <=> IsWith(k, v)
        /\ \A k : k \in With(v)' <=> IsWith(k, v)'
    BY <1>i, WithMember, WithMemberNext
  <2>2. \A k : IsWith(k, v) \/ IsWith(k, v)' => k \in StreamToken
    BY <1>i DEF TypeOK, IsWith, Answered
  <2>3. CASE v = w
    <3>1. With(v)' = With(v) \cup {tk} /\ tk \notin With(v)
      BY <1>n, <1>1, <2>1, <2>2, <2>3
    <3>2. Cardinality(With(v) \cup {tk}) = Cardinality(With(v)) + 1
      BY <1>i, <3>1, WithFinite, FS_AddElement
    <3> QED
      BY <1>i, <2>3, <3>1, <3>2 DEF LoadCounted, TypeOK
  <2>4. CASE v # w
    <3>1. With(v)' = With(v)
      BY <1>1, <2>1, <2>2, <2>4
    <3> QED
      BY <1>i, <2>4, <3>1 DEF LoadCounted, TypeOK
  <2> QED
    BY <2>3, <2>4
<1> QED
  BY <1>4, <1>5 DEF LoadCounted

(* An answer that is taken: with(tk, w) ends, and only that.               *)
LEMMA Removes ==
  ASSUME IInv, TypeOK', Up, NEW tk \in StreamToken, NEW w \in Worker,
         IsWith(tk, w), ~IsWith(tk, w)',
         \A v \in Worker, k \in StreamToken :
           k # tk \/ v # w => (IsWith(k, v)' <=> IsWith(k, v)) /\ (OneStage(k, v) => OneStage(k, v)'),
         DOMAIN processing' = DOMAIN processing \ {tk},
         num_reqs' = [num_reqs EXCEPT ![w] = @ - 1]
  PROVE  WorkInv' /\ LoadCounted'
<1>i. TypeOK /\ WorkInv /\ LoadCounted
  BY DEF IInv
<1>d. DOMAIN processing \subseteq StreamToken
  BY <1>i DEF TypeOK
<1>n. \A v \in Worker : v # w => ~IsWith(tk, v)
  BY <1>i DEF WorkInv
<1>1. \A v \in Worker, k \in StreamToken : IsWith(k, v)' <=> IsWith(k, v) /\ k # tk
  BY <1>n
<1>2. \A v \in Worker, k \in StreamToken : k # tk /\ OneStage(k, v) => OneStage(k, v)'
  OBVIOUS
<1>4. WorkInv'
  BY <1>i, <1>d, <1>1, <1>2 DEF WorkInv
<1>5. ASSUME NEW v \in Worker PROVE num_reqs'[v] = Cardinality(With(v)')
  <2>1. /\ \A k : k \in With(v) <=> IsWith(k, v)
        /\ \A k : k \in With(v)' <=> IsWith(k, v)'
    BY <1>i, WithMember, WithMemberNext
  <2>2. \A k : IsWith(k, v) \/ IsWith(k, v)' => k \in StreamToken
    BY <1>i DEF TypeOK, IsWith, Answered
  <2>3. CASE v = w
    <3>1. With(v)' = With(v) \ {tk} /\ tk \in With(v)
      BY <1>1, <2>1, <2>2, <2>3
    <3>2. Cardinality(With(v) \ {tk}) = Cardinality(With(v)) - 1
      BY <1>i, <3>1, WithFinite, FS_RemoveElement
    <3> QED
      BY <1>i, <2>3, <3>1, <3>2 DEF LoadCounted, TypeOK
  <2>4. CASE v # w
    <3>1. With(v)' = With(v)
      BY <1>n, <1>1, <2>1, <2>2, <2>4
    <3> QED
      BY <1>i, <2>4, <3>1 DEF LoadCounted, TypeOK
  <2> QED
    BY <2>3, <2>4
<1> QED
  BY <1>4, <1>5 DEF LoadCounted

(* The tokens of the answers of each kind.                                 *)
LEMMA KindsOf ==
  ASSUME NEW got \in SUBSET (StreamToken \X BOOLEAN), NEW k
  PROVE  /\ k \in {a[1] : a \in {b \in got : b[2]}} <=> <<k, TRUE>> \in got
         /\ k \in {a[1] : a \in {b \in got : ~b[2]}} <=> <<k, FALSE>> \in got
<1>1. ASSUME NEW a \in got PROVE a = <<a[1], a[2]>> /\ (a[2] = TRUE \/ a[2] = FALSE)
  <2>1. a \in StreamToken \X BOOLEAN
    OBVIOUS
  <2> QED
    BY <2>1
<1>2. <<k, TRUE>>[1] = k /\ <<k, TRUE>>[2] = TRUE /\ <<k, FALSE>>[1] = k /\ <<k, FALSE>>[2] = FALSE
  OBVIOUS
<1>3. ASSUME NEW a \in got, a[2], a[1] = k PROVE <<k, TRUE>> \in got
  <2>1. a = <<k, TRUE>>
    BY <1>1, <1>3
  <2> QED
    BY <2>1
<1>4. ASSUME NEW a \in got, ~a[2], a[1] = k PROVE <<k, FALSE>> \in got
  <2>1. a = <<k, FALSE>>
    BY <1>1, <1>4
  <2> QED
    BY <2>1
<1> QED
  BY <1>2, <1>3, <1>4

(* One step of the server or of a worker moves requests by one stage, adds *)
(* one or takes one; the steps that do not name them leave them where they *)
(* are, or end the server.                                                 *)
LEMMA WorkStep == IInv /\ TypeOK' /\ [Next]_vars => WorkInv' /\ LoadCounted'
<1> SUFFICES ASSUME IInv, TypeOK', [Next]_vars PROVE WorkInv' /\ LoadCounted'
  OBVIOUS
<1>i. TypeOK /\ TokenInv /\ WorkInv /\ LoadCounted
  BY DEF IInv
<1>t. TypeOK
  BY <1>i
<1> USE DEF clientVars, mapVars, unixVars, workerVars, sigVars
<1>u. ASSUME UNCHANGED <<processing, num_reqs, to_send, unix_out, held, unix_back, stream_tks,
                         stream_close_tks>>,
             Up' => Up
      PROVE  WorkInv' /\ LoadCounted'
  <2>1. CASE Up
    <3>1. SameWith
      <4>1. ASSUME NEW w \in Worker, NEW tk \in StreamToken
            PROVE  (IsWith(tk, w)' <=> IsWith(tk, w)) /\ (OneStage(tk, w)' <=> OneStage(tk, w))
        BY <1>u DEF IsWith, Answered, OneStage
      <4> QED
        BY <1>i, <2>1, <4>1 DEF SameWith, WorkInv
    <3> QED
      BY <1>u, <2>1, <3>1, Moves
  <2>2. CASE ~Up
    BY <1>u, <2>2 DEF WorkInv, LoadCounted
  <2> QED
    BY <2>1, <2>2
<1>f. ASSUME ~Up' PROVE WorkInv' /\ LoadCounted'
  BY <1>f DEF WorkInv, LoadCounted
<1>0. CASE UNCHANGED vars
  BY <1>u, <1>0 DEF vars, Up
<1>1. CASE Exit
  BY <1>f, <1>1 DEF Exit, Up, Stopped
<1>2. CASE Reregister \/ StartPoll \/ Accept \/ AcceptFails \/ EndRound
  BY <1>u, <1>2 DEF Reregister, StartPoll, Accept, AcceptFails, EndRound, TakeEvent, Up, Stopped
<1>7. ASSUME NEW w \in Worker, NEW tk \in stream_tks[w], KeepAlive(w, tk)
      PROVE  WorkInv' /\ LoadCounted'
  <2>1. /\ tk \in StreamToken /\ tk \in DOMAIN processing /\ Up
        /\ stream_tks' = [stream_tks EXCEPT ![w] = @ \ {tk}]
        /\ num_reqs' = [num_reqs EXCEPT ![w] = @ - 1]
        /\ UNCHANGED <<to_send, unix_out, held, unix_back, stream_close_tks>>
    BY <1>t, <1>7 DEF KeepAlive, TypeOK, Up, Stopped
  <2>2. DOMAIN processing' = DOMAIN processing \ {tk}
    BY <1>7, RemoveIs DEF KeepAlive
  <2>3. IsWith(tk, w) /\ OneStage(tk, w)
    BY <1>i, <2>1 DEF IsWith, WorkInv
  <2>4. ~IsWith(tk, w)'
    BY <1>t, <2>1, <2>3 DEF IsWith, OneStage, Answered, TypeOK
  <2>5. \A v \in Worker, k \in StreamToken :
          k # tk \/ v # w => (IsWith(k, v)' <=> IsWith(k, v)) /\ (OneStage(k, v) => OneStage(k, v)')
    BY <1>t, <2>1 DEF IsWith, OneStage, Answered, TypeOK
  <2> QED
    BY <2>1, <2>2, <2>3, <2>4, <2>5, Removes
<1>8. ASSUME NEW w \in Worker, NEW tk \in stream_close_tks[w], CloseStream(w, tk)
      PROVE  WorkInv' /\ LoadCounted'
  <2>1. /\ tk \in StreamToken /\ tk \in DOMAIN processing /\ Up
        /\ stream_close_tks' = [stream_close_tks EXCEPT ![w] = @ \ {tk}]
        /\ num_reqs' = [num_reqs EXCEPT ![w] = @ - 1]
        /\ UNCHANGED <<to_send, unix_out, held, unix_back, stream_tks>>
    BY <1>t, <1>8 DEF CloseStream, TypeOK, Up, Stopped
  <2>2. DOMAIN processing' = DOMAIN processing \ {tk}
    BY <1>8, RemoveIs DEF CloseStream
  <2>3. IsWith(tk, w) /\ OneStage(tk, w)
    BY <1>i, <2>1 DEF IsWith, WorkInv
  <2>4. ~IsWith(tk, w)'
    BY <1>t, <2>1, <2>3 DEF IsWith, OneStage, Answered, TypeOK
  <2>5. \A v \in Worker, k \in StreamToken :
          k # tk \/ v # w => (IsWith(k, v)' <=> IsWith(k, v)) /\ (OneStage(k, v) => OneStage(k, v)')
    BY <1>t, <2>1 DEF IsWith, OneStage, Answered, TypeOK
  <2> QED
    BY <2>1, <2>2, <2>3, <2>4, <2>5, Removes
<1>9. ASSUME NEW tk, Dispatch(tk) PROVE WorkInv' /\ LoadCounted'
  <2>1. tk \in StreamToken /\ tk \in DOMAIN reading /\ tk \notin DOMAIN processing /\ Up
    BY <1>i, <1>9 DEF Dispatch, TakeEvent, TypeOK, TokenInv, Up, Stopped
  <2>2. UNCHANGED <<unix_out, held, unix_back, stream_tks, stream_close_tks, loc>>
    BY <1>9 DEF Dispatch, TakeEvent
  <2>3. CASE UNCHANGED <<processing, num_reqs, to_send>>
    BY <1>u, <2>2, <2>3 DEF Up
  <2>4. CASE /\ processing' = Insert(processing, tk, reading[tk])
             /\ num_reqs' = [num_reqs EXCEPT ![LeastLoaded] = @ + 1]
             /\ to_send' = [to_send EXCEPT ![LeastLoaded] = @ \cup {tk}]
    <3>1. DOMAIN processing' = DOMAIN processing \cup {tk}
      BY <2>4, InsertIs
    <3>2. LeastLoaded \in Worker
      BY <1>t, LeastIsWorker
    <3> QED
      BY <2>1, <2>2, <2>4, <3>1, <3>2, Adds
  <2> QED
    BY <1>9, <2>3, <2>4 DEF Dispatch
<1>10. ASSUME NEW ev, UnknownToken(ev) PROVE WorkInv' /\ LoadCounted'
  BY <1>f, <1>10 DEF UnknownToken, Up, Stopped
<1>11. ASSUME NEW w \in Worker, NEW ready, UnixStream(w, ready) PROVE WorkInv' /\ LoadCounted'
  <2>1. PICK got \in AtMost(ReadMax, IF "readable" \in ready THEN unix_back[w] ELSE {}) :
          /\ unix_back' = [unix_back EXCEPT ![w] = @ \ got]
          /\ stream_tks' = [stream_tks EXCEPT ![w] = @ \cup {a[1] : a \in {b \in got : b[2]}}]
          /\ stream_close_tks' = [stream_close_tks EXCEPT
                                   ![w] = @ \cup {a[1] : a \in {b \in got : ~b[2]}}]
    BY <1>11 DEF UnixStream
  <2>2. PICK sent \in AtMost(FdQueue, IF "writable" \in ready /\ alive[w] THEN to_send[w] ELSE {}) :
          /\ to_send' = [to_send EXCEPT ![w] = @ \ sent]
          /\ unix_out' = [unix_out EXCEPT ![w] = @ \cup sent]
    BY <1>11 DEF UnixStream
  <2>3. got \subseteq unix_back[w] /\ got \subseteq StreamToken \X BOOLEAN /\ sent \subseteq to_send[w]
    BY <1>t, AtMostSubset DEF TypeOK
  <2>4. Up /\ UNCHANGED <<processing, num_reqs, held>>
    BY <1>11 DEF UnixStream, TakeEvent, Up, Stopped
  <2>5. \A k : /\ k \in {a[1] : a \in {b \in got : b[2]}} <=> <<k, TRUE>> \in got
               /\ k \in {a[1] : a \in {b \in got : ~b[2]}} <=> <<k, FALSE>> \in got
    BY <2>3, KindsOf
  <2>6. \A k \in StreamToken :
          /\ <<k, TRUE>> \in unix_back'[w] <=> <<k, TRUE>> \in unix_back[w] /\ <<k, TRUE>> \notin got
          /\ <<k, FALSE>> \in unix_back'[w] <=> <<k, FALSE>> \in unix_back[w] /\ <<k, FALSE>> \notin got
          /\ k \in stream_tks'[w] <=> k \in stream_tks[w] \/ <<k, TRUE>> \in got
          /\ k \in stream_close_tks'[w] <=> k \in stream_close_tks[w] \/ <<k, FALSE>> \in got
          /\ k \in to_send'[w] <=> k \in to_send[w] /\ k \notin sent
          /\ k \in unix_out'[w] <=> k \in unix_out[w] \/ k \in sent
          /\ k \in held'[w] <=> k \in held[w]
    BY <1>t, <2>1, <2>2, <2>4, <2>5 DEF TypeOK
  <2>7. ASSUME NEW k \in StreamToken
        PROVE  (IsWith(k, w)' <=> IsWith(k, w)) /\ (IsWith(k, w) => OneStage(k, w)')
    <3>1. IsWith(k, w) => OneStage(k, w)
      BY <1>i, <2>4 DEF WorkInv
    <3>2. (<<k, TRUE>> \in got => <<k, TRUE>> \in unix_back[w])
            /\ (<<k, FALSE>> \in got => <<k, FALSE>> \in unix_back[w])
             /\ (k \in sent => k \in to_send[w])
      BY <2>3
    <3>3. IsWith(k, w)' <=> IsWith(k, w)
      BY <2>6, <3>2 DEF IsWith, Answered
    <3>4. OneStage(k, w) => OneStage(k, w)'
      BY <2>6, <3>2 DEF OneStage, Answered
    <3> QED
      BY <3>1, <3>3, <3>4
  <2>8. ASSUME NEW v \in Worker, v # w, NEW k \in StreamToken
        PROVE  (IsWith(k, v)' <=> IsWith(k, v)) /\ (IsWith(k, v) => OneStage(k, v)')
    <3>1. IsWith(k, v) => OneStage(k, v)
      BY <1>i, <2>4 DEF WorkInv
    <3>2. /\ unix_back'[v] = unix_back[v] /\ stream_tks'[v] = stream_tks[v]
          /\ stream_close_tks'[v] = stream_close_tks[v] /\ to_send'[v] = to_send[v]
          /\ unix_out'[v] = unix_out[v] /\ held'[v] = held[v]
      BY <1>t, <2>1, <2>2, <2>4, <2>8 DEF TypeOK
    <3> QED
      BY <3>1, <3>2 DEF IsWith, OneStage, Answered
  <2>9. SameWith
    BY <2>7, <2>8 DEF SameWith
  <2> QED
    BY <2>4, <2>9, Moves
<1>12. ASSUME NEW reported, NEW fails, Poll(reported, fails) PROVE WorkInv' /\ LoadCounted'
  BY <1>u, <1>12 DEF Poll, Up, Stopped
<1>13. CASE Polling
  BY <1>12, <1>13 DEF Polling, PollReports, PollTimesOut, PollFails
<1>14. CASE Sigint \/ CtrlcHandler \/ WaitExpires
  BY <1>u, <1>14 DEF Sigint, CtrlcHandler, WaitExpires, Up
<1>17. ASSUME NEW c \in Client, Connect(c) \/ Send(c) PROVE WorkInv' /\ LoadCounted'
  BY <1>u, <1>17 DEF Connect, Send, Up
<1>18. ASSUME NEW w \in Worker, WorkerReads(w) PROVE WorkInv' /\ LoadCounted'
  <2>1. /\ held' = [held EXCEPT ![w] = @ \cup unix_out[w]] /\ unix_out' = [unix_out EXCEPT ![w] = {}]
        /\ Up /\ UNCHANGED <<processing, num_reqs, to_send, unix_back, stream_tks, stream_close_tks>>
    BY <1>18 DEF WorkerReads
  <2>2. ASSUME NEW v \in Worker, NEW k \in StreamToken
        PROVE  (IsWith(k, v)' <=> IsWith(k, v)) /\ (IsWith(k, v) => OneStage(k, v)')
    <3>1. IsWith(k, v) => OneStage(k, v)
      BY <1>i, <2>1 DEF WorkInv
    <3>2. CASE v = w
      BY <1>t, <2>1, <3>1, <3>2 DEF IsWith, OneStage, Answered, TypeOK
    <3>3. CASE v # w
      BY <1>t, <2>1, <3>1, <3>3 DEF IsWith, OneStage, Answered, TypeOK
    <3> QED
      BY <3>2, <3>3
  <2>3. SameWith
    BY <2>2 DEF SameWith
  <2> QED
    BY <2>1, <2>3, Moves
<1>19. ASSUME NEW w \in Worker, WorkerDies(w) PROVE WorkInv' /\ LoadCounted'
  BY <1>u, <1>19 DEF WorkerDies, Up
<1>20. ASSUME NEW w \in Worker, NEW tk \in held[w], NEW keep_alive \in BOOLEAN,
              WorkerAnswers(w, tk, keep_alive)
       PROVE  WorkInv' /\ LoadCounted'
  <2>1. /\ held' = [held EXCEPT ![w] = @ \ {tk}]
        /\ unix_back' = [unix_back EXCEPT ![w] = @ \cup {<<tk, keep_alive>>}]
        /\ Up /\ UNCHANGED <<processing, num_reqs, to_send, unix_out, stream_tks, stream_close_tks>>
    BY <1>20 DEF WorkerAnswers
  <2>2. tk \in StreamToken /\ IsWith(tk, w) /\ OneStage(tk, w)
    BY <1>i, <2>1 DEF IsWith, WorkInv, TypeOK
  <2>3. ASSUME NEW v \in Worker, NEW k \in StreamToken
        PROVE  (IsWith(k, v)' <=> IsWith(k, v)) /\ (IsWith(k, v) => OneStage(k, v)')
    <3>1. IsWith(k, v) => OneStage(k, v)
      BY <1>i, <2>1 DEF WorkInv
    <3>2. CASE v = w /\ k = tk
      <4>1. (<<tk, TRUE>> \in unix_back'[w] <=> keep_alive)
              /\ (<<tk, FALSE>> \in unix_back'[w] <=> ~keep_alive)
        BY <1>t, <2>1, <2>2 DEF OneStage, Answered, TypeOK
      <4>2. tk \notin held'[w]
        BY <1>t, <2>1 DEF TypeOK
      <4> QED
        BY <2>1, <2>2, <3>2, <4>1, <4>2 DEF IsWith, OneStage, Answered
    <3>3. CASE ~(v = w /\ k = tk)
      <4>1. \A b \in BOOLEAN : <<k, b>> \in unix_back'[v] <=> <<k, b>> \in unix_back[v]
        BY <1>t, <2>1, <3>3 DEF TypeOK
      <4>2. k \in held'[v] <=> k \in held[v]
        BY <1>t, <2>1, <3>3 DEF TypeOK
      <4> QED
        BY <2>1, <3>1, <4>1, <4>2 DEF IsWith, OneStage, Answered
    <3> QED
      BY <3>2, <3>3
  <2>4. SameWith
    BY <2>3 DEF SameWith
  <2> QED
    BY <2>1, <2>4, Moves
<1>21. CASE Stop
  BY <1>0, <1>21 DEF Stop
<1> QED
  BY <1>0, <1>1, <1>2, <1>7, <1>8, <1>9, <1>10, <1>11, <1>13, <1>14, <1>17, <1>18, <1>19, <1>20,
     <1>21 DEF Next, Loop, Environment

(* A worker keeps a stream alive only while that has tokens left.          *)
LEMMA KeepStep == IInv /\ [Next]_vars => KeepInv'
<1> SUFFICES ASSUME IInv, [Next]_vars, NEW w \in Worker, NEW tk \in StreamToken,
                    tk \in stream_tks'[w] \/ <<tk, TRUE>> \in unix_back'[w]
             PROVE  Round(tk) < KeepAliveBound
  BY DEF KeepInv
<1>t. TypeOK
  BY DEF IInv
<1>k. tk \in stream_tks[w] \/ <<tk, TRUE>> \in unix_back[w] => Round(tk) < KeepAliveBound
  BY DEF IInv, KeepInv
<1> USE DEF clientVars, mapVars, unixVars, workerVars, sigVars
<1>u. ASSUME UNCHANGED <<stream_tks, unix_back>> PROVE Round(tk) < KeepAliveBound
  BY <1>k, <1>u
<1>0. CASE UNCHANGED vars
  BY <1>u, <1>0 DEF vars
<1>1. CASE Exit \/ Reregister \/ StartPoll \/ Accept \/ AcceptFails \/ EndRound
  BY <1>u, <1>1 DEF Exit, Reregister, StartPoll, Accept, AcceptFails, EndRound, TakeEvent
<1>7. ASSUME NEW v \in Worker, NEW k, KeepAlive(v, k) PROVE Round(tk) < KeepAliveBound
  BY <1>t, <1>k, <1>7 DEF KeepAlive, TypeOK
<1>8. ASSUME NEW v, NEW k, CloseStream(v, k) PROVE Round(tk) < KeepAliveBound
  BY <1>u, <1>8 DEF CloseStream
<1>9. ASSUME NEW k, Dispatch(k) PROVE Round(tk) < KeepAliveBound
  BY <1>u, <1>9 DEF Dispatch
<1>10. ASSUME NEW ev, UnknownToken(ev) PROVE Round(tk) < KeepAliveBound
  BY <1>u, <1>10 DEF UnknownToken
<1>11. ASSUME NEW v \in Worker, NEW ready, UnixStream(v, ready) PROVE Round(tk) < KeepAliveBound
  <2>1. PICK got \in AtMost(ReadMax, IF "readable" \in ready THEN unix_back[v] ELSE {}) :
          /\ unix_back' = [unix_back EXCEPT ![v] = @ \ got]
          /\ stream_tks' = [stream_tks EXCEPT ![v] = @ \cup {a[1] : a \in {b \in got : b[2]}}]
    BY <1>11 DEF UnixStream
  <2>2. got \subseteq unix_back[v] /\ got \subseteq StreamToken \X BOOLEAN
    BY <1>t, AtMostSubset DEF TypeOK
  <2>3. tk \in {a[1] : a \in {b \in got : b[2]}} <=> <<tk, TRUE>> \in got
    BY <2>2, KindsOf
  <2> QED
    BY <1>t, <1>k, <2>1, <2>2, <2>3 DEF TypeOK
<1>12. ASSUME NEW reported, NEW fails, Poll(reported, fails) PROVE Round(tk) < KeepAliveBound
  BY <1>u, <1>12 DEF Poll
<1>13. CASE Polling
  BY <1>12, <1>13 DEF Polling, PollReports, PollTimesOut, PollFails
<1>14. CASE Sigint \/ CtrlcHandler \/ WaitExpires
  BY <1>u, <1>14 DEF Sigint, CtrlcHandler, WaitExpires
<1>17. ASSUME NEW c \in Client, Connect(c) \/ Send(c) PROVE Round(tk) < KeepAliveBound
  BY <1>u, <1>17 DEF Connect, Send
<1>18. ASSUME NEW v, WorkerReads(v) \/ WorkerDies(v) PROVE Round(tk) < KeepAliveBound
  BY <1>u, <1>18 DEF WorkerReads, WorkerDies
<1>19. ASSUME NEW v \in Worker, NEW k \in held[v], NEW keep_alive \in BOOLEAN,
              WorkerAnswers(v, k, keep_alive)
       PROVE  Round(tk) < KeepAliveBound
  <2>1. /\ unix_back' = [unix_back EXCEPT ![v] = @ \cup {<<k, keep_alive>>}]
        /\ stream_tks' = stream_tks /\ (keep_alive => Round(k) < KeepAliveBound)
    BY <1>19 DEF WorkerAnswers
  <2>2. <<tk, TRUE>> \in unix_back'[w] => <<tk, TRUE>> \in unix_back[w] \/ (tk = k /\ keep_alive)
    BY <1>t, <2>1 DEF TypeOK
  <2> QED
    BY <1>k, <2>1, <2>2
<1>20. CASE Stop
  BY <1>0, <1>20 DEF Stop
<1> QED
  BY <1>0, <1>1, <1>7, <1>8, <1>9, <1>10, <1>11, <1>13, <1>14, <1>17, <1>18, <1>19, <1>20
     DEF Next, Loop, Environment

-----------------------------------------------------------------------------
(* The inductive invariant.                                                *)

(* The types hold at the start.                                            *)
LEMMA InitType == Init => TypeOK
<1> SUFFICES ASSUME Init PROVE TypeOK
  OBVIOUS
<1>1. MapOK(reading) /\ MapOK(processing)
  BY EmptyIs DEF Init, MapOK
<1>2. stream_count \in 0 .. Cardinality(Client)
  BY Clients DEF Init
<1>3. /\ client \in [Client -> {"new", "backlog", "open", "closed"}] /\ readable \subseteq Client
      /\ listener \in {"armed", "ready", "gone"} /\ edge \subseteq Worker
      /\ loc \in {"top", "return", "poll", "events"} \cup Stopped
      /\ events \subseteq ({SERVER_TOKEN} \cup Worker \cup StreamToken) \X Condition
      /\ run_shutdown \in BOOLEAN
  BY DEF Init
<1>4. /\ num_reqs \in [Worker -> Nat] /\ interest \in [Worker -> Condition]
      /\ to_send \in [Worker -> SUBSET StreamToken] /\ alive \in [Worker -> BOOLEAN]
      /\ stream_tks \in [Worker -> SUBSET StreamToken]
      /\ stream_close_tks \in [Worker -> SUBSET StreamToken]
  BY DEF Init, Condition
<1>5. /\ unix_out \in [Worker -> SUBSET StreamToken] /\ held \in [Worker -> SUBSET StreamToken]
      /\ unix_back \in [Worker -> SUBSET (StreamToken \X BOOLEAN)]
  BY DEF Init
<1>6. signals \in 0 .. SigintBound /\ unhandled \in 0 .. signals
  BY ServerAssumption DEF Init
<1>7. /\ interrupted \in BOOLEAN /\ running \in BOOLEAN /\ close_now \in BOOLEAN
      /\ expired \in BOOLEAN
  BY DEF Init
<1> QED
  BY <1>1, <1>2, <1>3, <1>4, <1>5, <1>6, <1>7 DEF TypeOK, MapOK

(* The invariant holds at the start.                                       *)
LEMMA InitInv == Init => IInv
<1> SUFFICES ASSUME Init PROVE IInv
  OBVIOUS
<1>1. TypeOK
  BY InitType
<1>2. DOMAIN reading = {} /\ DOMAIN processing = {}
  BY EmptyIs DEF Init
<1>3. IsFiniteSet({}) /\ Cardinality({}) = 0
  BY FS_EmptySet
<1>4. TokenInv
  BY <1>2 DEF TokenInv, Tokens
<1>5. AcceptInv
  <2>1. Accepted = {}
    BY DEF Init, Accepted
  <2> QED
    BY <1>3, <2>1 DEF Init, AcceptInv
<1>6. OnceInv
  BY <1>2 DEF Init, OnceInv, Once, Has
<1>7. LimitInv
  BY <1>2, <1>3, ServerAssumption DEF LimitInv
<1>8. \A w \in Worker, tk \in StreamToken : ~IsWith(tk, w)
  BY DEF Init, IsWith, Answered
<1>9. WorkInv
  BY <1>2, <1>8 DEF WorkInv
<1>10. KeepInv
  BY DEF Init, KeepInv
<1>11. ASSUME NEW w \in Worker PROVE With(w) = {} /\ num_reqs[w] = 0
  <2>1. num_reqs[w] = 0
    BY DEF Init
  <2>2. ASSUME NEW tk \in With(w) PROVE FALSE
    <3>1. IsWith(tk, w) /\ tk \in StreamToken
      BY <1>1, WithMember, WithFinite
    <3> QED
      BY <1>8, <3>1
  <2> QED
    BY <2>1, <2>2
<1>12. LoadCounted
  BY <1>3, <1>11 DEF LoadCounted
<1> QED
  BY <1>1, <1>4, <1>5, <1>6, <1>7, <1>9, <1>10, <1>12 DEF IInv

(* Every step keeps the invariant.                                         *)
LEMMA InvStep == IInv /\ [Next]_vars => IInv'
<1> SUFFICES ASSUME IInv, [Next]_vars PROVE IInv'
  OBVIOUS
<1>1. TypeOK'
  BY TypeStep
<1>2. TokenInv' /\ AcceptInv' /\ OnceInv' /\ LimitInv'
  BY MapSteps, TokenStep, AcceptStep, OnceStep, LimitStep
<1>3. WorkInv' /\ LoadCounted'
  BY <1>1, WorkStep
<1> QED
  BY <1>1, <1>2, <1>3, KeepStep DEF IInv

(* The invariant holds in every reachable state, whatever the number of    *)
(* clients and workers, the limit and the faults.                          *)
THEOREM ServerInvariant == Spec => []IInv
<1>1. IInv /\ [Next]_vars => IInv'
  BY InvStep
<1> QED
  BY <1>1, InitInv, PTL DEF Spec

-----------------------------------------------------------------------------
(* The properties.                                                         *)

(* The state of the server and of its workers keeps its type: no count     *)
(* underflows, and every token is one of a stream that was accepted        *)
(* (server/mod.rs:18-26, unixstreams.rs:124-147).                          *)
THEOREM ServerTypes == Spec => []TypeOK
<1>1. IInv => TypeOK
  BY DEF IInv
<1> QED
  BY <1>1, ServerInvariant, PTL

(* The load that dispatch compares is right, whatever is in flight         *)
(* (unixstreams.rs:124-147).                                               *)
THEOREM LoadIsCounted == Spec => []LoadCounted
<1>1. IInv => LoadCounted
  BY DEF IInv
<1> QED
  BY <1>1, ServerInvariant, PTL

(* Every open stream is in one map under one token, as long as no stream   *)
(* is kept alive beyond its range of tokens (server/mod.rs:57-58, 99).     *)
THEOREM StreamsOnce == Spec => []EachStreamOnce
<1>1. IInv => EachStreamOnce
  <2> SUFFICES ASSUME IInv PROVE EachStreamOnce
    OBVIOUS
  <2>i. TypeOK /\ OnceInv
    BY DEF IInv
  <2>1. \A c \in Client : Once(c)
    BY <2>i DEF OnceInv
  <2>2. /\ \A c : c \in Streams(reading) <=> Has(reading, c)
        /\ \A c : c \in Streams(processing) <=> Has(processing, c)
    BY DEF Streams, Has
  <2>3. /\ \A k \in DOMAIN reading : reading[k] \in Client
        /\ \A k \in DOMAIN processing : processing[k] \in Client
    BY <2>i, HeldAreOpen
  <2>4. Streams(reading) \subseteq Client /\ Streams(processing) \subseteq Client
    BY <2>3 DEF Streams
  <2>5. Streams(reading) \cup Streams(processing) = {c \in Client : client[c] = "open"}
    BY <2>1, <2>2, <2>4 DEF Once
  <2>6. Streams(reading) \cap Streams(processing) = {}
    BY <2>1, <2>2, <2>4 DEF Once
  <2>7. \A j, k \in DOMAIN reading : reading[j] = reading[k] => j = k
    BY <2>1, <2>3 DEF Once
  <2>8. \A j, k \in DOMAIN processing : processing[j] = processing[k] => j = k
    BY <2>1, <2>3 DEF Once
  <2> QED
    BY <2>5, <2>6, <2>7, <2>8 DEF EachStreamOnce
<1> QED
  BY <1>1, ServerInvariant, PTL

(* Open streams are in the maps, so there are no more of them than tokens. *)
LEMMA OpenCount ==
  ASSUME IInv
  PROVE  Cardinality({c \in Client : client[c] = "open"})
           <= Cardinality(DOMAIN reading) + Cardinality(DOMAIN processing)
<1>i. TypeOK /\ OnceInv /\ LimitInv
  BY DEF IInv
<1> DEFINE R == {reading[k] : k \in DOMAIN reading}
           P == {processing[k] : k \in DOMAIN processing}
<1>1. IsFiniteSet(DOMAIN reading) /\ IsFiniteSet(DOMAIN processing)
  BY <1>i DEF LimitInv
<1>2. reading = [k \in DOMAIN reading |-> reading[k]]
        /\ processing = [k \in DOMAIN processing |-> processing[k]]
  BY <1>i DEF TypeOK
<1>3. IsFiniteSet(R) /\ Cardinality(R) <= Cardinality(DOMAIN reading)
  BY <1>1, <1>2, ImageFinite
<1>4. IsFiniteSet(P) /\ Cardinality(P) <= Cardinality(DOMAIN processing)
  BY <1>1, <1>2, ImageFinite
<1>5. {c \in Client : client[c] = "open"} \subseteq R \cup P
  BY <1>i DEF OnceInv, Once, Has
<1> HIDE DEF R, P
<1>6. /\ IsFiniteSet(R \cup P)
      /\ Cardinality(R \cup P) = Cardinality(R) + Cardinality(P) - Cardinality(R \cap P)
  BY <1>3, <1>4, FS_Union
<1>7. IsFiniteSet(R \cap P)
  BY <1>3, FS_Intersection
<1>8. Cardinality({c \in Client : client[c] = "open"}) <= Cardinality(R \cup P)
  BY <1>5, <1>6, FS_Subset
<1>9. IsFiniteSet({c \in Client : client[c] = "open"})
  BY <1>5, <1>6, FS_Subset
<1>10. /\ Cardinality({c \in Client : client[c] = "open"}) \in Nat
       /\ Cardinality(R) \in Nat /\ Cardinality(P) \in Nat /\ Cardinality(R \cap P) \in Nat
       /\ Cardinality(DOMAIN reading) \in Nat /\ Cardinality(DOMAIN processing) \in Nat
  BY <1>1, <1>3, <1>4, <1>7, <1>9, FS_CardinalityType
<1> QED
  BY <1>3, <1>4, <1>6, <1>8, <1>10

(* No more than max_conns streams are open (server/mod.rs:148).            *)
THEOREM ConnsAreBounded == Spec => []ConnsBounded
<1>1. IInv => ConnsBounded
  <2> SUFFICES ASSUME IInv PROVE ConnsBounded
    OBVIOUS
  <2>1. /\ IsFiniteSet(DOMAIN reading) /\ IsFiniteSet(DOMAIN processing)
        /\ Cardinality(DOMAIN reading) + Cardinality(DOMAIN processing) <= MaxConns
    BY DEF IInv, LimitInv
  <2>2. IsFiniteSet({c \in Client : client[c] = "open"})
    BY FS_Subset, ServerAssumption
  <2>3. /\ Cardinality({c \in Client : client[c] = "open"}) \in Nat
        /\ Cardinality(DOMAIN reading) \in Nat /\ Cardinality(DOMAIN processing) \in Nat
    BY <2>1, <2>2, FS_CardinalityType
  <2> QED
    BY <2>1, <2>3, OpenCount, ServerAssumption DEF ConnsBounded
<1> QED
  BY <1>1, ServerInvariant, PTL

(* The streams in processing_streams are those of the requests that are    *)
(* with a worker, each of them with one and in one stage: the expects of   *)
(* server/mod.rs:96,121 hold.                                              *)
THEOREM ProcessingWithWorkers == Spec => []ProcessingIsWithWorkers
<1>1. IInv => ProcessingIsWithWorkers
  <2> SUFFICES ASSUME IInv, Up PROVE ProcessingIsWithWorkers
    BY DEF ProcessingIsWithWorkers
  <2>i. TypeOK /\ WorkInv
    BY DEF IInv
  <2>1. \A w \in Worker : \A tk : tk \in With(w) <=> tk \in StreamToken /\ IsWith(tk, w)
    BY <2>i, WithMember, WithFinite
  <2>2. DOMAIN processing = UNION {With(w) : w \in Worker}
    <3>1. DOMAIN processing \subseteq StreamToken
      BY <2>i DEF TypeOK
    <3> QED
      BY <2>i, <2>1, <3>1 DEF WorkInv
  <2>3. \A v, w \in Worker : v # w => With(v) \cap With(w) = {}
    BY <2>i, <2>1 DEF WorkInv
  <2>4. ASSUME NEW w \in Worker, NEW i \in 1 .. 6, NEW j \in 1 .. 6, i # j
        PROVE  Stages(w)[i] \cap Stages(w)[j] = {}
    <3>1. ASSUME NEW tk \in Stages(w)[i], tk \in Stages(w)[j] PROVE FALSE
      <4>1. tk \in With(w)
        BY DEF With
      <4>2. OneStage(tk, w)
        BY <2>i, <2>1, <4>1 DEF WorkInv
      <4>3. tk \in {a[1] : a \in unix_back[w]} <=> Answered(tk, w)
        <5>1. unix_back[w] \in SUBSET (StreamToken \X BOOLEAN)
          BY <2>i DEF TypeOK
        <5> QED
          BY <5>1, PairsFirst DEF Answered
      <4>4. /\ Stages(w)[1] = to_send[w] /\ Stages(w)[2] = unix_out[w] /\ Stages(w)[3] = held[w]
            /\ Stages(w)[4] = {a[1] : a \in unix_back[w]}
            /\ Stages(w)[5] = stream_tks[w] /\ Stages(w)[6] = stream_close_tks[w]
        BY DEF Stages
      <4>5. i \in {1, 2, 3, 4, 5, 6} /\ j \in {1, 2, 3, 4, 5, 6}
        OBVIOUS
      <4> QED
        BY <2>4, <3>1, <4>2, <4>3, <4>4, <4>5 DEF OneStage
    <3> QED
      BY <3>1
  <2> QED
    BY <2>2, <2>3, <2>4 DEF ProcessingIsWithWorkers
<1> QED
  BY <1>1, ServerInvariant, PTL
=============================================================================
