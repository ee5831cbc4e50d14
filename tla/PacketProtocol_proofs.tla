----------------------- MODULE PacketProtocol_proofs -----------------------
(***************************************************************************)
(* Theorems about PacketProtocol, for every size of the window, number of  *)
(* packets, losses and resets: an end's higher level is given the other    *)
(* end's packets in order and once, a packet is let go of only when it was *)
(* given, and a packet that came too early is kept.                        *)
(*                                                                         *)
(* The argument follows one direction, from transmitter t to receiver r,   *)
(* with packets known by their whole numbers: what is on the circuit is so *)
(* close to what the receiver expects that a number modulo SEQMOD says     *)
(* which packet is meant.  The data of t on their way are those on the     *)
(* circuit, and behind them those still queued (flow).  Answers come back  *)
(* in the order in which they were sent.  The answer to a reset parts the  *)
(* data of two epochs when t has no data queued; when it has, the answer   *)
(* goes ahead of them, r is one of crossed, and nothing is shown of what r *)
(* is given.                                                               *)
(***************************************************************************)
EXTENDS PacketProtocol, Integers, SequenceTheorems, FiniteSetTheorems,
        WellFoundedInduction, TLAPS

(* The sequence number of packet n + 1.                                     *)
Number(n) == n % SEQMOD

-----------------------------------------------------------------------------
(* Arithmetic modulo M.                                                     *)

LEMMA Divided ==
  ASSUME NEW M \in Nat \ {0}, NEW n \in Nat
  PROVE  n % M \in 0 .. M - 1 /\ n \div M \in Nat /\ n = (M * (n \div M)) + (n % M)
  OBVIOUS

LEMMA Multiples ==
  ASSUME NEW M \in Nat \ {0}, NEW i \in Int, NEW j \in Int, i < j
  PROVE  M * i \in Int /\ M * j \in Int /\ M * j >= M * i + M
<1>1. j = i + 1 + (j - i - 1) /\ j - i - 1 \in Nat
  OBVIOUS
<1>2. M * (j - i - 1) \in Nat
  BY <1>1
<1>3. M * j = M * i + M + M * (j - i - 1)
  OBVIOUS
<1>4. QED
  BY <1>2, <1>3

LEMMA Remainder ==
  ASSUME NEW M \in Nat \ {0}, NEW i \in Int, NEW j \in Int,
         NEW r \in 0 .. M - 1, NEW s \in 0 .. M - 1, M * i + r = M * j + s
  PROVE  r = s
<1>1. M * i \in Int /\ M * j \in Int
  OBVIOUS
<1>2. ~(i < j) /\ ~(j < i)
  BY Multiples, <1>1
<1>3. QED
  BY <1>1, <1>2

(* The same remainder within M numbers is the same number.                  *)
LEMMA SameRemainder ==
  ASSUME NEW M \in Nat \ {0}, NEW n \in Nat, NEW p \in Nat, n % M = p % M,
         n <= p, p < n + M
  PROVE  n = p
<1> DEFINE i == n \div M
           j == p \div M
           r == n % M
<1>1. n = M * i + r /\ p = M * j + r
  BY Divided
<1>2. i \in Int /\ j \in Int /\ r \in 0 .. M - 1
  BY Divided
<1> HIDE DEF i, j, r
<1>3. M * i \in Int /\ M * j \in Int /\ M * j >= M * i /\ M * j < M * i + M
  BY <1>1, <1>2
<1>4. ~(j < i) /\ ~(i < j)
  BY Multiples, <1>2, <1>3
<1>5. QED
  BY <1>1, <1>2, <1>4

LEMMA RemainderPlus ==
  ASSUME NEW M \in Nat \ {0}, NEW n \in Nat, NEW k \in Nat
  PROVE  ((n % M) + k) % M = (n + k) % M
<1> DEFINE a == n \div M
           r == n % M
           b == (r + k) \div M
           s == (r + k) % M
           c == (n + k) \div M
           u == (n + k) % M
<1>1. n + k \in Nat /\ r \in Nat /\ r + k \in Nat
  BY Divided
<1>2. n = M * a + r /\ r + k = M * b + s /\ n + k = M * c + u
  BY Divided, <1>1
<1>3. a \in Int /\ b \in Int /\ c \in Int /\ r \in 0 .. M - 1 /\ s \in 0 .. M - 1 /\ u \in 0 .. M - 1
  BY Divided, <1>1
<1> HIDE DEF a, b, c, r, s, u
<1>4. M * (a + b) = M * a + M * b /\ a + b \in Int
  BY <1>3
<1>5. M * (a + b) + s = M * c + u
  BY <1>1, <1>2, <1>3, <1>4
<1>6. s = u
  BY <1>3, <1>4, <1>5, Remainder
<1>7. QED
  BY <1>6 DEF s, u, r

LEMMA RemainderAround ==
  ASSUME NEW M \in Nat \ {0}, NEW n \in Nat
  PROVE  (n + M) % M = n % M /\ (n < M => n % M = n)
<1> DEFINE i == n \div M
           j == (n + M) \div M
           r == n % M
           s == (n + M) % M
<1>1. n = M * i + r /\ n + M = M * j + s
  BY Divided
<1>2. i \in Int /\ j \in Int /\ r \in 0 .. M - 1 /\ s \in 0 .. M - 1
  BY Divided
<1>3. n < M => n % M = n
  OBVIOUS
<1> HIDE DEF i, j, r, s
<1>4. M * (i + 1) = M * i + M /\ i + 1 \in Int
  BY <1>2
<1>5. M * (i + 1) + r = M * j + s
  BY <1>1, <1>2, <1>4
<1>6. r = s
  BY <1>2, <1>4, <1>5, Remainder
<1>7. QED
  BY <1>3, <1>6 DEF r, s

-----------------------------------------------------------------------------
(* The sizes, sequence numbers and slots.                                   *)

LEMMA Sizes ==
  /\ SEQMOD \in Nat \ {0} /\ NPKTBUFS \in Nat /\ SEQMOD = 2 * NPKTBUFS /\ NPKTBUFS >= 2
  /\ Pnbufs \in Nat \ {0} /\ Pnbufs <= NPKTBUFS
  BY ProtocolAssumption DEF NPKTBUFS

LEMMA NumberIn ==
  ASSUME NEW n \in Nat
  PROVE  Number(n) \in 0 .. SEQMOD - 1
  BY Sizes, Divided DEF Number

(* Numbers less than SEQMOD apart are told apart.                           *)
LEMMA NumberSame ==
  ASSUME NEW n \in Nat, NEW p \in Nat, Number(n) = Number(p),
         n < p + SEQMOD, p < n + SEQMOD
  PROVE  n = p
<1>1. SEQMOD \in Nat \ {0}
  BY Sizes
<1>2. n <= p \/ p <= n
  OBVIOUS
<1>3. QED
  BY <1>1, <1>2, SameRemainder DEF Number

LEMMA NumberAround ==
  ASSUME NEW n \in Nat
  PROVE  Number(n + SEQMOD) = Number(n)
  BY Sizes, RemainderAround DEF Number

LEMMA NumberAhead ==
  ASSUME NEW n \in Nat, NEW k \in Nat
  PROVE  Ahead(Number(n), k) = Number(n + k)
  BY Sizes, RemainderPlus DEF Number, Ahead

LEMMA NumberBack ==
  ASSUME NEW n \in Nat, NEW k \in 0 .. SEQMOD
  PROVE  Back(Number(n), k) = Number(n + (SEQMOD - k))
<1>1. SEQMOD \in Nat \ {0} /\ SEQMOD - k \in Nat /\ Number(n) \in Nat
  BY Sizes, NumberIn
<1>2. Number(n) + SEQMOD - k = Number(n) + (SEQMOD - k)
  BY <1>1
<1>3. QED
  BY <1>1, <1>2, RemainderPlus DEF Number, Back

LEMMA BackIn ==
  ASSUME NEW s \in 0 .. SEQMOD - 1, NEW k \in 0 .. SEQMOD
  PROVE  Back(s, k) \in 0 .. SEQMOD - 1
<1>1. s + SEQMOD - k \in Nat /\ SEQMOD \in Nat \ {0}
  BY Sizes
<1>2. QED
  BY <1>1, Divided DEF Back

LEMMA AheadIn ==
  ASSUME NEW s \in 0 .. SEQMOD - 1, NEW k \in Nat
  PROVE  Ahead(s, k) \in 0 .. SEQMOD - 1
<1>1. s + k \in Nat /\ SEQMOD \in Nat \ {0}
  BY Sizes
<1>2. QED
  BY <1>1, Divided DEF Ahead

LEMMA AfterIs ==
  ASSUME NEW p \in Slots, NEW i \in 0 .. Pnbufs
  PROVE  /\ After(p, i) = IF p + i < Pnbufs THEN p + i ELSE p + i - Pnbufs
         /\ After(p, i) \in Slots
<1>1. Pnbufs \in Nat \ {0} /\ p \in Nat /\ p + i \in Nat
  BY Sizes DEF Slots
<1>2. CASE p + i < Pnbufs
  <2>1. (p + i) % Pnbufs = p + i
    BY <1>1, <1>2, RemainderAround
  <2>2. QED
    BY <1>1, <1>2, <2>1 DEF After, Slots
<1>3. CASE p + i >= Pnbufs
  <2>1. p + i - Pnbufs \in Nat /\ p + i - Pnbufs < Pnbufs /\ (p + i - Pnbufs) + Pnbufs = p + i
    BY <1>1, <1>3 DEF Slots
  <2>2. (p + i) % Pnbufs = (p + i - Pnbufs) % Pnbufs /\ (p + i - Pnbufs) % Pnbufs = p + i - Pnbufs
    BY <1>1, <2>1, RemainderAround
  <2>3. QED
    BY <1>1, <1>3, <2>1, <2>2 DEF After, Slots
<1>4. QED
  BY <1>1, <1>2, <1>3

-----------------------------------------------------------------------------
(* Induction, for a set of numbers, up to a bound.                          *)
LEMMA SetInduction ==
  ASSUME NEW S, 0 \in S, \A n \in Nat : n \in S => n + 1 \in S
  PROVE  Nat \subseteq S
<1> DEFINE R == {p \in Nat \X Nat : p[1] < p[2]}
           T == {n \in Nat : n \notin S}
<1>1. IsWellFoundedOn(R, Nat)
  BY NatLessThanWellFounded DEF OpToRel
<1>2. SUFFICES ASSUME T # {} PROVE FALSE
  OBVIOUS
<1>3. T \subseteq Nat
  OBVIOUS
<1>4. \E x \in T : \A y \in T : <<y, x>> \notin R
  <2> HIDE DEF T, R
  <2> QED
    BY <1>1, <1>2, <1>3, WFMin
<1>5. PICK x \in T : \A y \in T : <<y, x>> \notin R
  BY <1>4
<1>6. x # 0 /\ x - 1 \in Nat /\ (x - 1) + 1 = x
  OBVIOUS
<1>7. x - 1 \in T
  BY <1>6
<1>8. <<x - 1, x>> \in R
  BY <1>6
<1>9. QED
  BY <1>5, <1>7, <1>8

LEMMA BoundedInduction ==
  ASSUME NEW N \in Nat, NEW S, 0 \in S, \A k \in 1 .. N : k - 1 \in S => k \in S
  PROVE  0 .. N \subseteq S
<1> DEFINE T == {n \in Nat : n <= N => n \in S}
<1>1. 0 \in T
  OBVIOUS
<1>2. ASSUME NEW n \in Nat, n \in T PROVE n + 1 \in T
  <2>1. CASE n + 1 <= N
    <3>1. n \in S /\ n + 1 \in 1 .. N /\ (n + 1) - 1 = n
      BY <1>2, <2>1
    <3>2. QED
      BY <3>1
  <2>2. QED
    BY <2>1
<1>3. Nat \subseteq T
  <2> HIDE DEF T
  <2> QED
    BY <1>1, <1>2, SetInduction
<1>4. QED
  BY <1>3

(* A set of numbers that is not empty has a least one.                      *)
LEMMA MinIsLeast ==
  ASSUME NEW S \in SUBSET Nat, S # {}
  PROVE  Min(S) \in S /\ \A x \in S : Min(S) <= x
<1> DEFINE R == {p \in Nat \X Nat : p[1] < p[2]}
<1>1. IsWellFoundedOn(R, Nat)
  BY NatLessThanWellFounded DEF OpToRel
<1>2. \E x \in S : \A y \in S : <<y, x>> \notin R
  <2> HIDE DEF R
  <2> QED
    BY <1>1, WFMin
<1>3. \E x \in S : \A y \in S : x <= y
  <2>1. PICK x \in S : \A y \in S : <<y, x>> \notin R
    BY <1>2
  <2>2. ASSUME NEW y \in S PROVE x <= y
    <3>1. x \in Nat /\ y \in Nat /\ ~(y < x)
      BY <2>1
    <3>2. QED
      BY <3>1
  <2>3. QED
    BY <2>2
<1>4. QED
  BY <1>3 DEF Min

(* A walk of N steps, in a set T that the steps F do not leave.             *)
IsWalk(w, N, T, a, F) ==
  w \in [0 .. N -> T] /\ w[0] = a /\ \A k \in 1 .. N : w[k] = F[<<w[k - 1], k>>]

LEMMA WalkExists ==
  ASSUME NEW N \in Nat, NEW T, NEW a \in T, NEW F \in [T \X (1 .. N) -> T]
  PROVE  \E w : IsWalk(w, N, T, a, F)
<1> DEFINE S == {n \in 0 .. N : \E w : IsWalk(w, n, T, a, F)}
<1>1. 0 \in S
  <2>1. IsWalk([k \in 0 .. 0 |-> a], 0, T, a, F)
    BY DEF IsWalk
  <2>2. QED
    BY <2>1
<1>2. ASSUME NEW n \in 1 .. N, n - 1 \in S PROVE n \in S
  <2>1. PICK w : IsWalk(w, n - 1, T, a, F)
    BY <1>2
  <2>2. /\ w \in [0 .. n - 1 -> T] /\ w[0] = a
        /\ \A k \in 1 .. n - 1 : w[k] = F[<<w[k - 1], k>>]
    BY <2>1 DEF IsWalk
  <2>3. w[n - 1] \in T
    BY <2>2
  <2>4. F[<<w[n - 1], n>>] \in T
    BY <2>3
  <2> DEFINE last == F[<<w[n - 1], n>>]
             h == [k \in 0 .. n |-> IF k = n THEN last ELSE w[k]]
  <2>5. h \in [0 .. n -> T] /\ h[0] = a
    <3> HIDE DEF last
    <3> QED
      BY <2>2, <2>4 DEF last
  <2>6. ASSUME NEW k \in 1 .. n PROVE h[k] = F[<<h[k - 1], k>>]
    <3>1. h[k - 1] = w[k - 1] /\ (k = n => h[k] = last)
      OBVIOUS
    <3>2. k # n => k \in 1 .. n - 1 /\ h[k] = w[k]
      OBVIOUS
    <3> HIDE DEF h
    <3>3. QED
      BY <2>2, <3>1, <3>2
  <2>7. IsWalk(h, n, T, a, F)
    <3> HIDE DEF h
    <3> QED
      BY <2>5, <2>6 DEF IsWalk
  <2>8. \E g : IsWalk(g, n, T, a, F)
    <3> HIDE DEF h
    <3> QED
      BY <2>7
  <2>9. QED
    BY <2>8
<1>3. 0 .. N \subseteq S
  <2> HIDE DEF S
  <2> QED
    BY <1>1, <1>2, BoundedInduction
<1>4. QED
  BY <1>3

-----------------------------------------------------------------------------
(* What is in a queue, and what is in front of what.                        *)
Elems(s) == {s[i] : i \in 1 .. Len(s)}
Before(s, p, q) == \E i, j \in 1 .. Len(s) : i < j /\ s[i] = p /\ s[j] = q

LEMMA BeforeElems ==
  ASSUME NEW s, NEW p, NEW q, Before(s, p, q)
  PROVE  p \in Elems(s) /\ q \in Elems(s)
  BY DEF Before, Elems

LEMMA TailParts ==
  ASSUME NEW S, NEW s \in Seq(S), s # <<>>
  PROVE  /\ Tail(s) \in Seq(S) /\ Head(s) \in S
         /\ Elems(s) = Elems(Tail(s)) \cup {Head(s)}
         /\ \A p, q : Before(Tail(s), p, q) => Before(s, p, q)
         /\ \A q \in Elems(Tail(s)) : Before(s, Head(s), q)
<1>1. /\ Tail(s) \in Seq(S) /\ Head(s) \in S /\ Head(s) = s[1]
      /\ Len(s) \in Nat \ {0} /\ Len(Tail(s)) = Len(s) - 1
      /\ \A i \in 1 .. Len(s) - 1 : Tail(s)[i] = s[i + 1]
  BY HeadTailProperties
<1>2. ASSUME NEW i \in 1 .. Len(Tail(s))
      PROVE  i + 1 \in 1 .. Len(s) /\ 1 < i + 1 /\ Tail(s)[i] = s[i + 1]
  BY <1>1
<1>3. ASSUME NEW i \in 1 .. Len(s), i # 1
      PROVE  i - 1 \in 1 .. Len(Tail(s)) /\ Tail(s)[i - 1] = s[i]
  <2>1. i - 1 \in 1 .. Len(s) - 1 /\ (i - 1) + 1 = i
    BY <1>1, <1>3
  <2>2. QED
    BY <1>1, <2>1
<1>4. 1 \in 1 .. Len(s)
  BY <1>1
<1>5. Elems(s) = Elems(Tail(s)) \cup {Head(s)}
  <2>1. Elems(Tail(s)) \subseteq Elems(s) /\ Head(s) \in Elems(s)
    BY <1>1, <1>2, <1>4 DEF Elems
  <2>2. Elems(s) \subseteq Elems(Tail(s)) \cup {Head(s)}
    BY <1>1, <1>3 DEF Elems
  <2>3. QED
    BY <2>1, <2>2
<1>6. ASSUME NEW p, NEW q, Before(Tail(s), p, q) PROVE Before(s, p, q)
  <2>1. PICK i, j \in 1 .. Len(Tail(s)) : i < j /\ Tail(s)[i] = p /\ Tail(s)[j] = q
    BY <1>6 DEF Before
  <2>2. i + 1 \in 1 .. Len(s) /\ j + 1 \in 1 .. Len(s) /\ i + 1 < j + 1 /\ s[i + 1] = p /\ s[j + 1] = q
    BY <1>2, <2>1
  <2>3. QED
    BY <2>2 DEF Before
<1>7. ASSUME NEW q \in Elems(Tail(s)) PROVE Before(s, Head(s), q)
  <2>1. PICK j \in 1 .. Len(Tail(s)) : Tail(s)[j] = q
    BY DEF Elems
  <2>2. j + 1 \in 1 .. Len(s) /\ 1 < j + 1 /\ s[j + 1] = q
    BY <1>2, <2>1
  <2>3. QED
    BY <1>1, <1>4, <2>2 DEF Before
<1>8. QED
  BY <1>1, <1>5, <1>6, <1>7

LEMMA ConcatParts ==
  ASSUME NEW S, NEW s \in Seq(S), NEW t \in Seq(S)
  PROVE  /\ s \o t \in Seq(S)
         /\ Elems(s \o t) = Elems(s) \cup Elems(t)
         /\ \A p, q : Before(s \o t, p, q) =>
              \/ Before(s, p, q)
              \/ Before(t, p, q)
              \/ p \in Elems(s) /\ q \in Elems(t)
<1> DEFINE u == s \o t
<1>1. /\ u \in Seq(S) /\ Len(s) \in Nat /\ Len(t) \in Nat /\ Len(u) = Len(s) + Len(t)
      /\ \A i \in 1 .. Len(s) + Len(t) : u[i] = IF i <= Len(s) THEN s[i] ELSE t[i - Len(s)]
  BY ConcatProperties
<1> HIDE DEF u
<1>2. ASSUME NEW i \in 1 .. Len(u)
      PROVE  \/ i <= Len(s) /\ i \in 1 .. Len(s) /\ u[i] = s[i]
             \/ i > Len(s) /\ i - Len(s) \in 1 .. Len(t) /\ u[i] = t[i - Len(s)]
  BY <1>1
<1>3. ASSUME NEW i \in 1 .. Len(s) PROVE i \in 1 .. Len(u) /\ u[i] = s[i]
  BY <1>1
<1>4. ASSUME NEW i \in 1 .. Len(t) PROVE i + Len(s) \in 1 .. Len(u) /\ u[i + Len(s)] = t[i]
  <2>1. i + Len(s) \in 1 .. Len(s) + Len(t) /\ ~(i + Len(s) <= Len(s)) /\ (i + Len(s)) - Len(s) = i
    BY <1>1
  <2>2. QED
    BY <1>1, <2>1
<1>5. Elems(u) = Elems(s) \cup Elems(t)
  <2>1. Elems(u) \subseteq Elems(s) \cup Elems(t)
    BY <1>2 DEF Elems
  <2>2. Elems(s) \subseteq Elems(u)
    BY <1>3 DEF Elems
  <2>3. Elems(t) \subseteq Elems(u)
    BY <1>4 DEF Elems
  <2>4. QED
    BY <2>1, <2>2, <2>3
<1>6. ASSUME NEW p, NEW q, Before(u, p, q)
      PROVE  Before(s, p, q) \/ Before(t, p, q) \/ (p \in Elems(s) /\ q \in Elems(t))
  <2>1. PICK i, j \in 1 .. Len(u) : i < j /\ u[i] = p /\ u[j] = q
    BY <1>6 DEF Before
  <2>2. CASE j <= Len(s)
    <3>1. i \in 1 .. Len(s) /\ j \in 1 .. Len(s) /\ s[i] = p /\ s[j] = q
      BY <1>1, <1>2, <2>1, <2>2
    <3>2. QED
      BY <2>1, <3>1 DEF Before
  <2>3. CASE j > Len(s) /\ i <= Len(s)
    <3>1. i \in 1 .. Len(s) /\ s[i] = p /\ j - Len(s) \in 1 .. Len(t) /\ t[j - Len(s)] = q
      BY <1>1, <1>2, <2>1, <2>3
    <3>2. QED
      BY <3>1 DEF Elems
  <2>4. CASE i > Len(s)
    <3>1. /\ i - Len(s) \in 1 .. Len(t) /\ j - Len(s) \in 1 .. Len(t)
          /\ t[i - Len(s)] = p /\ t[j - Len(s)] = q /\ i - Len(s) < j - Len(s)
      BY <1>1, <1>2, <2>1, <2>4
    <3>2. QED
      BY <3>1 DEF Before
  <2>5. QED
    BY <1>1, <2>1, <2>2, <2>3, <2>4
<1>7. QED
  BY <1>1, <1>5, <1>6 DEF u

LEMMA ShortParts ==
  /\ Elems(<<>>) = {} /\ \A p, q : ~Before(<<>>, p, q)
  /\ \A a : Elems(<<a>>) = {a} /\ \A p, q : ~Before(<<a>>, p, q)
  /\ \A a, b : Elems(<<a, b>>) = {a, b} /\ \A p, q : Before(<<a, b>>, p, q) => p = a /\ q = b
<1>1. Elems(<<>>) = {} /\ \A p, q : ~Before(<<>>, p, q)
  BY DEF Elems, Before
<1>2. ASSUME NEW a PROVE Elems(<<a>>) = {a} /\ \A p, q : ~Before(<<a>>, p, q)
  <2>1. Len(<<a>>) = 1 /\ <<a>>[1] = a /\ 1 .. 1 = {1}
    OBVIOUS
  <2>2. QED
    BY <2>1 DEF Elems, Before
<1>3. ASSUME NEW a, NEW b
      PROVE  Elems(<<a, b>>) = {a, b} /\ \A p, q : Before(<<a, b>>, p, q) => p = a /\ q = b
  <2>1. Len(<<a, b>>) = 2 /\ <<a, b>>[1] = a /\ <<a, b>>[2] = b /\ 1 .. 2 = {1, 2}
    OBVIOUS
  <2>2. QED
    BY <2>1 DEF Elems, Before
<1>4. QED
  BY <1>1, <1>2, <1>3

-----------------------------------------------------------------------------
(* The transmitter.                                                         *)
Datum == [ep : Nat, n : Nat]
SlotRecords == [seq : 0 .. SEQMOD - 1, state : {"NULL", "WAIT", "NAK"}, data : Datum]
Doings == [x : XmitRecords, out : Seq(Packets), freed : Nat]

LEMMA XmitFields ==
  ASSUME NEW x \in XmitRecords
  PROVE  /\ x.state \in {"IDLE", "ACTIVE", "RESET"} /\ x.n \in Nat /\ x.nx \in Slots
         /\ x.slot \in [Slots -> SlotRecords]
         /\ \A p \in Slots : /\ x.slot[p] \in SlotRecords /\ x.slot[p].data \in Datum
                             /\ x.slot[p].seq \in 0 .. SEQMOD - 1
                             /\ x.slot[p].state \in {"NULL", "WAIT", "NAK"}
<1>1. /\ x.state \in {"IDLE", "ACTIVE", "RESET"} /\ x.n \in Nat /\ x.nx \in Slots
      /\ x.slot \in [Slots -> SlotRecords]
  BY DEF XmitRecords, SlotRecords, Datum
<1>2. QED
  BY <1>1 DEF SlotRecords

LEMMA DoingFields ==
  ASSUME NEW a \in Doings
  PROVE  a.x \in XmitRecords /\ a.out \in Seq(Packets) /\ a.freed \in Nat
  BY DEF Doings

(* A slot that is marked.                                                   *)
LEMMA MarkedIs ==
  ASSUME NEW x \in XmitRecords, NEW p \in Slots, NEW st \in {"NULL", "WAIT", "NAK"}
  PROVE  LET y == Marked(x, p, st)
         IN  /\ y \in XmitRecords /\ y.state = x.state /\ y.n = x.n /\ y.nx = x.nx
             /\ \A q \in Slots : q # p => y.slot[q] = x.slot[q]
             /\ y.slot[p].state = st /\ y.slot[p].data = x.slot[p].data /\ y.slot[p].seq = x.slot[p].seq
<1> DEFINE s == [x.slot[p] EXCEPT !.state = st]
           t == [x.slot EXCEPT ![p] = s]
           y == Marked(x, p, st)
<1>1. x.slot \in [Slots -> SlotRecords] /\ x.slot[p] \in SlotRecords
  BY XmitFields
<1>2. s \in SlotRecords /\ s.state = st /\ s.data = x.slot[p].data /\ s.seq = x.slot[p].seq
  BY <1>1 DEF SlotRecords
<1>3. y = [x EXCEPT !.slot = t]
  BY DEF Marked
<1>4. t \in [Slots -> SlotRecords] /\ t[p] = s /\ \A q \in Slots : q # p => t[q] = x.slot[q]
  <2> HIDE DEF s
  <2> QED
    BY <1>1, <1>2
<1> HIDE DEF t, s, y
<1>5. y \in XmitRecords /\ y.state = x.state /\ y.n = x.n /\ y.nx = x.nx /\ y.slot = t
  BY <1>3, <1>4 DEF XmitRecords, SlotRecords, Datum
<1>6. QED
  BY <1>2, <1>4, <1>5 DEF y

(* What a packet sent again adds.                                           *)
Repeat(x, p) == DataPacket(x.slot[p], p)

LEMMA ResendIs ==
  ASSUME NEW a \in Doings, NEW p \in Slots
  PROVE  /\ Resend(a, p) \in Doings /\ Resend(a, p).x = a.x /\ Resend(a, p).freed = a.freed
         /\ Repeat(a.x, p) \in Packets
         /\ Resend(a, p).out = a.out \o <<Repeat(a.x, p)>>
<1>1. a.x \in XmitRecords /\ a.out \in Seq(Packets) /\ a.freed \in Nat
  BY DoingFields
<1>2. a.x.slot[p].data \in Datum /\ a.x.slot[p].seq \in 0 .. SEQMOD - 1
  BY <1>1, XmitFields
<1>3. Repeat(a.x, p) \in Packets
  BY <1>2 DEF Repeat, DataPacket, Packets, PacketTypes, Datum
<1> DEFINE new == Repeat(a.x, p)
<1>4. Resend(a, p) = [a EXCEPT !.out = Append(a.out, new)]
  BY DEF Resend, Repeat
<1> HIDE DEF new
<1>5. Append(a.out, new) \in Seq(Packets) /\ Append(a.out, new) = a.out \o <<new>>
  BY <1>1, <1>3, AppendProperties, AppendIsConcat DEF new
<1>6. QED
  BY <1>1, <1>3, <1>4, <1>5 DEF Doings, new

(* What Psend does when it sends: slot p takes the packet, ...              *)
Sends(a, b, e, p) ==
  LET d == [ep |-> epoch[e], n |-> a.x.n + 1]
      new == [seq |-> Number(a.x.n), state |-> "WAIT", data |-> d]
  IN  /\ b.x.n = a.x.n + 1 /\ b.x.nx = a.x.nx /\ b.x.state = "ACTIVE"
      /\ b.x.slot[p] = new
      /\ \A q \in Slots : q # p => b.x.slot[q] = a.x.slot[q]
      /\ DataPacket(new, p) \in Packets
      /\ b.out = a.out \o <<DataPacket(new, p)>>
      /\ b.freed = a.freed

(* ... which is the first free one.                                         *)
FirstFree(x, i) ==
  /\ i \in Slots
  /\ x.slot[After(x.nx, i)].state = "NULL"
  /\ \A j \in Slots : j < i => x.slot[After(x.nx, j)].state # "NULL"

LEMMA PsendIs ==
  ASSUME NEW a \in Doings, NEW e \in Ends, epoch[e] \in Nat
  PROVE  /\ Psend(a, e) \in Doings
         /\ \/ Psend(a, e) = a
            \/ \E i : FirstFree(a.x, i) /\ Sends(a, Psend(a, e), e, After(a.x.nx, i))
<1>1. a.x \in XmitRecords /\ a.out \in Seq(Packets) /\ a.freed \in Nat
  BY DoingFields
<1>2. a.x.n \in Nat /\ a.x.nx \in Slots /\ a.x.slot \in [Slots -> SlotRecords]
  BY <1>1, XmitFields
<1>3. CASE Free(a.x) = {} \/ a.x.n >= MaxSend
  BY <1>3 DEF Psend
<1>4. CASE ~(Free(a.x) = {} \/ a.x.n >= MaxSend)
  <2> DEFINE i == Min(Free(a.x))
             p == After(a.x.nx, i)
             d == [ep |-> epoch[e], n |-> a.x.n + 1]
             new == [seq |-> Number(a.x.n), state |-> "WAIT", data |-> d]
             pkt == DataPacket(new, p)
             t == [a.x.slot EXCEPT ![p] = new]
             x2 == [a.x EXCEPT !.slot = t, !.n = a.x.n + 1, !.state = "ACTIVE"]
             b == [a EXCEPT !.x = x2, !.out = Append(a.out, pkt)]
  <2>1. Free(a.x) \in SUBSET Nat /\ Slots \in SUBSET Nat
    BY Sizes DEF Free, Slots
  <2>2. i \in Free(a.x) /\ \A j \in Free(a.x) : i <= j
    BY <1>4, <2>1, MinIsLeast
  <2>3. FirstFree(a.x, i)
    <3> HIDE DEF i
    <3>1. \A j \in Slots : j < i => ~(i <= j)
      BY <2>1, <2>2
    <3>2. QED
      BY <2>2, <3>1 DEF FirstFree, Free
  <2>4. p \in Slots
    <3>1. i \in 0 .. Pnbufs
      BY <2>2, Sizes DEF Free, Slots
    <3>2. QED
      BY <1>2, <3>1, AfterIs
  <2>5. Psend(a, e) = b
    BY <1>4 DEF Psend, Number
  <2> HIDE DEF i
  <2>6. d \in Datum /\ Number(a.x.n) \in 0 .. SEQMOD - 1
    BY <1>2, NumberIn DEF Datum
  <2>7. new \in SlotRecords /\ pkt \in Packets
    <3> HIDE DEF d, p
    <3> QED
      BY <2>4, <2>6 DEF SlotRecords, DataPacket, Packets, PacketTypes, Datum
  <2>8. t \in [Slots -> SlotRecords] /\ t[p] = new /\ \A q \in Slots : q # p => t[q] = a.x.slot[q]
    <3> HIDE DEF p, new
    <3> QED
      BY <1>2, <2>4, <2>7
  <2>9. /\ x2 \in XmitRecords /\ x2.n = a.x.n + 1 /\ x2.nx = a.x.nx /\ x2.state = "ACTIVE"
        /\ x2.slot = t
    <3> DEFINE x1 == a.x
               m == a.x.n + 1
               st == "ACTIVE"
    <3>1. x1 \in XmitRecords /\ x2 = [x1 EXCEPT !.slot = t, !.n = m, !.state = st]
      BY <1>1
    <3>2. st \in {"IDLE", "ACTIVE", "RESET"} /\ m \in Nat /\ t \in [Slots -> SlotRecords]
      BY <1>2, <2>8
    <3> HIDE DEF x1, m, st, t, x2
    <3>3. x2 \in XmitRecords /\ x2.n = m /\ x2.nx = x1.nx /\ x2.state = st /\ x2.slot = t
      BY <3>1, <3>2 DEF XmitRecords, SlotRecords, Datum
    <3>4. QED
      BY <3>3 DEF x1, m, st
  <2>10. Append(a.out, pkt) \in Seq(Packets) /\ Append(a.out, pkt) = a.out \o <<pkt>>
    <3> HIDE DEF pkt
    <3> QED
      BY <1>1, <2>7, AppendProperties, AppendIsConcat
  <2>11. b \in Doings /\ b.x = x2 /\ b.out = a.out \o <<pkt>> /\ b.freed = a.freed
    <3> HIDE DEF x2, pkt
    <3> QED
      BY <1>1, <2>9, <2>10 DEF Doings
  <2>12. Sends(a, b, e, p)
    <3>1. b.x.slot[p] = new /\ \A q \in Slots : q # p => b.x.slot[q] = a.x.slot[q]
      <4> HIDE DEF x2, t, new, p, b
      <4> QED
        BY <2>8, <2>9, <2>11
    <3>2. b.x.n = a.x.n + 1 /\ b.x.nx = a.x.nx /\ b.x.state = "ACTIVE"
      <4> HIDE DEF x2, b
      <4> QED
        BY <2>9, <2>11
    <3> HIDE DEF b, p
    <3>3. QED
      BY <2>7, <2>11, <3>1, <3>2 DEF Sends
  <2>13. QED
    <3> HIDE DEF b, p
    <3> QED
      BY <2>3, <2>5, <2>11, <2>12 DEF p
<1>5. QED
  BY <1>3, <1>4

(* A slot freed.                                                            *)
Frees(a, b) ==
  LET p == a.x.nx
  IN  /\ b.x.n = a.x.n /\ b.x.nx = After(p, 1) /\ b.x.state = a.x.state
      /\ b.x.slot[p].state = "NULL"
      /\ \A q \in Slots : q # p => b.x.slot[q] = a.x.slot[q]
      /\ b.out = a.out
      /\ b.freed = IF a.x.slot[p].state = "NULL" THEN a.freed ELSE a.freed + 1

LEMMA FreeNextIs ==
  ASSUME NEW a \in Doings
  PROVE  FreeNext(a) \in Doings /\ Frees(a, FreeNext(a))
<1>1. a.x \in XmitRecords /\ a.out \in Seq(Packets) /\ a.freed \in Nat /\ a.x.nx \in Slots
  BY DoingFields, XmitFields
<1> DEFINE p == a.x.nx
           y == Marked(a.x, p, "NULL")
           x2 == [y EXCEPT !.nx = After(p, 1)]
           f == IF a.x.slot[p].state = "NULL" THEN a.freed ELSE a.freed + 1
           b == [a EXCEPT !.x = x2, !.freed = f]
<1>2. /\ y \in XmitRecords /\ y.state = a.x.state /\ y.n = a.x.n /\ y.nx = a.x.nx
      /\ \A q \in Slots : q # p => y.slot[q] = a.x.slot[q]
      /\ y.slot[p].state = "NULL"
  <2>1. a.x \in XmitRecords /\ p \in Slots /\ "NULL" \in {"NULL", "WAIT", "NAK"}
    BY <1>1
  <2> HIDE DEF p
  <2>2. QED
    BY <2>1, MarkedIs
<1>3. After(p, 1) \in Slots
  BY <1>1, Sizes, AfterIs
<1>4. FreeNext(a) = b
  <2>1. [y EXCEPT !.nx = After(@, 1)] = [y EXCEPT !.nx = After(y.nx, 1)]
    BY DEF Marked
  <2> HIDE DEF y
  <2>2. [y EXCEPT !.nx = After(@, 1)] = x2
    BY <1>2, <2>1
  <2>3. FreeNext(a) = [a EXCEPT !.x = [y EXCEPT !.nx = After(@, 1)], !.freed = f]
    BY DEF FreeNext, y
  <2>4. QED
    BY <2>2, <2>3
<1> HIDE DEF y
<1>5. /\ x2 \in XmitRecords /\ x2.state = y.state /\ x2.n = y.n /\ x2.nx = After(p, 1)
      /\ x2.slot = y.slot
  <2> HIDE DEF p
  <2> QED
    BY <1>2, <1>3 DEF XmitRecords
<1>6. f \in Nat
  BY <1>1
<1>7. b \in Doings /\ b.x = x2 /\ b.out = a.out /\ b.freed = f
  <2> HIDE DEF x2, f
  <2> QED
    BY <1>1, <1>5, <1>6 DEF Doings
<1> HIDE DEF x2, b
<1>8. Frees(a, b)
  BY <1>2, <1>5, <1>7 DEF Frees
<1>9. QED
  BY <1>4, <1>7, <1>8

(* One of the steps of Rack.                                                *)
LEMMA RackStepIs ==
  ASSUME NEW a \in Doings, NEW e \in Ends, epoch[e] \in Nat, NEW t, NEW more
  PROVE  /\ RackStep(a, e, t, more) \in Doings
         /\ \/ RackStep(a, e, t, more) = a
            \/ /\ a.x.slot[a.x.nx].seq = t
               /\ RackStep(a, e, t, more) \in {FreeNext(a), Psend(FreeNext(a), e)}
<1>1. FreeNext(a) \in Doings /\ Psend(FreeNext(a), e) \in Doings
  BY FreeNextIs, PsendIs
<1>2. QED
  BY <1>1 DEF RackStep

(* The walk of Rack, ...                                                    *)
RackWalk(w, a, e, s, more) ==
  /\ w \in [0 .. Pnbufs -> Doings] /\ w[0] = a
  /\ \A k \in 1 .. Pnbufs : w[k] = RackStep(w[k - 1], e, Back(s, Pnbufs - k), more)
  /\ Rack(a, e, s, more) = w[Pnbufs]

LEMMA RackIs ==
  ASSUME NEW a \in Doings, NEW e \in Ends, epoch[e] \in Nat, NEW s, NEW more
  PROVE  \E w : RackWalk(w, a, e, s, more)
<1> DEFINE N == Pnbufs
           Step(v, k) == RackStep(v, e, Back(s, N - k), more)
           F == [p \in Doings \X (1 .. N) |-> Step(p[1], p[2])]
           Is(w) == w = [k \in 0 .. N |-> IF k = 0 THEN a ELSE Step(w[k - 1], k)]
           made == CHOOSE w : Is(w)
<1>1. N \in Nat
  BY Sizes
<1>2. \A v \in Doings, k \in 1 .. N : Step(v, k) \in Doings
  BY RackStepIs
<1>3. F \in [Doings \X (1 .. N) -> Doings] /\ \A v \in Doings, k \in 1 .. N : F[<<v, k>>] = Step(v, k)
  <2> HIDE DEF Step, N
  <2> QED
    BY <1>2
<1>4. \E w : IsWalk(w, N, Doings, a, F)
  <2> HIDE DEF F, N
  <2> QED
    BY <1>1, <1>3, WalkExists
<1>5. PICK w : IsWalk(w, N, Doings, a, F)
  BY <1>4
<1> HIDE DEF F, Step
<1>6. \A k \in 1 .. N : w[k] = Step(w[k - 1], k)
  <2>1. ASSUME NEW k \in 1 .. N PROVE w[k] = Step(w[k - 1], k)
    <3>1. w[k - 1] \in Doings /\ w[k] = F[<<w[k - 1], k>>]
      BY <1>1, <1>5 DEF IsWalk
    <3>2. QED
      BY <1>3, <3>1
  <2>2. QED
    BY <2>1
<1>7. Is(w)
  <2>1. w = [k \in 0 .. N |-> w[k]] /\ w[0] = a
    BY <1>5 DEF IsWalk
  <2>2. ASSUME NEW k \in 0 .. N PROVE w[k] = IF k = 0 THEN a ELSE Step(w[k - 1], k)
    <3>1. k # 0 => k \in 1 .. N
      BY <1>1
    <3>2. QED
      BY <1>6, <2>1, <3>1
  <2>3. QED
    BY <2>1, <2>2
<1>8. Is(made)
  <2> HIDE DEF Is
  <2> QED
    BY <1>7
<1>9. Rack(a, e, s, more) = made[N]
  BY DEF Rack, Step
<1> HIDE DEF made
<1>10. \A k \in 0 .. N : made[k] = IF k = 0 THEN a ELSE Step(made[k - 1], k)
  <2>1. made = [k \in 0 .. N |-> IF k = 0 THEN a ELSE Step(made[k - 1], k)]
    BY <1>8
  <2>2. QED
    BY <2>1, Zenon
<1> DEFINE S == {k \in 0 .. N : made[k] \in Doings}
<1>11. 0 .. N \subseteq S
  <2>1. 0 \in S
    BY <1>1, <1>10
  <2>2. ASSUME NEW k \in 1 .. N, k - 1 \in S PROVE k \in S
    <3>1. k \in 0 .. N /\ k # 0 /\ made[k - 1] \in Doings
      BY <2>2
    <3>2. made[k] = Step(made[k - 1], k) /\ Step(made[k - 1], k) \in Doings
      BY <1>2, <1>10, <3>1
    <3>3. QED
      BY <3>1, <3>2
  <2> HIDE DEF S, N
  <2>3. QED
    BY <1>1, <2>1, <2>2, BoundedInduction
<1>12. made \in [0 .. N -> Doings]
  <2>1. made = [k \in 0 .. N |-> IF k = 0 THEN a ELSE Step(made[k - 1], k)]
    BY <1>8
  <2>2. \A k \in 0 .. N : made[k] \in Doings
    BY <1>11
  <2>3. made = [k \in 0 .. N |-> made[k]]
    BY <1>10, <2>1
  <2>4. QED
    BY <2>2, <2>3
<1>13. RackWalk(made, a, e, s, more)
  <2>1. made[0] = a /\ \A k \in 1 .. N : made[k] = Step(made[k - 1], k)
    BY <1>1, <1>10
  <2>2. QED
    BY <1>9, <1>12, <2>1 DEF RackWalk, Step
<1>14. QED
  BY <1>13

(* One of the steps of Rnak, ...                                            *)
Nakings == [a : Doings, hit : Nat, done : BOOLEAN]

LEMMA AfterIn ==
  ASSUME NEW p \in Slots, NEW i \in Nat
  PROVE  After(p, i) \in Slots
<1>1. p + i \in Nat /\ Pnbufs \in Nat \ {0}
  BY Sizes DEF Slots
<1>2. QED
  BY <1>1, Divided DEF After, Slots

NakStep(b, c, t, s) ==
  LET p == After(b.a.x.nx, b.hit)
  IN  \/ c = b
      \/ /\ b.a.x.slot[p].state = "WAIT" /\ b.a.x.slot[p].seq = s
         /\ c.hit = b.hit
         /\ c.a.x = Marked(b.a.x, p, "NAK") /\ c.a.out = b.a.out /\ c.a.freed = b.a.freed
      \/ /\ c.hit = b.hit + 1
         /\ \/ c.a = b.a
            \/ b.a.x.slot[p].state = "WAIT" /\ c.a = Resend(b.a, p)

LEMMA RnakStepIs ==
  ASSUME NEW b \in Nakings, NEW t, NEW s
  PROVE  RnakStep(b, t, s) \in Nakings /\ NakStep(b, RnakStep(b, t, s), t, s)
<1> DEFINE a == b.a
           p == After(a.x.nx, b.hit)
           slot == a.x.slot[p]
           c == RnakStep(b, t, s)
<1>1. a \in Doings /\ b.hit \in Nat /\ b.done \in BOOLEAN
  BY DEF Nakings
<1>2. a.x \in XmitRecords /\ a.out \in Seq(Packets) /\ a.freed \in Nat /\ a.x.nx \in Slots
  BY <1>1, DoingFields, XmitFields
<1>3. p \in Slots
  BY <1>1, <1>2, AfterIn
<1>4. CASE b.done \/ slot.seq # t
  <2>1. c = b
    BY <1>4 DEF RnakStep
  <2>2. QED
    BY <2>1 DEF NakStep
<1>5. CASE ~(b.done \/ slot.seq # t) /\ slot.state = "WAIT" /\ t = s
  <2> DEFINE y == Marked(a.x, p, "NAK")
             a2 == [a EXCEPT !.x = y]
  <2>1. y \in XmitRecords
    <3>1. "NAK" \in {"NULL", "WAIT", "NAK"}
      OBVIOUS
    <3> HIDE DEF p
    <3>2. QED
      BY <1>2, <1>3, <3>1, MarkedIs
  <2>2. c = [b EXCEPT !.a = MarkNAK(a, p), !.done = TRUE]
    BY <1>5 DEF RnakStep
  <2> HIDE DEF y
  <2>3. a2 \in Doings /\ a2.x = y /\ a2.out = a.out /\ a2.freed = a.freed
    <3> HIDE DEF a
    <3> QED
      BY <1>1, <1>2, <2>1 DEF Doings
  <2>4. c = [b EXCEPT !.a = a2, !.done = TRUE]
    BY <2>2 DEF y, MarkNAK
  <2> HIDE DEF a2, c
  <2>5. c \in Nakings /\ c.a = a2 /\ c.hit = b.hit
    BY <1>1, <2>3, <2>4 DEF Nakings
  <2>6. QED
    BY <1>5, <2>3, <2>5 DEF NakStep, y, c
<1>6. CASE ~(b.done \/ slot.seq # t) /\ ~(slot.state = "WAIT" /\ t = s)
  <2> DEFINE a2 == IF slot.state = "WAIT" /\ t = Back(s, 1) THEN Resend(a, p) ELSE a
  <2>1. a2 \in Doings
    <3> HIDE DEF p
    <3> QED
      BY <1>1, <1>3, ResendIs
  <2>2. c = [b EXCEPT !.hit = b.hit + 1, !.a = a2]
    BY <1>6 DEF RnakStep
  <2>3. a2 = a \/ (slot.state = "WAIT" /\ a2 = Resend(a, p))
    OBVIOUS
  <2> HIDE DEF a2, c
  <2>4. c \in Nakings /\ c.a = a2 /\ c.hit = b.hit + 1
    <3> DEFINE h == b.hit + 1
    <3>1. h \in Nat
      BY <1>1
    <3>2. c = [b EXCEPT !.hit = h, !.a = a2]
      BY <2>2
    <3> HIDE DEF h
    <3>3. c \in Nakings /\ c.a = a2 /\ c.hit = h
      BY <1>1, <2>1, <3>1, <3>2 DEF Nakings
    <3>4. QED
      BY <3>3 DEF h
  <2>5. QED
    BY <2>3, <2>4 DEF NakStep, c
<1>7. QED
  BY <1>4, <1>5, <1>6

(* ... its walk, ...                                                      *)
RnakWalk(w, a, s) ==
  /\ w \in [0 .. Pnbufs -> Nakings] /\ w[0] = [a |-> a, hit |-> 0, done |-> FALSE]
  /\ \A k \in 1 .. Pnbufs : w[k] = RnakStep(w[k - 1], Back(s, Pnbufs - k), s)
  /\ Rnak(a, s) = w[Pnbufs].a

LEMMA RnakIs ==
  ASSUME NEW a \in Doings, NEW s
  PROVE  \E w : RnakWalk(w, a, s)
<1> DEFINE N == Pnbufs
           z == [a |-> a, hit |-> 0, done |-> FALSE]
           Step(v, k) == RnakStep(v, Back(s, N - k), s)
           F == [p \in Nakings \X (1 .. N) |-> Step(p[1], p[2])]
           Is(w) == w = [k \in 0 .. N |-> IF k = 0 THEN z ELSE Step(w[k - 1], k)]
           made == CHOOSE w : Is(w)
<1>1. N \in Nat
  BY Sizes
<1>2. z \in Nakings /\ \A v \in Nakings, k \in 1 .. N : Step(v, k) \in Nakings
  <2>1. z \in Nakings
    BY DEF Nakings
  <2>2. QED
    BY <2>1, RnakStepIs
<1>3. F \in [Nakings \X (1 .. N) -> Nakings] /\ \A v \in Nakings, k \in 1 .. N : F[<<v, k>>] = Step(v, k)
  <2> HIDE DEF Step, N, z
  <2> QED
    BY <1>2
<1>4. \E w : IsWalk(w, N, Nakings, z, F)
  <2> HIDE DEF F, N, z
  <2> QED
    BY <1>1, <1>2, <1>3, WalkExists
<1>5. PICK w : IsWalk(w, N, Nakings, z, F)
  BY <1>4
<1>9. Rnak(a, s) = made[N].a
  BY DEF Rnak, Step, z
<1> HIDE DEF F, Step, z
<1>6. ASSUME NEW k \in 1 .. N PROVE w[k] = Step(w[k - 1], k)
  <2>1. w[k - 1] \in Nakings /\ w[k] = F[<<w[k - 1], k>>]
    BY <1>1, <1>5 DEF IsWalk
  <2>2. QED
    BY <1>3, <2>1
<1>7. Is(w)
  <2>1. w = [k \in 0 .. N |-> w[k]] /\ w[0] = z
    BY <1>5 DEF IsWalk
  <2>2. ASSUME NEW k \in 0 .. N PROVE w[k] = IF k = 0 THEN z ELSE Step(w[k - 1], k)
    <3>1. k # 0 => k \in 1 .. N
      BY <1>1
    <3>2. QED
      BY <1>6, <2>1, <3>1
  <2>3. QED
    BY <2>1, <2>2
<1>8. Is(made)
  <2> HIDE DEF Is
  <2> QED
    BY <1>7
<1> HIDE DEF made
<1>10. \A k \in 0 .. N : made[k] = IF k = 0 THEN z ELSE Step(made[k - 1], k)
  <2>1. made = [k \in 0 .. N |-> IF k = 0 THEN z ELSE Step(made[k - 1], k)]
    BY <1>8
  <2>2. QED
    BY <2>1, Zenon
<1> DEFINE S == {k \in 0 .. N : made[k] \in Nakings}
<1>11. 0 .. N \subseteq S
  <2>1. 0 \in S
    BY <1>1, <1>2, <1>10
  <2>2. ASSUME NEW k \in 1 .. N, k - 1 \in S PROVE k \in S
    <3>1. k \in 0 .. N /\ k # 0 /\ made[k - 1] \in Nakings
      BY <2>2
    <3>2. made[k] = Step(made[k - 1], k) /\ Step(made[k - 1], k) \in Nakings
      BY <1>2, <1>10, <3>1
    <3>3. QED
      BY <3>1, <3>2
  <2> HIDE DEF S, N
  <2>3. QED
    BY <1>1, <2>1, <2>2, BoundedInduction
<1>12. made \in [0 .. N -> Nakings]
  <2>1. made = [k \in 0 .. N |-> IF k = 0 THEN z ELSE Step(made[k - 1], k)]
    BY <1>8
  <2>2. \A k \in 0 .. N : made[k] \in Nakings
    BY <1>11
  <2>3. made = [k \in 0 .. N |-> made[k]]
    BY <1>10, <2>1
  <2>4. QED
    BY <2>2, <2>3
<1>13. RnakWalk(made, a, s)
  <2>1. made[0] = z /\ \A k \in 1 .. N : made[k] = Step(made[k - 1], k)
    BY <1>1, <1>10
  <2>2. QED
    BY <1>9, <1>12, <2>1 DEF RnakWalk, Step, z
<1>14. QED
  BY <1>13

(* ... that of the packets sent again on a TIMEOUT, ...                   *)
ResentWalk(w, a, due) ==
  /\ w \in [0 .. Pnbufs -> Doings] /\ w[0] = a
  /\ \A k \in 1 .. Pnbufs : w[k] = IF After(a.x.nx, k - 1) \in due THEN Resend(w[k - 1], After(a.x.nx, k - 1)) ELSE w[k - 1]
  /\ Resent(a, due) = w[Pnbufs]

LEMMA ResentIs ==
  ASSUME NEW a \in Doings, NEW due
  PROVE  \E w : ResentWalk(w, a, due)
<1> DEFINE N == Pnbufs
           z == a
           Step(v, k) == IF After(a.x.nx, k - 1) \in due THEN Resend(v, After(a.x.nx, k - 1)) ELSE v
           F == [p \in Doings \X (1 .. N) |-> Step(p[1], p[2])]
           Is(w) == w = [k \in 0 .. N |-> IF k = 0 THEN z ELSE Step(w[k - 1], k)]
           made == CHOOSE w : Is(w)
<1>1. N \in Nat
  BY Sizes
<1>2. z \in Doings /\ \A v \in Doings, k \in 1 .. N : Step(v, k) \in Doings
  <2>1. ASSUME NEW v \in Doings, NEW k \in 1 .. N PROVE Step(v, k) \in Doings
    <3>1. k - 1 \in Nat /\ a.x.nx \in Slots
      BY DoingFields, XmitFields
    <3>2. After(a.x.nx, k - 1) \in Slots
      BY <3>1, AfterIn
    <3>3. QED
      BY <3>2, ResendIs
  <2>2. QED
    BY <2>1
<1>3. F \in [Doings \X (1 .. N) -> Doings] /\ \A v \in Doings, k \in 1 .. N : F[<<v, k>>] = Step(v, k)
  <2> HIDE DEF Step, N, z
  <2> QED
    BY <1>2
<1>4. \E w : IsWalk(w, N, Doings, z, F)
  <2> HIDE DEF F, N, z
  <2> QED
    BY <1>1, <1>2, <1>3, WalkExists
<1>5. PICK w : IsWalk(w, N, Doings, z, F)
  BY <1>4
<1>9. Resent(a, due) = made[N]
  BY DEF Resent, Step, z
<1> HIDE DEF F, Step, z
<1>6. ASSUME NEW k \in 1 .. N PROVE w[k] = Step(w[k - 1], k)
  <2>1. w[k - 1] \in Doings /\ w[k] = F[<<w[k - 1], k>>]
    BY <1>1, <1>5 DEF IsWalk
  <2>2. QED
    BY <1>3, <2>1
<1>7. Is(w)
  <2>1. w = [k \in 0 .. N |-> w[k]] /\ w[0] = z
    BY <1>5 DEF IsWalk
  <2>2. ASSUME NEW k \in 0 .. N PROVE w[k] = IF k = 0 THEN z ELSE Step(w[k - 1], k)
    <3>1. k # 0 => k \in 1 .. N
      BY <1>1
    <3>2. QED
      BY <1>6, <2>1, <3>1
  <2>3. QED
    BY <2>1, <2>2
<1>8. Is(made)
  <2> HIDE DEF Is
  <2> QED
    BY <1>7
<1> HIDE DEF made
<1>10. \A k \in 0 .. N : made[k] = IF k = 0 THEN z ELSE Step(made[k - 1], k)
  <2>1. made = [k \in 0 .. N |-> IF k = 0 THEN z ELSE Step(made[k - 1], k)]
    BY <1>8
  <2>2. QED
    BY <2>1, Zenon
<1> DEFINE S == {k \in 0 .. N : made[k] \in Doings}
<1>11. 0 .. N \subseteq S
  <2>1. 0 \in S
    BY <1>1, <1>2, <1>10
  <2>2. ASSUME NEW k \in 1 .. N, k - 1 \in S PROVE k \in S
    <3>1. k \in 0 .. N /\ k # 0 /\ made[k - 1] \in Doings
      BY <2>2
    <3>2. made[k] = Step(made[k - 1], k) /\ Step(made[k - 1], k) \in Doings
      BY <1>2, <1>10, <3>1
    <3>3. QED
      BY <3>1, <3>2
  <2> HIDE DEF S, N
  <2>3. QED
    BY <1>1, <2>1, <2>2, BoundedInduction
<1>12. made \in [0 .. N -> Doings]
  <2>1. made = [k \in 0 .. N |-> IF k = 0 THEN z ELSE Step(made[k - 1], k)]
    BY <1>8
  <2>2. \A k \in 0 .. N : made[k] \in Doings
    BY <1>11
  <2>3. made = [k \in 0 .. N |-> made[k]]
    BY <1>10, <2>1
  <2>4. QED
    BY <2>2, <2>3
<1>13. ResentWalk(made, a, due)
  <2>1. made[0] = z /\ \A k \in 1 .. N : made[k] = Step(made[k - 1], k)
    BY <1>1, <1>10
  <2>2. QED
    BY <1>9, <1>12, <2>1 DEF ResentWalk, Step, z
<1>14. QED
  BY <1>13

(* ... and that of the new ones.                                          *)
PsendAllWalk(w, a, e) ==
  /\ w \in [0 .. Pnbufs -> Doings] /\ w[0] = a
  /\ \A k \in 1 .. Pnbufs : w[k] = Psend(w[k - 1], e)
  /\ PsendAll(a, e) = w[Pnbufs]

LEMMA PsendAllIs ==
  ASSUME NEW a \in Doings, NEW e \in Ends, epoch[e] \in Nat
  PROVE  \E w : PsendAllWalk(w, a, e)
<1> DEFINE N == Pnbufs
           z == a
           Step(v, k) == Psend(v, e)
           F == [p \in Doings \X (1 .. N) |-> Step(p[1], p[2])]
           Is(w) == w = [k \in 0 .. N |-> IF k = 0 THEN z ELSE Step(w[k - 1], k)]
           made == CHOOSE w : Is(w)
<1>1. N \in Nat
  BY Sizes
<1>2. z \in Doings /\ \A v \in Doings, k \in 1 .. N : Step(v, k) \in Doings
  <2> HIDE DEF N
  <2> QED
    BY PsendIs
<1>3. F \in [Doings \X (1 .. N) -> Doings] /\ \A v \in Doings, k \in 1 .. N : F[<<v, k>>] = Step(v, k)
  <2> HIDE DEF Step, N, z
  <2> QED
    BY <1>2
<1>4. \E w : IsWalk(w, N, Doings, z, F)
  <2> HIDE DEF F, N, z
  <2> QED
    BY <1>1, <1>2, <1>3, WalkExists
<1>5. PICK w : IsWalk(w, N, Doings, z, F)
  BY <1>4
<1>9. PsendAll(a, e) = made[N]
  BY DEF PsendAll, Step, z
<1> HIDE DEF F, Step, z
<1>6. ASSUME NEW k \in 1 .. N PROVE w[k] = Step(w[k - 1], k)
  <2>1. w[k - 1] \in Doings /\ w[k] = F[<<w[k - 1], k>>]
    BY <1>1, <1>5 DEF IsWalk
  <2>2. QED
    BY <1>3, <2>1
<1>7. Is(w)
  <2>1. w = [k \in 0 .. N |-> w[k]] /\ w[0] = z
    BY <1>5 DEF IsWalk
  <2>2. ASSUME NEW k \in 0 .. N PROVE w[k] = IF k = 0 THEN z ELSE Step(w[k - 1], k)
    <3>1. k # 0 => k \in 1 .. N
      BY <1>1
    <3>2. QED
      BY <1>6, <2>1, <3>1
  <2>3. QED
    BY <2>1, <2>2
<1>8. Is(made)
  <2> HIDE DEF Is
  <2> QED
    BY <1>7
<1> HIDE DEF made
<1>10. \A k \in 0 .. N : made[k] = IF k = 0 THEN z ELSE Step(made[k - 1], k)
  <2>1. made = [k \in 0 .. N |-> IF k = 0 THEN z ELSE Step(made[k - 1], k)]
    BY <1>8
  <2>2. QED
    BY <2>1, Zenon
<1> DEFINE S == {k \in 0 .. N : made[k] \in Doings}
<1>11. 0 .. N \subseteq S
  <2>1. 0 \in S
    BY <1>1, <1>2, <1>10
  <2>2. ASSUME NEW k \in 1 .. N, k - 1 \in S PROVE k \in S
    <3>1. k \in 0 .. N /\ k # 0 /\ made[k - 1] \in Doings
      BY <2>2
    <3>2. made[k] = Step(made[k - 1], k) /\ Step(made[k - 1], k) \in Doings
      BY <1>2, <1>10, <3>1
    <3>3. QED
      BY <3>1, <3>2
  <2> HIDE DEF S, N
  <2>3. QED
    BY <1>1, <2>1, <2>2, BoundedInduction
<1>12. made \in [0 .. N -> Doings]
  <2>1. made = [k \in 0 .. N |-> IF k = 0 THEN z ELSE Step(made[k - 1], k)]
    BY <1>8
  <2>2. \A k \in 0 .. N : made[k] \in Doings
    BY <1>11
  <2>3. made = [k \in 0 .. N |-> made[k]]
    BY <1>10, <2>1
  <2>4. QED
    BY <2>2, <2>3
<1>13. PsendAllWalk(made, a, e)
  <2>1. made[0] = z /\ \A k \in 1 .. N : made[k] = Step(made[k - 1], k)
    BY <1>1, <1>10
  <2>2. QED
    BY <1>9, <1>12, <2>1 DEF PsendAllWalk, Step, z
<1>14. QED
  BY <1>13

-----------------------------------------------------------------------------
(* The window of a transmitter in epoch ep that has freed f packets: the    *)
(* slots from nx on hold the packets after those, and the others are free.  *)
SlotRight(x, f, ep, i) ==
  LET slot == x.slot[After(x.nx, i)]
  IN  IF i < x.n - f
      THEN slot.state # "NULL" /\ slot.data = [ep |-> ep, n |-> f + i + 1] /\ slot.seq = Number(f + i)
      ELSE slot.state = "NULL"

WindowOf(x, f, ep) ==
  /\ f <= x.n /\ x.n <= f + Pnbufs
  /\ x.state = "RESET" => x.n = 0
  /\ \A i \in Slots : SlotRight(x, f, ep, i)

LEMMA AroundSame ==
  ASSUME NEW P \in Nat, NEW p \in Nat, NEW i \in Nat, NEW j \in Nat, p < P, i < P, j < P,
         (IF p + i < P THEN p + i ELSE p + i - P) = (IF p + j < P THEN p + j ELSE p + j - P)
  PROVE  i = j
  OBVIOUS

LEMMA AfterApart ==
  ASSUME NEW p \in Slots
  PROVE  /\ \A i, j \in Slots : After(p, i) = After(p, j) => i = j
         /\ \A q \in Slots : \E i \in Slots : After(p, i) = q
         /\ After(p, 0) = p
         /\ \A i \in Slots : After(After(p, 1), i) = IF i + 1 < Pnbufs THEN After(p, i + 1) ELSE p
<1>1. Pnbufs \in Nat \ {0} /\ Slots = 0 .. Pnbufs - 1
  BY Sizes DEF Slots
<1>2. \A q \in Slots, i \in 0 .. Pnbufs : After(q, i) = IF q + i < Pnbufs THEN q + i ELSE q + i - Pnbufs
  BY AfterIs
<1>3. ASSUME NEW i \in Slots, NEW j \in Slots, After(p, i) = After(p, j) PROVE i = j
  <2>1. i \in 0 .. Pnbufs /\ j \in 0 .. Pnbufs /\ i < Pnbufs /\ j < Pnbufs /\ p \in 0 .. Pnbufs - 1
    BY <1>1
  <2>2. /\ After(p, i) = IF p + i < Pnbufs THEN p + i ELSE p + i - Pnbufs
        /\ After(p, j) = IF p + j < Pnbufs THEN p + j ELSE p + j - Pnbufs
    BY <1>2, <2>1
  <2>3. Pnbufs \in Nat /\ p \in Nat /\ i \in Nat /\ j \in Nat /\ p < Pnbufs
    BY <1>1
  <2>4. (IF p + i < Pnbufs THEN p + i ELSE p + i - Pnbufs) = (IF p + j < Pnbufs THEN p + j ELSE p + j - Pnbufs)
    BY <1>3, <2>2
  <2>5. QED
    BY <2>1, <2>3, <2>4, AroundSame
<1>4. ASSUME NEW q \in Slots PROVE \E i \in Slots : After(p, i) = q
  <2>1. CASE q >= p
    <3>1. q - p \in Slots /\ After(p, q - p) = q
      BY <1>1, <1>2, <2>1
    <3>2. QED
      BY <3>1
  <2>2. CASE q < p
    <3>1. q + Pnbufs - p \in Slots /\ After(p, q + Pnbufs - p) = q
      BY <1>1, <1>2, <2>2
    <3>2. QED
      BY <3>1
  <2>3. QED
    BY <1>1, <2>1, <2>2
<1>5. After(p, 0) = p
  BY <1>1, <1>2
<1>6. ASSUME NEW i \in Slots
      PROVE  After(After(p, 1), i) = IF i + 1 < Pnbufs THEN After(p, i + 1) ELSE p
  <2>1. i \in 0 .. Pnbufs /\ i + 1 \in 0 .. Pnbufs /\ 1 \in 0 .. Pnbufs /\ p \in 0 .. Pnbufs - 1
    BY <1>1
  <2> DEFINE q == After(p, 1)
  <2>2. q \in Slots /\ q = IF p + 1 < Pnbufs THEN p + 1 ELSE p + 1 - Pnbufs
    BY <2>1, AfterIs
  <2> HIDE DEF q
  <2>3. After(q, i) = IF q + i < Pnbufs THEN q + i ELSE q + i - Pnbufs
    BY <1>2, <2>1, <2>2
  <2>4. After(p, i + 1) = IF p + (i + 1) < Pnbufs THEN p + (i + 1) ELSE p + (i + 1) - Pnbufs
    BY <1>2, <2>1
  <2>5. After(q, i) = IF i + 1 < Pnbufs THEN After(p, i + 1) ELSE p
    BY <1>1, <2>1, <2>2, <2>3, <2>4
  <2>6. QED
    BY <2>5 DEF q
<1>7. QED
  BY <1>3, <1>4, <1>5, <1>6

(* A packet that waits has its place in the window.                         *)
LEMMA WindowPlace ==
  ASSUME NEW x \in XmitRecords, NEW f \in Nat, NEW ep, WindowOf(x, f, ep),
         NEW p \in Slots, x.slot[p].state # "NULL"
  PROVE  /\ x.slot[p].data.ep = ep /\ x.slot[p].data.n \in Nat
         /\ f < x.slot[p].data.n /\ x.slot[p].data.n <= x.n
         /\ x.slot[p].seq = Number(x.slot[p].data.n - 1)
<1>1. x.nx \in Slots /\ x.n \in Nat /\ Slots \in SUBSET Nat
  BY XmitFields DEF Slots
<1>2. PICK i \in Slots : After(x.nx, i) = p
  BY <1>1, AfterApart
<1>3. SlotRight(x, f, ep, i)
  BY DEF WindowOf
<1>4. i < x.n - f /\ x.slot[p].data = [ep |-> ep, n |-> f + i + 1] /\ x.slot[p].seq = Number(f + i)
  BY <1>2, <1>3 DEF SlotRight
<1>5. (f + i + 1) - 1 = f + i /\ f < f + i + 1 /\ f + i + 1 <= x.n /\ f + i + 1 \in Nat
  <2>1. i \in Nat /\ x.n \in Nat /\ i < x.n - f
    BY <1>1, <1>4
  <2>2. QED
    BY <2>1
<1>6. QED
  BY <1>4, <1>5

(* What a handler of the transmitter has done, when the window began with   *)
(* f0 packets freed and n0 sent.                                            *)
DataOf(p, ep, low, high) ==
  p.type = "DATA" /\ p.data.ep = ep /\ low < p.data.n /\ p.data.n <= high /\ p.seq = Number(p.data.n - 1)

DoneRight(a, f0, n0, ep) ==
  /\ WindowOf(a.x, a.freed, ep)
  /\ a.x.state # "RESET"
  /\ f0 <= a.freed /\ n0 <= a.x.n
  /\ \A p \in Elems(a.out) : DataOf(p, ep, f0, a.x.n)
  /\ \A p, q \in Elems(a.out) : Before(a.out, p, q) => p.data.n < q.data.n + Pnbufs

LEMMA DoneAdds ==
  ASSUME NEW a \in Doings, NEW b \in Doings, NEW f0 \in Nat, NEW n0 \in Nat, NEW ep,
         DoneRight(a, f0, n0, ep), NEW q \in Packets,
         b.out = a.out \o <<q>>, b.freed = a.freed, b.x.state # "RESET",
         a.x.n <= b.x.n, WindowOf(b.x, b.freed, ep), DataOf(q, ep, a.freed, b.x.n)
  PROVE  DoneRight(b, f0, n0, ep)
<1>1. /\ a.x \in XmitRecords /\ a.out \in Seq(Packets) /\ a.freed \in Nat
      /\ b.x \in XmitRecords /\ a.x.n \in Nat /\ b.x.n \in Nat
  BY DoingFields, XmitFields
<1>2. <<q>> \in Seq(Packets) /\ Pnbufs \in Nat
  BY Sizes
<1>3. /\ Elems(b.out) = Elems(a.out) \cup {q}
      /\ \A p, r : Before(b.out, p, r) => Before(a.out, p, r) \/ (p \in Elems(a.out) /\ r = q)
  <2>1. Elems(<<q>>) = {q} /\ \A p, r : ~Before(<<q>>, p, r)
    BY ShortParts
  <2>2. /\ Elems(a.out \o <<q>>) = Elems(a.out) \cup Elems(<<q>>)
        /\ \A p, r : Before(a.out \o <<q>>, p, r) =>
             \/ Before(a.out, p, r)
             \/ Before(<<q>>, p, r)
             \/ p \in Elems(a.out) /\ r \in Elems(<<q>>)
    BY <1>1, <1>2, ConcatParts
  <2>3. QED
    BY <2>1, <2>2
<1>4. \A p \in Packets : p.data.n \in Nat
  BY DEF Packets
<1>5. Elems(a.out) \subseteq Packets
  <2>1. \A i \in 1 .. Len(a.out) : a.out[i] \in Packets
    BY <1>1
  <2>2. QED
    BY <2>1 DEF Elems
<1>6. f0 <= a.freed /\ a.x.n <= a.freed + Pnbufs
  BY DEF DoneRight, WindowOf
<1>7. \A p \in Elems(a.out) : DataOf(p, ep, f0, a.x.n)
  BY DEF DoneRight
<1>8. \A p \in Elems(b.out) : DataOf(p, ep, f0, b.x.n)
  <2>1. \A p \in Elems(a.out) : DataOf(p, ep, f0, b.x.n)
    BY <1>1, <1>4, <1>5, <1>7 DEF DataOf
  <2>2. DataOf(q, ep, f0, b.x.n)
    BY <1>1, <1>4, <1>6 DEF DataOf
  <2>3. QED
    BY <1>3, <2>1, <2>2
<1>9. ASSUME NEW p \in Elems(b.out), NEW r \in Elems(b.out), Before(b.out, p, r)
      PROVE  p.data.n < r.data.n + Pnbufs
  <2>1. CASE Before(a.out, p, r)
    <3>1. p \in Elems(a.out) /\ r \in Elems(a.out)
      BY <2>1, BeforeElems
    <3>2. QED
      BY <2>1, <3>1 DEF DoneRight
  <2>2. CASE p \in Elems(a.out) /\ r = q
    <3>1. p.data.n <= a.x.n /\ a.freed < q.data.n /\ p.data.n \in Nat /\ q.data.n \in Nat
      BY <1>4, <1>5, <1>7, <2>2 DEF DataOf
    <3>2. p.data.n < q.data.n + Pnbufs
      <4> DEFINE i == p.data.n
                 j == q.data.n
                 m == a.x.n
                 g == a.freed
      <4>1. i <= m /\ g < j /\ i \in Nat /\ j \in Nat /\ m \in Nat /\ g \in Nat /\ m <= g + Pnbufs
        BY <1>1, <1>6, <3>1
      <4> HIDE DEF i, j, m, g
      <4>2. i < j + Pnbufs
        BY <1>2, <4>1
      <4>3. QED
        BY <4>2 DEF i, j
    <3>3. QED
      BY <2>2, <3>2
  <2>3. QED
    BY <1>3, <1>9, <2>1, <2>2
<1>10. n0 <= b.x.n
  BY <1>1 DEF DoneRight
<1>11. QED
  BY <1>6, <1>8, <1>9, <1>10 DEF DoneRight

-----------------------------------------------------------------------------
(* How the handlers change the window.  A slot that is marked NAK in y was  *)
(* so in x.                                                                 *)
NakOf(y, x) == \A p \in Slots : y.slot[p].state = "NAK" => y.slot[p] = x.slot[p]

(* A packet that is sent takes the place after the last one.                *)
LEMMA SendsKeep ==
  ASSUME NEW a \in Doings, NEW b \in Doings, NEW e \in Ends, NEW i,
         WindowOf(a.x, a.freed, epoch[e]), FirstFree(a.x, i), Sends(a, b, e, After(a.x.nx, i))
  PROVE  WindowOf(b.x, b.freed, epoch[e]) /\ NakOf(b.x, a.x)
<1> DEFINE x == a.x
           y == b.x
           f == a.freed
           n == a.x.n
           ep == epoch[e]
           nx == a.x.nx
           d == [ep |-> ep, n |-> n + 1]
           new == [seq |-> Number(n), state |-> "WAIT", data |-> d]
<1>1. /\ x \in XmitRecords /\ y \in XmitRecords /\ f \in Nat /\ n \in Nat /\ nx \in Slots
      /\ Pnbufs \in Nat /\ Slots = 0 .. Pnbufs - 1
  BY DoingFields, XmitFields, Sizes DEF Slots
<1>2. f <= n /\ n <= f + Pnbufs /\ \A j \in Slots : SlotRight(x, f, ep, j)
  BY DEF WindowOf
<1>11. x.nx = nx /\ x.n = n
  OBVIOUS
<1>3. i \in Slots /\ x.slot[After(nx, i)].state = "NULL"
      /\ \A j \in Slots : j < i => x.slot[After(nx, j)].state # "NULL"
  BY DEF FirstFree
<1>4. /\ y.n = n + 1 /\ y.nx = nx /\ y.state = "ACTIVE" /\ b.freed = f
      /\ y.slot[After(nx, i)] = new
      /\ \A q \in Slots : q # After(nx, i) => y.slot[q] = x.slot[q]
  BY DEF Sends
<1> HIDE DEF x, y, f, n, ep, nx, new, d
<1>5. i = n - f
  <2>1. ~(i < n - f)
    <3>1. SlotRight(x, f, ep, i)
      BY <1>2, <1>3
    <3>2. QED
      BY <1>3, <1>11, <3>1 DEF SlotRight
  <2>2. ASSUME n - f < i PROVE FALSE
    <3>1. n - f \in Slots
      BY <1>1, <1>2, <1>3, <2>2
    <3>2. SlotRight(x, f, ep, n - f) /\ ~(n - f < n - f)
      BY <1>1, <1>2, <3>1
    <3>3. x.slot[After(nx, n - f)].state = "NULL"
      BY <1>11, <3>2 DEF SlotRight
    <3>4. QED
      BY <1>3, <2>2, <3>1, <3>3
  <2>3. QED
    BY <1>1, <1>3, <2>1, <2>2
<1>6. f <= n + 1 /\ n + 1 <= f + Pnbufs
  BY <1>1, <1>2, <1>3, <1>5
<1>7. ASSUME NEW j \in Slots PROVE SlotRight(y, f, ep, j)
  <2>1. CASE j = i
    <3>1. f + j = n /\ f + j + 1 = n + 1 /\ j < (n + 1) - f
      BY <1>1, <1>3, <1>5, <2>1
    <3>2. y.slot[After(y.nx, j)] = new /\ new.state = "WAIT" /\ new.data = d /\ new.seq = Number(n)
      BY <1>4, <2>1 DEF new
    <3>3. d = [ep |-> ep, n |-> f + j + 1]
      BY <3>1 DEF d
    <3>4. QED
      BY <1>4, <3>1, <3>2, <3>3 DEF SlotRight
  <2>2. CASE j # i
    <3>1. After(nx, j) # After(nx, i) /\ After(nx, j) \in Slots
      <4>1. \A k, l \in Slots : After(nx, k) = After(nx, l) => k = l
        BY <1>1, AfterApart
      <4>2. j \in Nat
        BY <1>1
      <4>3. After(nx, j) \in Slots
        BY <1>1, <4>2, AfterIn
      <4>4. QED
        BY <1>3, <2>2, <4>1, <4>3
    <3>2. y.slot[After(nx, j)] = x.slot[After(nx, j)]
      BY <1>4, <3>1
    <3>3. j < n - f <=> j < (n + 1) - f
      BY <1>1, <1>3, <1>5, <2>2
    <3>4. SlotRight(x, f, ep, j) /\ x.nx = nx /\ x.n = n
      BY <1>2, <1>11
    <3>5. QED
      BY <1>4, <3>2, <3>3, <3>4 DEF SlotRight
  <2>3. QED
    BY <2>1, <2>2
<1>8. WindowOf(y, f, ep)
  BY <1>4, <1>6, <1>7 DEF WindowOf
<1>9. NakOf(y, x)
  <2>1. new.state # "NAK"
    BY DEF new
  <2>2. QED
    BY <1>4, <2>1 DEF NakOf
<1>10. QED
  BY <1>4, <1>8, <1>9 DEF x, y, f, ep

(* A slot that is freed was the first of the window, or none waits.         *)
LEMMA FreesKeep ==
  ASSUME NEW a \in Doings, NEW b \in Doings, NEW ep,
         WindowOf(a.x, a.freed, ep), Frees(a, b)
  PROVE  /\ WindowOf(b.x, b.freed, ep) /\ NakOf(b.x, a.x)
         /\ \/ b.freed = a.freed
            \/ b.freed = a.freed + 1 /\ a.x.slot[a.x.nx].seq = Number(a.freed)
<1> DEFINE x == a.x
           y == b.x
           f == a.freed
           g == b.freed
           n == a.x.n
           p == a.x.nx
<1>1. /\ x \in XmitRecords /\ y \in XmitRecords /\ f \in Nat /\ n \in Nat /\ p \in Slots
      /\ Pnbufs \in Nat \ {0} /\ Slots = 0 .. Pnbufs - 1
  BY DoingFields, XmitFields, Sizes DEF Slots
<1>2. f <= n /\ n <= f + Pnbufs /\ (x.state = "RESET" => n = 0) /\ \A j \in Slots : SlotRight(x, f, ep, j)
  BY DEF WindowOf
<1>3. /\ y.n = n /\ y.nx = After(p, 1) /\ y.state = x.state
      /\ y.slot[p].state = "NULL"
      /\ \A q \in Slots : q # p => y.slot[q] = x.slot[q]
      /\ g = IF x.slot[p].state = "NULL" THEN f ELSE f + 1
  BY DEF Frees
<1> HIDE DEF x, y, f, g, n, p
<1>4. x.nx = p /\ x.n = n
  BY DEF x, n, p
<1>5. After(p, 0) = p /\ 0 \in Slots
  BY <1>1, AfterApart
<1>6. x.slot[p].state = "NULL" <=> n = f
  <2>1. SlotRight(x, f, ep, 0) /\ After(x.nx, 0) = p
    BY <1>2, <1>4, <1>5
  <2>2. 0 < n - f <=> n # f
    BY <1>1, <1>2
  <2>3. QED
    BY <1>4, <2>1, <2>2 DEF SlotRight
<1>7. g <= n /\ n <= g + Pnbufs /\ n - g = IF n = f THEN 0 ELSE (n - f) - 1
  BY <1>1, <1>2, <1>3, <1>6
<1>8. ASSUME NEW j \in Slots PROVE SlotRight(y, g, ep, j)
  <2>1. After(y.nx, j) = IF j + 1 < Pnbufs THEN After(p, j + 1) ELSE p
    <3>1. After(After(p, 1), j) = IF j + 1 < Pnbufs THEN After(p, j + 1) ELSE p
      BY <1>1, AfterApart
    <3>2. QED
      BY <1>3, <3>1
  <2>2. CASE ~(j + 1 < Pnbufs)
    <3>1. ~(j < n - g)
      BY <1>1, <1>2, <1>7, <2>2
    <3>2. QED
      BY <1>3, <2>1, <2>2, <3>1 DEF SlotRight
  <2>3. CASE j + 1 < Pnbufs
    <3>1. j + 1 \in Slots /\ j + 1 # 0
      BY <1>1, <2>3
    <3>2. After(p, j + 1) \in Slots /\ After(p, j + 1) # p
      <4>1. \A i, k \in Slots : After(p, i) = After(p, k) => i = k
        BY <1>1, AfterApart
      <4>2. After(p, j + 1) # After(p, 0)
        BY <1>5, <3>1, <4>1
      <4>3. j + 1 \in Nat
        BY <1>1
      <4>4. QED
        BY <1>1, <1>5, <4>2, <4>3, AfterIn
    <3>3. y.slot[After(y.nx, j)] = x.slot[After(x.nx, j + 1)]
      BY <1>3, <1>4, <2>1, <2>3, <3>2
    <3>4. SlotRight(x, f, ep, j + 1)
      BY <1>2, <3>1
    <3>5. CASE n = f
      <4>1. ~(j < n - g) /\ ~(j + 1 < n - f)
        BY <1>1, <1>7, <3>5
      <4>2. QED
        BY <1>3, <1>4, <3>3, <3>4, <4>1 DEF SlotRight
    <3>6. CASE n # f
      <4>1. (j < n - g <=> j + 1 < n - f) /\ g + j = f + (j + 1) /\ g + j + 1 = f + (j + 1) + 1
        BY <1>1, <1>3, <1>6, <1>7, <3>6
      <4>2. QED
        BY <1>3, <1>4, <3>3, <3>4, <4>1 DEF SlotRight
    <3>7. QED
      BY <3>5, <3>6
  <2>4. QED
    BY <2>2, <2>3
<1>9. WindowOf(y, g, ep)
  BY <1>2, <1>3, <1>7, <1>8 DEF WindowOf
<1>10. NakOf(y, x)
  BY <1>3 DEF NakOf
<1>11. g = f \/ (g = f + 1 /\ x.slot[p].seq = Number(f))
  <2>1. CASE n = f
    BY <1>3, <1>6, <2>1
  <2>2. CASE n # f
    <3>1. SlotRight(x, f, ep, 0) /\ After(x.nx, 0) = p /\ 0 < n - f /\ f + 0 = f
      BY <1>1, <1>2, <1>4, <1>5, <2>2
    <3>2. x.slot[p].seq = Number(f)
      BY <1>4, <3>1 DEF SlotRight
    <3>3. QED
      BY <1>3, <1>6, <2>2, <3>2
  <2>3. QED
    BY <2>1, <2>2
<1>12. QED
  BY <1>9, <1>10, <1>11 DEF x, y, f, g, p

LEMMA MarkKeeps ==
  ASSUME NEW x \in XmitRecords, NEW f \in Nat, NEW ep, WindowOf(x, f, ep),
         NEW p \in Slots, x.slot[p].state = "WAIT"
  PROVE  WindowOf(Marked(x, p, "NAK"), f, ep)
<1> DEFINE y == Marked(x, p, "NAK")
<1>1. /\ y \in XmitRecords /\ y.state = x.state /\ y.n = x.n /\ y.nx = x.nx
      /\ \A q \in Slots : q # p => y.slot[q] = x.slot[q]
      /\ y.slot[p].state = "NAK" /\ y.slot[p].data = x.slot[p].data /\ y.slot[p].seq = x.slot[p].seq
  <2>1. "NAK" \in {"NULL", "WAIT", "NAK"}
    OBVIOUS
  <2>2. QED
    BY <2>1, MarkedIs
<1> HIDE DEF y
<1>2. ASSUME NEW i \in Slots PROVE SlotRight(y, f, ep, i)
  <2>1. SlotRight(x, f, ep, i)
    BY DEF WindowOf
  <2>2. After(x.nx, i) \in Slots
    <3>1. x.nx \in Slots /\ i \in Nat
      BY XmitFields DEF Slots
    <3>2. QED
      BY <3>1, AfterIn
  <2>3. CASE After(x.nx, i) = p
    BY <1>1, <2>1, <2>3 DEF SlotRight
  <2>4. CASE After(x.nx, i) # p
    BY <1>1, <2>1, <2>2, <2>4 DEF SlotRight
  <2>5. QED
    BY <2>3, <2>4
<1>3. WindowOf(y, f, ep)
  BY <1>1, <1>2 DEF WindowOf
<1>4. QED
  BY <1>3 DEF y

(* Each of the operations of the transmitter keeps what its handlers have   *)
(* done right, and frees nothing but with FreeNext.                         *)
Kept(a, b, f0, n0, ep) ==
  b \in Doings /\ DoneRight(b, f0, n0, ep) /\ NakOf(b.x, a.x)

LEMMA NakOfTwice ==
  ASSUME NEW x, NEW y, NEW z, NakOf(z, y), NakOf(y, x)
  PROVE  NakOf(z, x)
  BY DEF NakOf

LEMMA PsendKeeps ==
  ASSUME NEW a \in Doings, NEW e \in Ends, epoch[e] \in Nat, NEW f0 \in Nat, NEW n0 \in Nat,
         DoneRight(a, f0, n0, epoch[e])
  PROVE  Kept(a, Psend(a, e), f0, n0, epoch[e]) /\ Psend(a, e).freed = a.freed
<1> DEFINE b == Psend(a, e)
           ep == epoch[e]
<1>1. b \in Doings /\ (b = a \/ \E i : FirstFree(a.x, i) /\ Sends(a, b, e, After(a.x.nx, i)))
  BY PsendIs
<1> HIDE DEF b
<1>2. CASE b = a
  BY <1>2 DEF Kept, NakOf, b
<1>3. CASE b # a
  <2>1. PICK i : FirstFree(a.x, i) /\ Sends(a, b, e, After(a.x.nx, i))
    BY <1>1, <1>3
  <2>2. WindowOf(a.x, a.freed, ep)
    BY DEF DoneRight
  <2>3. WindowOf(b.x, b.freed, ep) /\ NakOf(b.x, a.x)
    BY <1>1, <2>1, <2>2, SendsKeep
  <2>4. a.x.n \in Nat /\ a.freed \in Nat /\ a.freed <= a.x.n
    BY <2>2, DoingFields, XmitFields DEF WindowOf
  <2> DEFINE d == [ep |-> ep, n |-> a.x.n + 1]
             new == [seq |-> Number(a.x.n), state |-> "WAIT", data |-> d]
             q == DataPacket(new, After(a.x.nx, i))
  <2>5. /\ b.x.n = a.x.n + 1 /\ b.x.state = "ACTIVE" /\ b.freed = a.freed
        /\ q \in Packets /\ b.out = a.out \o <<q>>
    BY <2>1 DEF Sends
  <2>6. /\ q.type = "DATA" /\ q.data.ep = ep /\ q.data.n = a.x.n + 1 /\ q.seq = Number(a.x.n)
        /\ (a.x.n + 1) - 1 = a.x.n
    BY <2>4 DEF DataPacket
  <2> HIDE DEF q
  <2>7. DataOf(q, ep, a.freed, b.x.n)
    BY <2>4, <2>5, <2>6 DEF DataOf
  <2>8. DoneRight(b, f0, n0, ep)
    <3>1. b.x.state # "RESET" /\ a.x.n <= b.x.n
      BY <2>4, <2>5
    <3>2. QED
      BY <1>1, <2>3, <2>5, <2>7, <3>1, DoneAdds
  <2>9. QED
    BY <1>1, <2>3, <2>5, <2>8 DEF Kept, b
<1>4. QED
  BY <1>2, <1>3 DEF b

LEMMA ResendKeeps ==
  ASSUME NEW a \in Doings, NEW f0 \in Nat, NEW n0 \in Nat, NEW ep,
         DoneRight(a, f0, n0, ep), NEW p \in Slots, a.x.slot[p].state = "WAIT"
  PROVE  Kept(a, Resend(a, p), f0, n0, ep) /\ Resend(a, p).x = a.x /\ Resend(a, p).freed = a.freed
<1> DEFINE b == Resend(a, p)
           q == Repeat(a.x, p)
<1>1. b \in Doings /\ b.x = a.x /\ b.freed = a.freed /\ q \in Packets /\ b.out = a.out \o <<q>>
  BY ResendIs
<1>2. /\ a.x \in XmitRecords /\ a.freed \in Nat /\ WindowOf(a.x, a.freed, ep) /\ a.x.state # "RESET"
      /\ a.x.n \in Nat
  BY DoingFields, XmitFields DEF DoneRight
<1>3. DataOf(q, ep, a.freed, a.x.n)
  <2>1. a.x.slot[p].state # "NULL"
    OBVIOUS
  <2>2. /\ a.x.slot[p].data.ep = ep /\ a.x.slot[p].data.n \in Nat
        /\ a.freed < a.x.slot[p].data.n /\ a.x.slot[p].data.n <= a.x.n
        /\ a.x.slot[p].seq = Number(a.x.slot[p].data.n - 1)
    BY <1>2, <2>1, WindowPlace
  <2>3. q.type = "DATA" /\ q.data = a.x.slot[p].data /\ q.seq = a.x.slot[p].seq
    BY DEF Repeat, DataPacket
  <2>4. QED
    BY <2>2, <2>3 DEF DataOf
<1> HIDE DEF b, q
<1>4. a.x.n <= b.x.n /\ DataOf(q, ep, a.freed, b.x.n) /\ b.x.state # "RESET"
      /\ WindowOf(b.x, b.freed, ep)
  BY <1>1, <1>2, <1>3
<1>5. DoneRight(b, f0, n0, ep)
  BY <1>1, <1>4, DoneAdds
<1>6. NakOf(b.x, a.x)
  BY <1>1 DEF NakOf
<1>7. QED
  BY <1>1, <1>5, <1>6 DEF Kept, b

LEMMA FreeNextKeeps ==
  ASSUME NEW a \in Doings, NEW f0 \in Nat, NEW n0 \in Nat, NEW ep,
         DoneRight(a, f0, n0, ep)
  PROVE  /\ Kept(a, FreeNext(a), f0, n0, ep)
         /\ \/ FreeNext(a).freed = a.freed
            \/ FreeNext(a).freed = a.freed + 1 /\ a.x.slot[a.x.nx].seq = Number(a.freed)
<1> DEFINE b == FreeNext(a)
<1>1. b \in Doings /\ Frees(a, b)
  BY FreeNextIs
<1> HIDE DEF b
<1>2. a.freed \in Nat /\ WindowOf(a.x, a.freed, ep) /\ a.x.state # "RESET" /\ f0 <= a.freed
      /\ n0 <= a.x.n /\ a.x.n \in Nat
  BY DoingFields, XmitFields DEF DoneRight
<1>3. /\ WindowOf(b.x, b.freed, ep) /\ NakOf(b.x, a.x)
      /\ \/ b.freed = a.freed
         \/ b.freed = a.freed + 1 /\ a.x.slot[a.x.nx].seq = Number(a.freed)
  BY <1>1, <1>2, FreesKeep
<1>4. b.x.n = a.x.n /\ b.x.state = a.x.state /\ b.out = a.out
  BY <1>1 DEF Frees
<1>5. DoneRight(b, f0, n0, ep)
  <2>1. f0 <= b.freed
    BY <1>2, <1>3
  <2>2. QED
    BY <1>2, <1>3, <1>4, <2>1 DEF DoneRight
<1>6. QED
  BY <1>1, <1>3, <1>5 DEF Kept, b

(* An acknowledgement of A packets frees no other one.                      *)
LEMMA AckBounds ==
  ASSUME NEW A \in Nat, NEW j \in 0 .. Pnbufs - 1
  PROVE  Number(A) # Back(Number(A + SEQMOD - 1), j)
<1> DEFINE m == A + (SEQMOD - 1)
           p == m + (SEQMOD - j)
<1>1. /\ SEQMOD \in Nat /\ Pnbufs \in Nat /\ SEQMOD >= 2 /\ j \in Nat /\ j < Pnbufs
      /\ 2 * Pnbufs <= SEQMOD /\ j \in 0 .. SEQMOD
  BY Sizes
<1>2. m \in Nat /\ p \in Nat /\ A + SEQMOD - 1 = m
  BY <1>1
<1>3. Back(Number(m), j) = Number(p)
  BY <1>1, <1>2, NumberBack
<1>4. Number(A) = Number(A + SEQMOD + SEQMOD) /\ A + SEQMOD + SEQMOD \in Nat
  BY <1>1, NumberAround
<1>5. p < A + SEQMOD + SEQMOD /\ A + SEQMOD + SEQMOD < p + SEQMOD
  BY <1>1
<1> HIDE DEF p, m
<1>6. Number(p) # Number(A + SEQMOD + SEQMOD)
  <2>1. p < A + SEQMOD + SEQMOD + SEQMOD
    BY <1>1, <1>2, <1>5
  <2>2. QED
    BY <1>2, <1>4, <1>5, <2>1, NumberSame
<1>7. QED
  BY <1>2, <1>3, <1>4, <1>6

RackDone(a, b, f0, n0, ep, s) ==
  /\ Kept(a, b, f0, n0, ep)
  /\ \A A \in Nat : s = Number(A + SEQMOD - 1) /\ a.freed <= A => b.freed <= A

LEMMA RackKeeps ==
  ASSUME NEW a \in Doings, NEW e \in Ends, epoch[e] \in Nat, NEW f0 \in Nat, NEW n0 \in Nat,
         DoneRight(a, f0, n0, epoch[e]), NEW s, NEW more
  PROVE  RackDone(a, Rack(a, e, s, more), f0, n0, epoch[e], s)
<1> DEFINE ep == epoch[e]
<1>1. PICK w : RackWalk(w, a, e, s, more)
  BY RackIs
<1>2. /\ w \in [0 .. Pnbufs -> Doings] /\ w[0] = a
      /\ \A k \in 1 .. Pnbufs : w[k] = RackStep(w[k - 1], e, Back(s, Pnbufs - k), more)
      /\ Rack(a, e, s, more) = w[Pnbufs]
  BY <1>1 DEF RackWalk
<1>3. Pnbufs \in Nat /\ a.freed \in Nat
  BY Sizes, DoingFields
<1> DEFINE S == {k \in 0 .. Pnbufs : RackDone(a, w[k], f0, n0, ep, s)}
<1>4. 0 \in S
  BY <1>2, <1>3 DEF RackDone, Kept, NakOf
<1>5. ASSUME NEW k \in 1 .. Pnbufs, k - 1 \in S PROVE k \in S
  <2> DEFINE v == w[k - 1]
             t == Back(s, Pnbufs - k)
             u == RackStep(v, e, t, more)
             c == FreeNext(v)
  <2>1. k \in 0 .. Pnbufs /\ w[k] = u /\ v \in Doings /\ RackDone(a, v, f0, n0, ep, s)
    BY <1>2, <1>5
  <2>2. DoneRight(v, f0, n0, ep) /\ NakOf(v.x, a.x) /\ v.freed \in Nat
    BY <2>1, DoingFields DEF RackDone, Kept
  <2>3. u = v \/ (v.x.slot[v.x.nx].seq = t /\ u \in {c, Psend(c, e)})
    BY <2>1, RackStepIs
  <2> HIDE DEF v, u, c
  <2>4. CASE u = v
    BY <2>1, <2>4
  <2>5. CASE v.x.slot[v.x.nx].seq = t /\ u \in {c, Psend(c, e)}
    <3>1. /\ Kept(v, c, f0, n0, ep)
          /\ \/ c.freed = v.freed
             \/ c.freed = v.freed + 1 /\ v.x.slot[v.x.nx].seq = Number(v.freed)
      BY <2>1, <2>2, FreeNextKeeps DEF c
    <3>2. c \in Doings /\ DoneRight(c, f0, n0, ep) /\ NakOf(c.x, v.x)
      BY <3>1 DEF Kept
    <3>3. u \in Doings /\ DoneRight(u, f0, n0, ep) /\ NakOf(u.x, c.x) /\ u.freed = c.freed
      <4>1. Kept(c, Psend(c, e), f0, n0, ep) /\ Psend(c, e).freed = c.freed
        BY <3>2, PsendKeeps
      <4>2. QED
        BY <2>5, <3>2, <4>1 DEF Kept, NakOf
    <3>4. Kept(a, u, f0, n0, ep)
      BY <2>2, <3>2, <3>3, NakOfTwice DEF Kept
    <3>5. ASSUME NEW A \in Nat, s = Number(A + SEQMOD - 1), a.freed <= A PROVE u.freed <= A
      <4>1. v.freed <= A
        BY <2>1, <3>5 DEF RackDone
      <4>2. CASE c.freed = v.freed
        BY <3>3, <4>1, <4>2
      <4>3. CASE c.freed = v.freed + 1 /\ t = Number(v.freed)
        <5>1. Pnbufs - k \in 0 .. Pnbufs - 1
          BY <1>3
        <5>2. Number(A) # t
          BY <3>5, <5>1, AckBounds
        <5>3. v.freed # A
          BY <4>3, <5>2
        <5>4. QED
          BY <2>2, <3>3, <4>1, <4>3, <5>3
      <4>4. QED
        BY <2>5, <3>1, <4>2, <4>3
    <3>6. RackDone(a, u, f0, n0, ep, s)
      BY <3>4, <3>5 DEF RackDone
    <3>7. QED
      BY <2>1, <3>6
  <2>6. QED
    BY <2>3, <2>4, <2>5
<1>6. 0 .. Pnbufs \subseteq S
  <2> HIDE DEF S
  <2> QED
    BY <1>3, <1>4, <1>5, BoundedInduction
<1>7. QED
  BY <1>2, <1>3, <1>6

(* Rnak marks no slot but those that hold number s.                         *)
MarksOf(y, x, s) ==
  \A p \in Slots : y.slot[p].state = "NAK" => y.slot[p] = x.slot[p] \/ y.slot[p].seq = s

RnakDone(a, b, f0, n0, ep, s) ==
  b \in Doings /\ DoneRight(b, f0, n0, ep) /\ MarksOf(b.x, a.x, s) /\ b.freed = a.freed

LEMMA RnakKeeps ==
  ASSUME NEW a \in Doings, NEW f0 \in Nat, NEW n0 \in Nat, NEW ep,
         DoneRight(a, f0, n0, ep), NEW s
  PROVE  RnakDone(a, Rnak(a, s), f0, n0, ep, s)
<1>1. PICK w : RnakWalk(w, a, s)
  BY RnakIs
<1>2. /\ w \in [0 .. Pnbufs -> Nakings] /\ w[0] = [a |-> a, hit |-> 0, done |-> FALSE]
      /\ \A k \in 1 .. Pnbufs : w[k] = RnakStep(w[k - 1], Back(s, Pnbufs - k), s)
      /\ Rnak(a, s) = w[Pnbufs].a
  BY <1>1 DEF RnakWalk
<1>3. Pnbufs \in Nat
  BY Sizes
<1> DEFINE S == {k \in 0 .. Pnbufs : RnakDone(a, w[k].a, f0, n0, ep, s)}
<1>4. 0 \in S
  BY <1>2, <1>3 DEF RnakDone, MarksOf
<1>5. ASSUME NEW k \in 1 .. Pnbufs, k - 1 \in S PROVE k \in S
  <2> DEFINE b == w[k - 1]
             t == Back(s, Pnbufs - k)
             c == RnakStep(b, t, s)
             v == b.a
             u == c.a
             p == After(v.x.nx, b.hit)
  <2>1. k \in 0 .. Pnbufs /\ w[k] = c /\ b \in Nakings /\ RnakDone(a, v, f0, n0, ep, s)
    BY <1>2, <1>5
  <2>2. c \in Nakings /\ NakStep(b, c, t, s)
    BY <2>1, RnakStepIs
  <2>3. /\ v \in Doings /\ u \in Doings /\ b.hit \in Nat /\ v.x \in XmitRecords /\ v.freed \in Nat
        /\ v.x.nx \in Slots /\ DoneRight(v, f0, n0, ep) /\ MarksOf(v.x, a.x, s) /\ v.freed = a.freed
    <3>1. v \in Doings /\ u \in Doings /\ b.hit \in Nat
      BY <2>1, <2>2 DEF Nakings
    <3>2. QED
      BY <2>1, <3>1, DoingFields, XmitFields DEF RnakDone
  <2>4. p \in Slots
    BY <2>3, AfterIn
  <2>5. \/ c = b
        \/ /\ v.x.slot[p].state = "WAIT" /\ v.x.slot[p].seq = s
           /\ u.x = Marked(v.x, p, "NAK") /\ u.out = v.out /\ u.freed = v.freed
        \/ u = v
        \/ v.x.slot[p].state = "WAIT" /\ u = Resend(v, p)
    BY <2>2 DEF NakStep
  <2> HIDE DEF b, c, p
  <2>6. CASE u = v
    BY <2>1, <2>6
  <2>7. CASE v.x.slot[p].state = "WAIT" /\ u = Resend(v, p)
    <3>1. Kept(v, Resend(v, p), f0, n0, ep) /\ Resend(v, p).x = v.x /\ Resend(v, p).freed = v.freed
      BY <2>3, <2>4, <2>7, ResendKeeps
    <3>2. RnakDone(a, u, f0, n0, ep, s)
      BY <2>3, <2>7, <3>1 DEF RnakDone, Kept
    <3>3. QED
      BY <2>1, <3>2
  <2>8. CASE /\ v.x.slot[p].state = "WAIT" /\ v.x.slot[p].seq = s
             /\ u.x = Marked(v.x, p, "NAK") /\ u.out = v.out /\ u.freed = v.freed
    <3> DEFINE x == v.x
               y == Marked(x, p, "NAK")
    <3>1. /\ y.state = x.state /\ y.n = x.n
          /\ \A q \in Slots : q # p => y.slot[q] = x.slot[q]
          /\ y.slot[p].seq = x.slot[p].seq
      <4>1. "NAK" \in {"NULL", "WAIT", "NAK"} /\ x \in XmitRecords
        BY <2>3
      <4>2. QED
        BY <2>4, <4>1, MarkedIs
    <3>2. WindowOf(x, v.freed, ep)
      BY <2>3 DEF DoneRight
    <3>3. WindowOf(y, v.freed, ep)
      BY <2>3, <2>4, <2>8, <3>2, MarkKeeps
    <3>4. MarksOf(y, a.x, s)
      <4>1. MarksOf(x, a.x, s)
        BY <2>3
      <4> HIDE DEF y, x
      <4>2. y.slot[p].seq = s
        BY <2>8, <3>1 DEF x
      <4>3. QED
        BY <3>1, <4>1, <4>2 DEF MarksOf
    <3>5. u.x = y /\ x = v.x
      BY <2>8
    <3> HIDE DEF y, x
    <3>6. DoneRight(u, f0, n0, ep)
      BY <2>3, <2>8, <3>1, <3>3, <3>5 DEF DoneRight
    <3>7. RnakDone(a, u, f0, n0, ep, s)
      BY <2>3, <2>8, <3>4, <3>5, <3>6 DEF RnakDone
    <3>8. QED
      BY <2>1, <3>7
  <2>9. QED
    BY <2>5, <2>6, <2>7, <2>8
<1>6. 0 .. Pnbufs \subseteq S
  <2> HIDE DEF S
  <2> QED
    BY <1>3, <1>4, <1>5, BoundedInduction
<1>7. QED
  BY <1>2, <1>3, <1>6

LEMMA ResentKeeps ==
  ASSUME NEW a \in Doings, NEW f0 \in Nat, NEW n0 \in Nat, NEW ep,
         DoneRight(a, f0, n0, ep), NEW due \in SUBSET Waiting(a.x)
  PROVE  /\ Resent(a, due) \in Doings /\ DoneRight(Resent(a, due), f0, n0, ep)
         /\ Resent(a, due).x = a.x /\ Resent(a, due).freed = a.freed
<1>1. PICK w : ResentWalk(w, a, due)
  BY ResentIs
<1>2. /\ w \in [0 .. Pnbufs -> Doings] /\ w[0] = a
      /\ \A k \in 1 .. Pnbufs : w[k] = IF After(a.x.nx, k - 1) \in due THEN Resend(w[k - 1], After(a.x.nx, k - 1)) ELSE w[k - 1]
      /\ Resent(a, due) = w[Pnbufs]
  BY <1>1 DEF ResentWalk
<1>3. Pnbufs \in Nat
  BY Sizes
<1> DEFINE Right(b) == b \in Doings /\ DoneRight(b, f0, n0, ep) /\ b.x = a.x /\ b.freed = a.freed
           S == {k \in 0 .. Pnbufs : Right(w[k])}
<1>4. 0 \in S
  BY <1>2, <1>3
<1>5. ASSUME NEW k \in 1 .. Pnbufs, k - 1 \in S PROVE k \in S
  <2> DEFINE p == After(a.x.nx, k - 1)
             v == w[k - 1]
  <2>1. k \in 0 .. Pnbufs /\ Right(v) /\ w[k] = IF p \in due THEN Resend(v, p) ELSE v
    BY <1>2, <1>5
  <2> HIDE DEF p, v
  <2>2. CASE p \in due
    <3>1. p \in Slots /\ v.x.slot[p].state = "WAIT" /\ v \in Doings /\ DoneRight(v, f0, n0, ep)
      BY <2>1, <2>2 DEF Waiting
    <3>2. Kept(v, Resend(v, p), f0, n0, ep) /\ Resend(v, p).x = v.x /\ Resend(v, p).freed = v.freed
      BY <3>1, ResendKeeps
    <3>3. QED
      BY <2>1, <2>2, <3>2 DEF Kept
  <2>3. QED
    BY <2>1, <2>2
<1>6. 0 .. Pnbufs \subseteq S
  <2> HIDE DEF S
  <2> QED
    BY <1>3, <1>4, <1>5, BoundedInduction
<1>7. QED
  BY <1>2, <1>3, <1>6

LEMMA PsendAllKeeps ==
  ASSUME NEW a \in Doings, NEW e \in Ends, epoch[e] \in Nat, NEW f0 \in Nat, NEW n0 \in Nat,
         DoneRight(a, f0, n0, epoch[e])
  PROVE  Kept(a, PsendAll(a, e), f0, n0, epoch[e]) /\ PsendAll(a, e).freed = a.freed
<1> DEFINE ep == epoch[e]
<1>1. PICK w : PsendAllWalk(w, a, e)
  BY PsendAllIs
<1>2. /\ w \in [0 .. Pnbufs -> Doings] /\ w[0] = a
      /\ \A k \in 1 .. Pnbufs : w[k] = Psend(w[k - 1], e)
      /\ PsendAll(a, e) = w[Pnbufs]
  BY <1>1 DEF PsendAllWalk
<1>3. Pnbufs \in Nat
  BY Sizes
<1> DEFINE Right(b) == Kept(a, b, f0, n0, ep) /\ b.freed = a.freed
           S == {k \in 0 .. Pnbufs : Right(w[k])}
<1>4. 0 \in S
  BY <1>2, <1>3 DEF Kept, NakOf
<1>5. ASSUME NEW k \in 1 .. Pnbufs, k - 1 \in S PROVE k \in S
  <2> DEFINE v == w[k - 1]
  <2>1. k \in 0 .. Pnbufs /\ Right(v) /\ w[k] = Psend(v, e)
    BY <1>2, <1>5
  <2> HIDE DEF v
  <2>2. v \in Doings /\ DoneRight(v, f0, n0, ep) /\ NakOf(v.x, a.x)
    BY <2>1 DEF Kept
  <2>3. Kept(v, Psend(v, e), f0, n0, ep) /\ Psend(v, e).freed = v.freed
    BY <2>2, PsendKeeps
  <2>4. NakOf(Psend(v, e).x, a.x)
    BY <2>2, <2>3, NakOfTwice DEF Kept
  <2>5. Right(w[k])
    BY <2>1, <2>3, <2>4 DEF Kept
  <2>6. QED
    BY <2>1, <2>5
<1>6. 0 .. Pnbufs \subseteq S
  <2> HIDE DEF S
  <2> QED
    BY <1>3, <1>4, <1>5, BoundedInduction
<1>7. QED
  BY <1>2, <1>3, <1>6

-----------------------------------------------------------------------------
(* A queue of data packets is a queue of packets.                           *)
DataPackets == {p \in Packets : p.type = "DATA"}

LEMMA SeqOver ==
  ASSUME NEW S, NEW T, NEW s \in Seq(S), \A p \in Elems(s) : p \in T
  PROVE  s \in Seq(T)
<1>1. Len(s) \in Nat /\ s \in [1 .. Len(s) -> S]
  BY LenProperties
<1>2. \A i \in 1 .. Len(s) : s[i] \in T
  BY DEF Elems
<1>3. s \in [1 .. Len(s) -> T]
  BY <1>1, <1>2
<1>4. QED
  BY <1>1, <1>3, SeqDef

LEMMA DataQueue ==
  ASSUME NEW q \in Seq(DataPackets)
  PROVE  q \in Seq(Packets) /\ \A p \in Elems(q) : p.type = "DATA"
<1>1. \A i \in 1 .. Len(q) : q[i] \in DataPackets
  OBVIOUS
<1>2. \A p \in Elems(q) : p \in DataPackets
  BY <1>1 DEF Elems
<1>3. \A p \in Elems(q) : p \in Packets /\ p.type = "DATA"
  BY <1>2 DEF DataPackets
<1>4. QED
  BY <1>3, SeqOver

(* All that is under way to an end: what is on the circuit, and behind it   *)
(* the data the other end has still to write.                               *)
flow == [r \in Ends |-> wire[r] \o pktq[Peer(r)]]

(* Types of the variables, with sequences as such, ...                      *)
Typed ==
  /\ xmit \in [Ends -> XmitRecords]
  /\ recv \in [Ends -> RecvRecords]
  /\ wire \in [Ends -> Seq(Packets)]
  /\ pktq \in [Ends -> Seq(DataPackets)]
  /\ epoch \in [Ends -> Nat] /\ freed \in [Ends -> Nat]
  /\ got \in [Ends -> Seq(Datum)]
  /\ crossed \subseteq Ends
  /\ losses \in 0 .. MaxLosses /\ resets \in 0 .. MaxResets

(* ... and what is right of each end alone: its window, and the data it has *)
(* sent.                                                                    *)
DataRight(D, ep) ==
  \A p \in Elems(D) : p.type = "DATA" => /\ p.data.n > 0 /\ p.data.ep <= ep
                                         /\ p.seq = Number(p.data.n - 1)

EndRight(e) == WindowOf(xmit[e], freed[e], epoch[e]) /\ DataRight(flow[Peer(e)], epoch[e])
EndsRight == \A e \in Ends : EndRight(e)

LEMMA EndTypes ==
  ASSUME Typed, NEW e \in Ends
  PROVE  /\ Peer(e) \in Ends /\ Peer(e) # e /\ Peer(Peer(e)) = e
         /\ \A d \in Ends : d = e \/ d = Peer(e)
         /\ xmit[e] \in XmitRecords /\ recv[e] \in RecvRecords /\ flow[e] \in Seq(Packets)
         /\ epoch[e] \in Nat /\ freed[e] \in Nat /\ got[e] \in Seq(Datum)
         /\ wire[e] \in Seq(Packets) /\ pktq[e] \in Seq(DataPackets)
         /\ flow \in [Ends -> Seq(Packets)] /\ flow[e] = wire[e] \o pktq[Peer(e)]
<1>1. /\ Peer(e) \in Ends /\ Peer(e) # e /\ Peer(Peer(e)) = e
      /\ \A d \in Ends : Peer(d) \in Ends /\ (d = e \/ d = Peer(e))
  BY DEF Ends, Peer
<1>2. /\ xmit[e] \in XmitRecords /\ recv[e] \in RecvRecords
      /\ epoch[e] \in Nat /\ freed[e] \in Nat /\ got[e] \in Seq(Datum)
      /\ \A d \in Ends : wire[d] \in Seq(Packets) /\ pktq[d] \in Seq(DataPackets)
  BY DEF Typed
<1>3. \A d \in Ends : wire[d] \o pktq[Peer(d)] \in Seq(Packets)
  BY <1>1, <1>2, DataQueue, ConcatProperties
<1>4. /\ flow \in [Ends -> Seq(Packets)] /\ flow[e] = wire[e] \o pktq[Peer(e)]
      /\ flow[e] \in Seq(Packets)
  BY <1>3 DEF flow
<1>5. QED
  BY <1>1, <1>2, <1>4

LEMMA PacketFields ==
  ASSUME NEW p \in Packets
  PROVE  /\ p.type \in PacketTypes /\ p.seq \in 0 .. SEQMOD - 1
         /\ p.data \in Datum /\ p.data.ep \in Nat /\ p.data.n \in Nat
  BY DEF Packets, Datum

(* A handler of e that leaves its transmitter at a; s is the number of the  *)
(* packet that arrived.                                                     *)
Acked(e, a, s) ==
  /\ Kept(Doing(e), a, freed[e], xmit[e].n, epoch[e])
  /\ \A A \in Nat : s = Number(A + SEQMOD - 1) /\ freed[e] <= A => a.freed <= A

Naked(e, a, s) ==
  /\ a \in Doings /\ DoneRight(a, freed[e], xmit[e].n, epoch[e])
  /\ MarksOf(a.x, xmit[e], s) /\ a.freed = freed[e]

Sent(e, a) ==
  Kept(Doing(e), a, freed[e], xmit[e].n, epoch[e]) /\ a.freed = freed[e]

LEMMA DoingRight ==
  ASSUME Typed, NEW e \in Ends, EndRight(e), xmit[e].state # "RESET"
  PROVE  /\ Doing(e) \in Doings /\ DoneRight(Doing(e), freed[e], xmit[e].n, epoch[e])
         /\ Doing(e).x = xmit[e] /\ Doing(e).freed = freed[e]
<1>1. xmit[e] \in XmitRecords /\ freed[e] \in Nat /\ xmit[e].n \in Nat
  BY EndTypes, XmitFields
<1>2. Doing(e) \in Doings /\ Doing(e).x = xmit[e] /\ Doing(e).freed = freed[e] /\ Doing(e).out = <<>>
  BY <1>1 DEF Doing, Doings
<1>3. Elems(<<>>) = {} /\ \A p, q : ~Before(<<>>, p, q)
  BY ShortParts
<1>4. QED
  BY <1>1, <1>2, <1>3 DEF DoneRight, EndRight

LEMMA AckStep ==
  ASSUME Typed, NEW e \in Ends, EndRight(e), RecvACK(e), xmit[e].state # "RESET"
  PROVE  \E a : Acked(e, a, Head(wire[e]).seq) /\ Done(e, a)
<1> DEFINE s == Head(wire[e]).seq
<1>1. PICK more \in More(e) : Done(e, Rack(Doing(e), e, s, more))
  BY DEF RecvACK
<1>2. epoch[e] \in Nat /\ freed[e] \in Nat /\ xmit[e].n \in Nat
  BY EndTypes, XmitFields
<1>3. /\ Doing(e) \in Doings /\ DoneRight(Doing(e), freed[e], xmit[e].n, epoch[e])
      /\ Doing(e).freed = freed[e]
  BY DoingRight
<1> HIDE DEF s
<1>4. RackDone(Doing(e), Rack(Doing(e), e, s, more), freed[e], xmit[e].n, epoch[e], s)
  BY <1>2, <1>3, RackKeeps
<1>5. Acked(e, Rack(Doing(e), e, s, more), s)
  BY <1>3, <1>4 DEF RackDone, Acked
<1>6. QED
  BY <1>1, <1>5 DEF s

LEMMA NakStepRight ==
  ASSUME Typed, NEW e \in Ends, EndRight(e), RecvNAK(e), xmit[e].state # "RESET"
  PROVE  \E a : Naked(e, a, Head(wire[e]).seq) /\ Done(e, a)
<1> DEFINE s == Head(wire[e]).seq
<1>1. Done(e, Rnak(Doing(e), s))
  BY DEF RecvNAK
<1>2. freed[e] \in Nat /\ xmit[e].n \in Nat
  BY EndTypes, XmitFields
<1>3. /\ Doing(e) \in Doings /\ DoneRight(Doing(e), freed[e], xmit[e].n, epoch[e])
      /\ Doing(e).x = xmit[e] /\ Doing(e).freed = freed[e]
  BY DoingRight
<1> HIDE DEF s
<1>4. RnakDone(Doing(e), Rnak(Doing(e), s), freed[e], xmit[e].n, epoch[e], s)
  BY <1>2, <1>3, RnakKeeps
<1>5. Naked(e, Rnak(Doing(e), s), s)
  BY <1>3, <1>4 DEF RnakDone, Naked
<1>6. QED
  BY <1>1, <1>5 DEF s

LEMMA TimeoutStep ==
  ASSUME Typed, NEW e \in Ends, EndRight(e), RecvTIMEOUT(e)
  PROVE  \E a : Acked(e, a, Head(wire[e]).seq) /\ Done(e, a)
<1> DEFINE s == Head(wire[e]).seq
           ep == epoch[e]
           f0 == freed[e]
           n0 == xmit[e].n
           R(m) == Rack(Doing(e), e, s, m)
           Final(v, m) == IF Waiting(R(m).x) = {} THEN [v EXCEPT !.x.state = "IDLE"]
                         ELSE IF Cardinality(Waiting(R(m).x)) < Pnbufs /\ m /\ Ready(e)
                         THEN PsendAll(v, e)
                         ELSE v
<1>1. \E more \in More(e) : \E due \in SUBSET Waiting(R(more).x) :
         Done(e, Final(Resent(R(more), due), more))
  BY DEF RecvTIMEOUT
<1>12. PICK more \in More(e) : \E due \in SUBSET Waiting(R(more).x) :
          Done(e, Final(Resent(R(more), due), more))
  BY <1>1
<1>2. PICK due \in SUBSET Waiting(R(more).x) : Done(e, Final(Resent(R(more), due), more))
  BY <1>12
<1> DEFINE a == R(more)
           b == Resent(a, due)
           c == Final(b, more)
<1>3. epoch[e] \in Nat /\ freed[e] \in Nat /\ xmit[e].n \in Nat /\ xmit[e].state # "RESET"
  BY EndTypes, XmitFields DEF RecvTIMEOUT
<1>4. /\ Doing(e) \in Doings /\ DoneRight(Doing(e), f0, n0, ep) /\ Doing(e).freed = f0
  BY <1>3, DoingRight
<1> HIDE DEF s
<1>5. RackDone(Doing(e), a, f0, n0, ep, s)
  BY <1>3, <1>4, RackKeeps
<1> HIDE DEF R
<1>6. Acked(e, a, s) /\ a \in Doings /\ DoneRight(a, f0, n0, ep)
  BY <1>4, <1>5 DEF RackDone, Acked, Kept
<1>7. b \in Doings /\ DoneRight(b, f0, n0, ep) /\ b.x = a.x /\ b.freed = a.freed
  BY <1>3, <1>6, ResentKeeps
<1>8. c \in {[b EXCEPT !.x.state = "IDLE"], PsendAll(b, e), b}
  OBVIOUS
<1> HIDE DEF a, b, c
<1>9. Kept(b, c, f0, n0, ep) /\ c.freed = b.freed
  <2>1. CASE c = b
    BY <1>7, <2>1 DEF Kept, NakOf
  <2>2. CASE c = PsendAll(b, e)
    BY <1>3, <1>7, <2>2, PsendAllKeeps
  <2>3. CASE c = [b EXCEPT !.x.state = "IDLE"]
    <3> DEFINE x == b.x
               y == [x EXCEPT !.state = "IDLE"]
    <3>1. c = [b EXCEPT !.x = y]
      BY <2>3
    <3>2. x \in XmitRecords /\ b.out \in Seq(Packets) /\ b.freed \in Nat
      BY <1>7, DoingFields
    <3> HIDE DEF x
    <3>3. y \in XmitRecords /\ y.state = "IDLE" /\ y.n = x.n /\ y.nx = x.nx /\ y.slot = x.slot
      BY <3>2 DEF XmitRecords
    <3> HIDE DEF y
    <3>4. c \in Doings /\ c.x = y /\ c.out = b.out /\ c.freed = b.freed
      BY <1>7, <3>1, <3>2, <3>3 DEF Doings
    <3>5. DoneRight(b, f0, n0, ep) /\ b.x = x
      BY <1>7 DEF x
    <3>6. WindowOf(y, b.freed, ep)
      <4>1. WindowOf(x, b.freed, ep)
        BY <3>5 DEF DoneRight
      <4>2. QED
        BY <3>3, <4>1 DEF WindowOf, SlotRight
    <3>7. DoneRight(c, f0, n0, ep)
      BY <3>3, <3>4, <3>5, <3>6 DEF DoneRight
    <3>8. NakOf(y, x)
      BY <3>3 DEF NakOf
    <3>9. QED
      BY <3>4, <3>5, <3>7, <3>8 DEF Kept
  <2>4. QED
    BY <1>8, <2>1, <2>2, <2>3
<1>10. NakOf(c.x, Doing(e).x)
  <2>1. NakOf(c.x, a.x) /\ NakOf(a.x, Doing(e).x)
    BY <1>6, <1>7, <1>9 DEF Kept, Acked
  <2>2. QED
    BY <2>1, NakOfTwice
<1>11. Acked(e, c, s)
  BY <1>6, <1>7, <1>9, <1>10 DEF Acked, Kept
<1>13. QED
  BY <1>2, <1>11 DEF c, b, a, s

LEMMA SendStep ==
  ASSUME Typed, NEW e \in Ends, EndRight(e), Send(e)
  PROVE  \E a : Sent(e, a) /\ xmit' = [xmit EXCEPT ![e] = a.x] /\ Queue(e, a.out)
<1>1. epoch[e] \in Nat /\ freed[e] \in Nat /\ xmit[e].n \in Nat /\ xmit[e].state # "RESET"
  BY EndTypes, XmitFields DEF Send, Ready
<1>2. /\ Doing(e) \in Doings /\ DoneRight(Doing(e), freed[e], xmit[e].n, epoch[e])
      /\ Doing(e).freed = freed[e]
  BY <1>1, DoingRight
<1>3. Kept(Doing(e), Psend(Doing(e), e), freed[e], xmit[e].n, epoch[e]) /\ Psend(Doing(e), e).freed = Doing(e).freed
  BY <1>1, <1>2, PsendKeeps
<1>4. Sent(e, Psend(Doing(e), e))
  BY <1>2, <1>3 DEF Sent
<1>5. QED
  BY <1>4 DEF Send

-----------------------------------------------------------------------------
(* Queues that lose and take packets; only those of types T count.          *)
Shrinks(s2, s, T) ==
  /\ \A p \in Elems(s2) : p.type \in T => p \in Elems(s)
  /\ \A p, q \in Elems(s2) : p.type \in T /\ q.type \in T /\ Before(s2, p, q) => Before(s, p, q)

Grows(s2, s, T, out) ==
  /\ \A p \in Elems(s2) : p.type \in T => p \in Elems(s) \/ p \in Elems(out)
  /\ \A p, q \in Elems(s2) : p.type \in T /\ q.type \in T /\ Before(s2, p, q) =>
       Before(s, p, q) \/ Before(out, p, q) \/ (p \in Elems(s) /\ q \in Elems(out))

LEMMA GrowsBy ==
  ASSUME NEW s \in Seq(Packets), NEW out \in Seq(Packets), NEW T
  PROVE  Grows(s \o out, s, T, out)
<1>1. /\ Elems(s \o out) = Elems(s) \cup Elems(out)
      /\ \A p, q : Before(s \o out, p, q) =>
           Before(s, p, q) \/ Before(out, p, q) \/ (p \in Elems(s) /\ q \in Elems(out))
  BY ConcatParts
<1>2. QED
  BY <1>1 DEF Grows

LEMMA TailGrows ==
  ASSUME NEW s \in Seq(Packets), s # <<>>, NEW out \in Seq(Packets), NEW T
  PROVE  Grows(Tail(s) \o out, s, T, out) /\ Shrinks(Tail(s), s, T)
<1>1. /\ Tail(s) \in Seq(Packets)
      /\ Elems(s) = Elems(Tail(s)) \cup {Head(s)}
      /\ \A p, q : Before(Tail(s), p, q) => Before(s, p, q)
  BY TailParts
<1>2. Grows(Tail(s) \o out, Tail(s), T, out)
  BY <1>1, GrowsBy
<1>3. QED
  BY <1>1, <1>2 DEF Grows, Shrinks

LEMMA GrowsShrinks ==
  ASSUME NEW s2, NEW s, NEW T, NEW out, Grows(s2, s, T, out), \A p \in Elems(out) : p.type \notin T
  PROVE  Shrinks(s2, s, T)
<1>1. \A p, q : Before(out, p, q) => p \in Elems(out)
  BY BeforeElems
<1>2. QED
  BY <1>1 DEF Grows, Shrinks

LEMMA ShrinksSame ==
  ASSUME NEW s, NEW T
  PROVE  Shrinks(s, s, T)
  BY DEF Shrinks

-----------------------------------------------------------------------------
(* One direction of the channel: D is the queue from transmitter t to       *)
(* receiver r and B the one back, rv and g what r has and has given, x, f   *)
(* and ep the transmitter of t, what it has freed and its epoch.            *)
Has(rv, g, ep, m) ==
  m <= Len(g) \/ \E k \in HeldSlots : rv.held[k].full /\ rv.held[k].data = [ep |-> ep, n |-> m]

DTypes == {"DATA", "ACK_RESET"}
BTypes == {"XMT_RESET", "ACK", "TIMEOUT", "NAK"}
IsAck(p) == p.type \in {"ACK", "TIMEOUT"}
IsReply(p) == p.type \in {"ACK", "TIMEOUT", "NAK"}
Reset(s, t) == \E p \in Elems(s) : p.type = t

(* The receiver takes, or is about to take, what t sends in this epoch; it  *)
(* has given Had packets of it.                                             *)
Linked(D, rv) == rv.state = "IDLE" \/ Reset(D, "ACK_RESET")
Had(rv, g) == IF rv.state = "IDLE" THEN Len(g) ELSE 0

(* One reset is under way at a time, and none when the receiver is idle.    *)
ResetsRight(D, B, rv) ==
  /\ \A p, q \in Elems(D) : Before(D, p, q) => ~(p.type = "ACK_RESET" /\ q.type = "ACK_RESET")
  /\ \A p, q \in Elems(B) : Before(B, p, q) => ~(p.type = "XMT_RESET" /\ q.type = "XMT_RESET")
  /\ ~(Reset(D, "ACK_RESET") /\ Reset(B, "XMT_RESET"))
  /\ rv.state = "IDLE" => ~Reset(D, "ACK_RESET") /\ ~Reset(B, "XMT_RESET")

(* A receiver that has sent its reset answers nothing.                      *)
Silent(B, rv) ==
  /\ \A p, q \in Elems(B) : Before(B, p, q) => ~(p.type = "XMT_RESET" /\ IsReply(q))
  /\ rv.state = "RESET" /\ ~Reset(B, "XMT_RESET") => \A p \in Elems(B) : ~IsReply(p)

(* ACK_RESET parts the data of the old epochs from those of the new one.    *)
EpochsRight(D, rv, ep) ==
  /\ \A p, q \in Elems(D) : Before(D, p, q) =>
       /\ p.type = "ACK_RESET" /\ q.type = "DATA" => q.data.ep = ep
       /\ p.type = "DATA" /\ q.type = "ACK_RESET" => p.data.ep # ep
  /\ rv.state = "IDLE" => \A p \in Elems(D) : p.type = "DATA" => p.data.ep = ep

DeliveredRight(rv, g, ep) ==
  \A i \in 1 .. Len(g) : g[i].n = i /\ g[i].ep = g[1].ep /\ (rv.state = "IDLE" => g[i].ep = ep)

(* What is held comes after a gap, once, in the first slots.                *)
HeldSlot(rv, g, x, ep, k) ==
  rv.held[k].full =>
    /\ k < Pnbufs
    /\ rv.held[k].data.ep = ep
    /\ Len(g) + 2 <= rv.held[k].data.n /\ rv.held[k].data.n <= Len(g) + Pnbufs
    /\ rv.held[k].seq = Number(rv.held[k].data.n - 1)
    /\ x.state # "RESET" => rv.held[k].data.n <= x.n

HeldRight(rv, g, x, ep) ==
  rv.state = "IDLE" =>
    /\ rv.next = Number(Len(g))
    /\ \A k \in HeldSlots : HeldSlot(rv, g, x, ep, k)
    /\ \A j, k \in HeldSlots : rv.held[k].full /\ j < k =>
         rv.held[j].full /\ rv.held[j].data.n # rv.held[k].data.n

(* The data on their way are less than a window from what the receiver      *)
(* expects, and from each other.                                            *)
Current(p, ep) == p.type = "DATA" /\ p.data.ep = ep

Flies(p, rv, g, x) ==
  /\ Had(rv, g) < p.data.n + Pnbufs
  /\ p.data.n <= Had(rv, g) + Pnbufs
  /\ x.state # "RESET" => p.data.n <= x.n
  /\ rv.state = "IDLE" => \A k \in HeldSlots : rv.held[k].full => rv.held[k].data.n < p.data.n + Pnbufs

FlightRight(D, rv, g, x, ep) ==
  Linked(D, rv) =>
    /\ \A p \in Elems(D) : Current(p, ep) => Flies(p, rv, g, x)
    /\ \A p, q \in Elems(D) : Current(p, ep) /\ Current(q, ep) /\ Before(D, p, q) =>
         p.data.n < q.data.n + Pnbufs

(* The window of t begins with nothing the receiver has not given; so do    *)
(* the answers on their way, and the packets it was asked not to repeat are *)
(* there.                                                                   *)
AckRight(p, rv, g, f) ==
  f <= p.data.n /\ p.data.n <= Had(rv, g) /\ p.seq = Number(p.data.n + SEQMOD - 1)

NakRight(p, rv, g, x, f, ep) ==
  /\ f < p.data.n /\ p.data.n <= x.n /\ p.seq = Number(p.data.n - 1)
  /\ rv.state = "IDLE" /\ Has(rv, g, ep, p.data.n)

MarksRight(rv, g, x, ep) ==
  \A p \in Slots : x.slot[p].state = "NAK" => rv.state = "IDLE" /\ Has(rv, g, ep, x.slot[p].data.n)

WindowRight(D, B, rv, g, x, f, ep) ==
  x.state # "RESET" /\ Linked(D, rv) =>
    /\ f <= Had(rv, g) /\ Had(rv, g) <= x.n
    /\ MarksRight(rv, g, x, ep)
    /\ \A p \in Elems(B) : IsAck(p) => AckRight(p, rv, g, f)
    /\ \A p \in Elems(B) : p.type = "NAK" => NakRight(p, rv, g, x, f, ep)
    /\ \A p, q \in Elems(B) : Before(B, p, q) =>
         /\ IsAck(p) /\ IsAck(q) => p.data.n <= q.data.n
         /\ IsAck(p) /\ q.type = "NAK" => p.data.n < q.data.n

Pair(D, B, rv, g, x, f, ep) ==
  /\ ResetsRight(D, B, rv)
  /\ Silent(B, rv)
  /\ EpochsRight(D, rv, ep)
  /\ DeliveredRight(rv, g, ep)
  /\ HeldRight(rv, g, x, ep)
  /\ FlightRight(D, rv, g, x, ep)
  /\ WindowRight(D, B, rv, g, x, f, ep)

(* Packets that are lost, or of other types, do no harm; but a receiver     *)
(* whose reset is lost must have answered nothing behind it.                *)
KeepsReset(B2, B) == Reset(B, "XMT_RESET") => Reset(B2, "XMT_RESET") \/ \A p \in Elems(B2) : ~IsReply(p)

LEMMA PairShrinks ==
  ASSUME NEW D, NEW B, NEW D2, NEW B2, NEW rv, NEW g, NEW x, NEW f, NEW ep,
         Pair(D, B, rv, g, x, f, ep),
         Shrinks(D2, D, DTypes), Shrinks(B2, B, BTypes), KeepsReset(B2, B)
  PROVE  Pair(D2, B2, rv, g, x, f, ep)
<1>1. /\ \A p \in Elems(D2) : p.type \in {"DATA", "ACK_RESET"} => p \in Elems(D)
      /\ \A p, q \in Elems(D2) : p.type \in {"DATA", "ACK_RESET"} /\ q.type \in {"DATA", "ACK_RESET"}
                                 /\ Before(D2, p, q) => Before(D, p, q)
  BY DEF Shrinks, DTypes
<1>2. /\ \A p \in Elems(B2) : p.type \in {"XMT_RESET", "ACK", "TIMEOUT", "NAK"} => p \in Elems(B)
      /\ \A p, q \in Elems(B2) : p.type \in {"XMT_RESET", "ACK", "TIMEOUT", "NAK"}
                                 /\ q.type \in {"XMT_RESET", "ACK", "TIMEOUT", "NAK"}
                                 /\ Before(B2, p, q) => Before(B, p, q)
  BY DEF Shrinks, BTypes
<1>3. (Reset(D2, "ACK_RESET") => Reset(D, "ACK_RESET")) /\ (Reset(B2, "XMT_RESET") => Reset(B, "XMT_RESET"))
  BY <1>1, <1>2 DEF Reset
<1>4. Linked(D2, rv) => Linked(D, rv)
  BY <1>3 DEF Linked
<1>5. ResetsRight(D2, B2, rv)
  BY <1>1, <1>2, <1>3 DEF Pair, ResetsRight
<1>6. Silent(B2, rv)
  <2>1. Silent(B, rv)
    BY DEF Pair
  <2>2. QED
    BY <1>2, <1>3, <2>1 DEF Silent, IsReply, KeepsReset
<1>7. EpochsRight(D2, rv, ep)
  <2>1. EpochsRight(D, rv, ep)
    BY DEF Pair
  <2>2. QED
    BY <1>1, <2>1 DEF EpochsRight
<1>8. FlightRight(D2, rv, g, x, ep)
  <2>1. FlightRight(D, rv, g, x, ep)
    BY DEF Pair
  <2>2. QED
    BY <1>1, <1>4, <2>1 DEF FlightRight, Current
<1>9. WindowRight(D2, B2, rv, g, x, f, ep)
  <2>1. WindowRight(D, B, rv, g, x, f, ep)
    BY DEF Pair
  <2>2. QED
    BY <1>2, <1>4, <2>1 DEF WindowRight, IsAck
<1>10. QED
  BY <1>5, <1>6, <1>7, <1>8, <1>9 DEF Pair

LEMMA TailKeeps ==
  ASSUME NEW B \in Seq(Packets), B # <<>>, NEW rv, Silent(B, rv)
  PROVE  KeepsReset(Tail(B), B)
<1>1. /\ Elems(B) = Elems(Tail(B)) \cup {Head(B)}
      /\ \A q \in Elems(Tail(B)) : Before(B, Head(B), q)
  BY TailParts
<1>2. QED
  BY <1>1 DEF KeepsReset, Silent, Reset

(* The receiver asks for a reset: nothing of this epoch counts any more.    *)
LEMMA PairAsks ==
  ASSUME NEW D, NEW B, NEW D2, NEW B2, NEW rv, NEW g, NEW x, NEW f, NEW ep,
         Pair(D, B, rv, g, x, f, ep), ~Reset(D, "ACK_RESET"), ~Reset(B, "XMT_RESET"),
         Shrinks(D2, D, DTypes), NEW out, Grows(B2, B, BTypes, out),
         \A p \in Elems(out) : ~IsReply(p),
         \A p, q \in Elems(out) : Before(out, p, q) => p.type # "XMT_RESET",
         Reset(B2, "XMT_RESET"), NEW rv2, rv2.state = "RESET", NEW g2 \in {g, <<>>}
  PROVE  Pair(D2, B2, rv2, g2, x, f, ep)
<1>1. /\ \A p \in Elems(D2) : p.type \in {"DATA", "ACK_RESET"} => p \in Elems(D)
      /\ \A p, q \in Elems(D2) : p.type \in {"DATA", "ACK_RESET"} /\ q.type \in {"DATA", "ACK_RESET"}
                                 /\ Before(D2, p, q) => Before(D, p, q)
  BY DEF Shrinks, DTypes
<1>2. ~Reset(D2, "ACK_RESET")
  BY <1>1 DEF Reset
<1>3. ~Linked(D2, rv2) /\ rv2.state # "IDLE"
  BY <1>2 DEF Linked
<1>4. \A p, q : Before(out, p, q) => p \in Elems(out) /\ q \in Elems(out)
  BY BeforeElems
<1>5. \A p, q \in Elems(B2) : ~(Before(B2, p, q) /\ p.type = "XMT_RESET" /\ (q.type = "XMT_RESET" \/ IsReply(q)))
  <2>1. SUFFICES ASSUME NEW p \in Elems(B2), NEW q \in Elems(B2), Before(B2, p, q), p.type = "XMT_RESET",
                        q.type = "XMT_RESET" \/ IsReply(q)
                 PROVE  FALSE
    OBVIOUS
  <2>2. p.type \in BTypes /\ q.type \in BTypes
    BY <2>1 DEF BTypes, IsReply
  <2>3. Before(B, p, q) \/ Before(out, p, q) \/ p \in Elems(B)
    BY <2>1, <2>2 DEF Grows
  <2>4. p \notin Elems(B)
    BY <2>1 DEF Reset
  <2>5. ~Before(B, p, q)
    BY <2>4, BeforeElems
  <2>6. QED
    BY <1>4, <2>1, <2>3, <2>4, <2>5
<1>6. ResetsRight(D2, B2, rv2)
  BY <1>1, <1>2, <1>3, <1>5 DEF ResetsRight, Reset
<1>7. Silent(B2, rv2)
  BY <1>5 DEF Silent
<1>8. EpochsRight(D2, rv2, ep)
  BY <1>1, <1>3 DEF Pair, EpochsRight
<1>9. DeliveredRight(rv2, g2, ep)
  <2>1. CASE g2 = g
    BY <1>3, <2>1 DEF Pair, DeliveredRight
  <2>2. CASE g2 = <<>>
    BY <2>2 DEF DeliveredRight
  <2>3. QED
    BY <2>1, <2>2
<1>10. QED
  BY <1>3, <1>6, <1>7, <1>8, <1>9 DEF Pair, HeldRight, FlightRight, WindowRight

(* Its reset arrives when it has no data queued: a new epoch begins, and is *)
(* announced behind the data of the old ones.                               *)
LEMMA PairAnswers ==
  ASSUME NEW D, NEW B \in Seq(Packets), NEW D2, NEW rv, NEW g, NEW x, NEW f, NEW ep \in Nat,
         rv \in RecvRecords, D \in Seq(Packets),
         Pair(D, B, rv, g, x, f, ep), DataRight(D, ep), B # <<>>, Head(B).type = "XMT_RESET",
         NEW out, Grows(D2, D, DTypes, out), \A p \in Elems(out) : p.type = "ACK_RESET",
         \A p, q : ~Before(out, p, q),
         NEW y, y.n = 0, \A p \in Slots : y.slot[p].state = "NULL"
  PROVE  Pair(D2, Tail(B), rv, g, y, 0, ep + 1)
<1>1. /\ Elems(B) = Elems(Tail(B)) \cup {Head(B)}
      /\ \A q \in Elems(Tail(B)) : Before(B, Head(B), q)
      /\ \A p, q : Before(Tail(B), p, q) => Before(B, p, q)
  BY TailParts
<1>2. Reset(B, "XMT_RESET") /\ rv.state = "RESET" /\ ~Reset(D, "ACK_RESET")
  <2>1. Reset(B, "XMT_RESET")
    BY <1>1 DEF Reset
  <2>2. rv.state \in {"IDLE", "RESET"}
    BY DEF RecvRecords
  <2>3. QED
    BY <2>1, <2>2 DEF Pair, ResetsRight
<1>3. \A q \in Elems(Tail(B)) : q.type # "XMT_RESET" /\ ~IsReply(q)
  BY <1>1 DEF Pair, ResetsRight, Silent
<1>4. /\ \A p \in Elems(D2) : p.type = "DATA" => p \in Elems(D)
      /\ \A p \in Elems(D2) : p.type = "ACK_RESET" => p \notin Elems(D) /\ p \in Elems(out)
  <2>1. \A p \in Elems(D) : p.type # "ACK_RESET"
    BY <1>2 DEF Reset
  <2>2. QED
    BY <2>1 DEF Grows, DTypes
<1>5. ASSUME NEW p \in Elems(D2), NEW q \in Elems(D2), Before(D2, p, q), p.type \in DTypes, q.type \in DTypes
      PROVE  p.type # "ACK_RESET"
  <2>1. Before(D, p, q) \/ p \in Elems(D)
    BY <1>5 DEF Grows
  <2>2. p \in Elems(D)
    BY <2>1, BeforeElems
  <2>3. QED
    BY <1>4, <2>2
<1>6. \A p \in Elems(D2) : p.type = "DATA" => p.data.ep # ep + 1
  <2>1. ASSUME NEW p \in Elems(D2), p.type = "DATA" PROVE p.data.ep # ep + 1
    <3>1. p \in Elems(D) /\ p.data.ep <= ep
      BY <1>4, <2>1 DEF DataRight
    <3>2. p \in Packets
      <4>1. \A i \in 1 .. Len(D) : D[i] \in Packets
        OBVIOUS
      <4>2. QED
        BY <3>1, <4>1 DEF Elems
    <3>3. p.data.ep \in Nat
      BY <3>2, PacketFields
    <3>4. QED
      BY <3>1, <3>3
  <2>2. QED
    BY <2>1
<1>7. ResetsRight(D2, Tail(B), rv)
  <2>1. \A p, q \in Elems(D2) : Before(D2, p, q) => ~(p.type = "ACK_RESET" /\ q.type = "ACK_RESET")
    BY <1>5 DEF DTypes
  <2>2. QED
    BY <1>2, <1>3, <2>1 DEF ResetsRight, Reset
<1>8. Silent(Tail(B), rv)
  BY <1>3 DEF Silent
<1>9. EpochsRight(D2, rv, ep + 1)
  BY <1>2, <1>5, <1>6 DEF EpochsRight, DTypes
<1>10. DeliveredRight(rv, g, ep + 1)
  BY <1>2 DEF Pair, DeliveredRight
<1>11. FlightRight(D2, rv, g, y, ep + 1)
  BY <1>6 DEF FlightRight, Current
<1>12. WindowRight(D2, Tail(B), rv, g, y, 0, ep + 1)
  <2>1. Had(rv, g) = 0 /\ MarksRight(rv, g, y, ep + 1)
    BY <1>2 DEF Had, MarksRight
  <2>2. \A p \in Elems(Tail(B)) : ~IsAck(p) /\ p.type # "NAK"
    BY <1>3 DEF IsAck, IsReply
  <2>3. QED
    BY <2>1, <2>2 DEF WindowRight
<1>13. QED
  BY <1>2, <1>7, <1>8, <1>9, <1>10, <1>11, <1>12 DEF Pair, HeldRight

(* The announcement arrives, and the receiver begins anew.                  *)
LEMMA PairBegins ==
  ASSUME NEW D \in Seq(Packets), NEW B, NEW rv \in RecvRecords, NEW g, NEW x, NEW f, NEW ep,
         Pair(D, B, rv, g, x, f, ep), D # <<>>, Head(D).type = "ACK_RESET"
  PROVE  Pair(Tail(D), B, RReset("IDLE"), <<>>, x, f, ep)
<1> DEFINE rv2 == RReset("IDLE")
<1>1. /\ Elems(D) = Elems(Tail(D)) \cup {Head(D)}
      /\ \A q \in Elems(Tail(D)) : Before(D, Head(D), q)
      /\ \A p, q : Before(Tail(D), p, q) => Before(D, p, q)
  BY TailParts
<1>2. Reset(D, "ACK_RESET") /\ rv.state = "RESET" /\ ~Reset(B, "XMT_RESET")
  <2>1. Reset(D, "ACK_RESET")
    BY <1>1 DEF Reset
  <2>2. rv.state \in {"IDLE", "RESET"}
    BY DEF RecvRecords
  <2>3. QED
    BY <2>1, <2>2 DEF Pair, ResetsRight
<1>3. Linked(D, rv) /\ Had(rv, g) = 0
  BY <1>2 DEF Linked, Had
<1>4. \A q \in Elems(Tail(D)) : q.type # "ACK_RESET" /\ (q.type = "DATA" => q.data.ep = ep)
  BY <1>1 DEF Pair, ResetsRight, EpochsRight
<1>5. rv2.state = "IDLE" /\ rv2.next = 0 /\ \A k \in HeldSlots : ~rv2.held[k].full
  BY DEF RReset, NotHeld
<1> HIDE DEF rv2
<1>6. Had(rv2, <<>>) = 0 /\ Len(<<>>) = 0 /\ Number(0) = 0
  <2>1. 0 % SEQMOD = 0
    <3>1. SEQMOD \in Nat \ {0} /\ 0 \in Nat /\ 0 < SEQMOD
      BY Sizes
    <3>2. QED
      BY <3>1, RemainderAround
  <2>2. QED
    BY <1>5, <2>1 DEF Had, Number
<1>7. \A p \in Elems(B) : ~IsReply(p)
  BY <1>2 DEF Pair, Silent
<1>8. ResetsRight(Tail(D), B, rv2)
  BY <1>1, <1>2, <1>4 DEF Pair, ResetsRight, Reset
<1>9. Silent(B, rv2)
  BY <1>5, <1>7 DEF Silent
<1>10. EpochsRight(Tail(D), rv2, ep)
  BY <1>4 DEF EpochsRight
<1>11. DeliveredRight(rv2, <<>>, ep)
  BY <1>6 DEF DeliveredRight
<1>12. HeldRight(rv2, <<>>, x, ep)
  BY <1>5, <1>6 DEF HeldRight, HeldSlot
<1>13. FlightRight(Tail(D), rv2, <<>>, x, ep)
  <2>1. FlightRight(D, rv, g, x, ep)
    BY DEF Pair
  <2>2. \A p \in Elems(Tail(D)) : Current(p, ep) => Flies(p, rv2, <<>>, x)
    BY <1>1, <1>3, <1>5, <1>6, <2>1 DEF FlightRight, Flies
  <2>3. \A p, q \in Elems(Tail(D)) : Current(p, ep) /\ Current(q, ep) /\ Before(Tail(D), p, q) =>
          p.data.n < q.data.n + Pnbufs
    BY <1>1, <1>3, <2>1 DEF FlightRight
  <2>4. QED
    BY <2>2, <2>3 DEF FlightRight
<1>14. WindowRight(Tail(D), B, rv2, <<>>, x, f, ep)
  <2>1. SUFFICES ASSUME x.state # "RESET" PROVE WindowRight(Tail(D), B, rv2, <<>>, x, f, ep)
    BY DEF WindowRight
  <2>2. f <= 0 /\ 0 <= x.n /\ MarksRight(rv, g, x, ep)
    BY <1>3, <2>1 DEF Pair, WindowRight
  <2>3. MarksRight(rv2, <<>>, x, ep)
    BY <1>2, <2>2 DEF MarksRight
  <2>4. \A p \in Elems(B) : ~IsAck(p) /\ p.type # "NAK"
    BY <1>7 DEF IsAck, IsReply
  <2>5. QED
    BY <1>6, <2>2, <2>3, <2>4 DEF WindowRight
<1>15. QED
  BY <1>8, <1>9, <1>10, <1>11, <1>12, <1>13, <1>14 DEF Pair, rv2

(* The transmitter's daemon starts anew.                                    *)
LEMMA PairRestarts ==
  ASSUME NEW D, NEW B, NEW D2, NEW B2, NEW rv, NEW g, NEW x, NEW f, NEW ep,
         Pair(D, B, rv, g, x, f, ep), Shrinks(D2, D, DTypes), \A p \in Elems(B2) : p.type \notin BTypes,
         NEW y, y.state = "RESET", NEW f2
  PROVE  Pair(D2, B2, rv, g, y, f2, ep)
<1>1. Shrinks(B2, B, BTypes) /\ KeepsReset(B2, B)
  BY DEF Shrinks, KeepsReset, IsReply, BTypes
<1>2. Pair(D2, B2, rv, g, x, f, ep)
  BY <1>1, PairShrinks
<1>3. QED
  BY <1>2 DEF Pair, HeldRight, HeldSlot, FlightRight, Flies, WindowRight

LEMMA ElemsPackets ==
  ASSUME NEW s \in Seq(Packets), NEW p \in Elems(s)
  PROVE  p \in Packets /\ p.data \in Datum /\ p.data.ep \in Nat /\ p.data.n \in Nat /\ p.seq \in 0 .. SEQMOD - 1
<1>1. \A i \in 1 .. Len(s) : s[i] \in Packets
  OBVIOUS
<1>2. p \in Packets
  BY <1>1 DEF Elems
<1>3. QED
  BY <1>2, PacketFields

LEMMA HeldFields ==
  ASSUME NEW rv \in RecvRecords, NEW k \in HeldSlots
  PROVE  /\ rv.held[k].full \in BOOLEAN /\ rv.held[k].seq \in 0 .. SEQMOD - 1
         /\ rv.held[k].data \in Datum /\ rv.held[k].data.ep \in Nat /\ rv.held[k].data.n \in Nat
         /\ rv.state \in {"IDLE", "RESET"} /\ rv.next \in 0 .. SEQMOD - 1
  BY DEF RecvRecords, Datum

LEMMA HadIn ==
  ASSUME NEW rv, NEW S, NEW g \in Seq(S)
  PROVE  Had(rv, g) \in Nat
<1>1. Len(g) \in Nat
  BY LenProperties
<1>2. QED
  BY <1>1 DEF Had

(* The transmitter sends, lets go of what was acknowledged, and marks.      *)
LEMMA PairSends ==
  ASSUME NEW D \in Seq(Packets), NEW B \in Seq(Packets), NEW D2, NEW rv \in RecvRecords, NEW g \in Seq(Datum),
         NEW x \in XmitRecords, NEW f \in Nat, NEW ep \in Nat,
         Pair(D, B, rv, g, x, f, ep), WindowOf(x, f, ep), x.state # "RESET",
         NEW a \in Doings, DoneRight(a, f, x.n, ep), Grows(D2, D, DTypes, a.out),
         Linked(D, rv) =>
           /\ a.freed <= Had(rv, g) /\ MarksRight(rv, g, a.x, ep)
           /\ \A p \in Elems(B) : /\ IsAck(p) => a.freed <= p.data.n
                                  /\ p.type = "NAK" => a.freed < p.data.n
  PROVE  Pair(D2, B, rv, g, a.x, a.freed, ep)
<1> DEFINE y == a.x
           fr == a.freed
           out == a.out
           h == Had(rv, g)
           n == x.n
           m == a.x.n
<1>1. /\ y \in XmitRecords /\ fr \in Nat /\ out \in Seq(Packets) /\ n \in Nat /\ m \in Nat
      /\ h \in Nat /\ Pnbufs \in Nat
  BY DoingFields, XmitFields, Sizes, HadIn
<1>2. /\ y.state # "RESET" /\ f <= fr /\ n <= m /\ fr <= m /\ m <= fr + Pnbufs /\ n <= f + Pnbufs
      /\ \A p \in Elems(out) : p.type = "DATA" /\ p.data.ep = ep /\ f < p.data.n /\ p.data.n <= m
      /\ \A p, q \in Elems(out) : Before(out, p, q) => p.data.n < q.data.n + Pnbufs
  BY DEF DoneRight, DataOf, WindowOf
<1>3. /\ \A p \in Elems(D2) : p.type \in DTypes => p \in Elems(D) \/ p \in Elems(out)
      /\ \A p, q \in Elems(D2) : p.type \in DTypes /\ q.type \in DTypes /\ Before(D2, p, q) =>
           Before(D, p, q) \/ Before(out, p, q) \/ (p \in Elems(D) /\ q \in Elems(out))
  BY DEF Grows
<1>4. \A p, q : (Before(D, p, q) => p \in Elems(D) /\ q \in Elems(D))
                /\ (Before(out, p, q) => p \in Elems(out) /\ q \in Elems(out))
  BY BeforeElems
<1>5. y.n = m /\ x.n = n
  OBVIOUS
<1> HIDE DEF y, fr, out, h, n, m
<1>6. Reset(D2, "ACK_RESET") => Reset(D, "ACK_RESET")
  BY <1>2, <1>3 DEF Reset, DTypes
<1>7. Linked(D2, rv) => Linked(D, rv)
  BY <1>6 DEF Linked
<1>8. ResetsRight(D2, B, rv)
  BY <1>2, <1>3, <1>4, <1>6 DEF Pair, ResetsRight, DTypes
<1>9. EpochsRight(D2, rv, ep)
  <2>1. EpochsRight(D, rv, ep)
    BY DEF Pair
  <2>2. QED
    BY <1>2, <1>3, <1>4, <2>1 DEF EpochsRight, DTypes
<1>10. HeldRight(rv, g, y, ep)
  <2>1. HeldRight(rv, g, x, ep)
    BY DEF Pair
  <2>2. ASSUME NEW k \in HeldSlots, HeldSlot(rv, g, x, ep, k) PROVE HeldSlot(rv, g, y, ep, k)
    <3> DEFINE i == rv.held[k].data.n
    <3>1. i \in Nat
      BY HeldFields
    <3> HIDE DEF i
    <3>2. i <= n => i <= m
      BY <1>1, <1>2, <3>1
    <3>3. QED
      BY <1>2, <1>5, <2>2, <3>2 DEF HeldSlot, i
  <2>3. QED
    BY <2>1, <2>2 DEF HeldRight
<1>11. FlightRight(D2, rv, g, y, ep)
  <2>1. SUFFICES ASSUME Linked(D2, rv) PROVE FlightRight(D2, rv, g, y, ep)
    BY DEF FlightRight
  <2>2. /\ \A p \in Elems(D) : Current(p, ep) => Flies(p, rv, g, x)
        /\ \A p, q \in Elems(D) : Current(p, ep) /\ Current(q, ep) /\ Before(D, p, q) =>
             p.data.n < q.data.n + Pnbufs
    BY <1>7, <2>1 DEF Pair, FlightRight
  <2>3. f <= h /\ h <= n /\ fr <= h
    BY <1>7, <2>1 DEF Pair, WindowRight, h, n, fr
  <2>4. ASSUME NEW p \in Elems(D2), Current(p, ep) PROVE Flies(p, rv, g, y)
    <3> DEFINE j == p.data.n
    <3>1. p \in Elems(D) \/ p \in Elems(out)
      BY <1>3, <2>4 DEF Current, DTypes
    <3>2. j \in Nat
      BY <1>1, <3>1, ElemsPackets
    <3>3. CASE p \in Elems(D)
      <4>1. Flies(p, rv, g, x)
        BY <2>2, <2>4, <3>3
      <4> HIDE DEF j
      <4>2. j <= n => j <= m
        BY <1>1, <1>2, <3>2
      <4>3. QED
        BY <1>2, <1>5, <4>1, <4>2 DEF Flies, j
    <3>4. CASE p \in Elems(out)
      <4>1. f < j /\ j <= m
        BY <1>2, <3>4
      <4> HIDE DEF j
      <4>2. h < j + Pnbufs /\ j <= h + Pnbufs /\ n < j + Pnbufs
        BY <1>1, <1>2, <2>3, <3>2, <4>1
      <4>3. ASSUME NEW k \in HeldSlots, rv.held[k].full, rv.state = "IDLE" PROVE rv.held[k].data.n < j + Pnbufs
        <5> DEFINE i == rv.held[k].data.n
        <5>1. i \in Nat
          BY HeldFields
        <5>2. i <= n
          BY <1>5, <4>3 DEF Pair, HeldRight, HeldSlot
        <5> HIDE DEF i
        <5>3. i < j + Pnbufs
          BY <1>1, <3>2, <4>2, <5>1, <5>2
        <5>4. QED
          BY <5>3 DEF i
      <4>4. QED
        BY <1>5, <4>1, <4>2, <4>3 DEF Flies, j, h
    <3>5. QED
      BY <3>1, <3>3, <3>4
  <2>5. ASSUME NEW p \in Elems(D2), NEW q \in Elems(D2), Current(p, ep), Current(q, ep), Before(D2, p, q)
        PROVE  p.data.n < q.data.n + Pnbufs
    <3>1. Before(D, p, q) \/ Before(out, p, q) \/ (p \in Elems(D) /\ q \in Elems(out))
      BY <1>3, <2>5 DEF Current, DTypes
    <3>2. CASE Before(D, p, q)
      BY <1>4, <2>2, <2>5, <3>2
    <3>3. CASE Before(out, p, q)
      BY <1>2, <1>4, <3>3
    <3>4. CASE p \in Elems(D) /\ q \in Elems(out)
      <4> DEFINE i == p.data.n
                 j == q.data.n
      <4>1. i \in Nat /\ j \in Nat
        BY <1>1, <3>4, ElemsPackets
      <4>2. i <= n /\ f < j
        BY <1>2, <1>5, <2>2, <2>5, <3>4 DEF Flies
      <4> HIDE DEF i, j
      <4>3. i < j + Pnbufs
        BY <1>1, <1>2, <4>1, <4>2
      <4>4. QED
        BY <4>3 DEF i, j
    <3>5. QED
      BY <3>1, <3>2, <3>3, <3>4
  <2>6. QED
    BY <2>4, <2>5 DEF FlightRight
<1>12. WindowRight(D2, B, rv, g, y, fr, ep)
  <2>1. SUFFICES ASSUME Linked(D2, rv) PROVE WindowRight(D2, B, rv, g, y, fr, ep)
    BY DEF WindowRight
  <2>2. /\ fr <= h /\ MarksRight(rv, g, y, ep)
        /\ \A p \in Elems(B) : (IsAck(p) => fr <= p.data.n) /\ (p.type = "NAK" => fr < p.data.n)
    BY <1>7, <2>1 DEF h, y, fr
  <2>3. /\ h <= n
        /\ \A p \in Elems(B) : IsAck(p) => AckRight(p, rv, g, f)
        /\ \A p \in Elems(B) : p.type = "NAK" => NakRight(p, rv, g, x, f, ep)
        /\ \A p, q \in Elems(B) : Before(B, p, q) =>
             /\ IsAck(p) /\ IsAck(q) => p.data.n <= q.data.n
             /\ IsAck(p) /\ q.type = "NAK" => p.data.n < q.data.n
    BY <1>7, <2>1 DEF Pair, WindowRight, h, n
  <2>4. h <= m
    BY <1>1, <1>2, <2>3
  <2>5. \A p \in Elems(B) : IsAck(p) => AckRight(p, rv, g, fr)
    BY <2>2, <2>3 DEF AckRight
  <2>6. ASSUME NEW p \in Elems(B), p.type = "NAK" PROVE NakRight(p, rv, g, y, fr, ep)
    <3> DEFINE j == p.data.n
    <3>1. NakRight(p, rv, g, x, f, ep) /\ fr < p.data.n
      BY <2>2, <2>3, <2>6
    <3>2. j <= n /\ fr < j /\ f < j
      BY <1>5, <3>1 DEF NakRight
    <3>5. j \in Nat
      BY ElemsPackets
    <3> HIDE DEF j
    <3>3. j <= m
      BY <1>1, <1>2, <3>2, <3>5
    <3>4. QED
      BY <1>5, <3>1, <3>3 DEF NakRight, j
  <2>7. QED
    BY <1>5, <2>2, <2>3, <2>4, <2>5, <2>6 DEF WindowRight, h
<1>13. QED
  BY <1>8, <1>9, <1>10, <1>11, <1>12 DEF Pair, y, fr

(* The receiver acknowledges what it has given.                             *)
LEMMA PairAcks ==
  ASSUME NEW D, NEW B \in Seq(Packets), NEW D2, NEW B2, NEW rv, NEW g \in Seq(Datum),
         NEW x \in XmitRecords, NEW f \in Nat, NEW ep,
         Pair(D, B, rv, g, x, f, ep), rv.state = "IDLE", Shrinks(D2, D, DTypes),
         NEW out, Grows(B2, B, BTypes, out), \A p, q : ~Before(out, p, q),
         \A p \in Elems(out) : /\ IsAck(p) /\ p.data.n = Len(g)
                               /\ p.seq = Number(Len(g) + SEQMOD - 1)
  PROVE  Pair(D2, B2, rv, g, x, f, ep)
<1>1. /\ \A p \in Elems(B2) : p.type \in BTypes => p \in Elems(B) \/ p \in Elems(out)
      /\ \A p, q \in Elems(B2) : p.type \in BTypes /\ q.type \in BTypes /\ Before(B2, p, q) =>
           Before(B, p, q) \/ (p \in Elems(B) /\ q \in Elems(out))
  BY DEF Grows
<1>2. Shrinks(B, B, BTypes) /\ KeepsReset(B, B)
  BY ShrinksSame DEF KeepsReset
<1>3. Pair(D2, B, rv, g, x, f, ep)
  BY <1>2, PairShrinks
<1>4. \A p, q : Before(B, p, q) => p \in Elems(B) /\ q \in Elems(B)
  BY BeforeElems
<1>5. \A p \in Elems(out) : p.type # "XMT_RESET" /\ p.type # "NAK"
  BY DEF IsAck
<1>6. ~Reset(B, "XMT_RESET") /\ ~Reset(B2, "XMT_RESET")
  <2>1. ~Reset(B, "XMT_RESET")
    BY <1>3 DEF Pair, ResetsRight
  <2>2. QED
    BY <1>1, <1>5, <2>1 DEF Reset, BTypes
<1>7. ResetsRight(D2, B2, rv)
  BY <1>3, <1>6 DEF Pair, ResetsRight, Reset
<1>8. Silent(B2, rv)
  BY <1>6 DEF Silent, Reset
<1>9. WindowRight(D2, B2, rv, g, x, f, ep)
  <2>1. SUFFICES ASSUME x.state # "RESET" PROVE WindowRight(D2, B2, rv, g, x, f, ep)
    BY DEF WindowRight
  <2>2. Linked(D2, rv) /\ Had(rv, g) = Len(g) /\ Len(g) \in Nat
    BY LenProperties DEF Linked, Had
  <2>3. /\ f <= Len(g) /\ Len(g) <= x.n /\ MarksRight(rv, g, x, ep)
        /\ \A p \in Elems(B) : IsAck(p) => AckRight(p, rv, g, f)
        /\ \A p \in Elems(B) : p.type = "NAK" => NakRight(p, rv, g, x, f, ep)
        /\ \A p, q \in Elems(B) : Before(B, p, q) =>
             /\ IsAck(p) /\ IsAck(q) => p.data.n <= q.data.n
             /\ IsAck(p) /\ q.type = "NAK" => p.data.n < q.data.n
    BY <1>3, <2>1, <2>2 DEF Pair, WindowRight
  <2>4. ASSUME NEW p \in Elems(B2), IsAck(p) PROVE AckRight(p, rv, g, f)
    <3>1. p \in Elems(B) \/ p \in Elems(out)
      BY <1>1, <2>4 DEF IsAck, BTypes
    <3>2. QED
      BY <2>2, <2>3, <2>4, <3>1 DEF AckRight
  <2>5. ASSUME NEW p \in Elems(B2), p.type = "NAK" PROVE NakRight(p, rv, g, x, f, ep)
    BY <1>1, <1>5, <2>3, <2>5 DEF BTypes
  <2>6. ASSUME NEW p \in Elems(B2), NEW q \in Elems(B2), Before(B2, p, q), IsAck(p), IsAck(q) \/ q.type = "NAK"
        PROVE  (IsAck(q) => p.data.n <= q.data.n) /\ (q.type = "NAK" => p.data.n < q.data.n)
    <3>1. Before(B, p, q) \/ (p \in Elems(B) /\ q \in Elems(out))
      BY <1>1, <2>6 DEF IsAck, BTypes
    <3>2. CASE Before(B, p, q)
      BY <1>4, <2>3, <2>6, <3>2
    <3>3. CASE p \in Elems(B) /\ q \in Elems(out)
      <4>1. p.data.n <= Len(g) /\ q.data.n = Len(g) /\ q.type # "NAK"
        BY <1>5, <2>2, <2>3, <2>6, <3>3 DEF AckRight
      <4>2. QED
        BY <4>1
    <3>4. QED
      BY <3>1, <3>2, <3>3
  <2>7. QED
    BY <2>2, <2>3, <2>4, <2>5, <2>6 DEF WindowRight
<1>10. QED
  BY <1>3, <1>7, <1>8, <1>9 DEF Pair

-----------------------------------------------------------------------------
(* The receiver.  Accept takes the packet, and then those that were held    *)
(* behind it.                                                               *)
Deliveries == [r : RecvRecords, got : Seq(Datum)]

FirstTaken(e, pkt) == [r |-> [recv[e] EXCEPT !.next = Ahead(@, 1)], got |-> Append(got[e], pkt.data)]

LEMMA FirstTakenIs ==
  ASSUME NEW e \in Ends, recv[e] \in RecvRecords, got[e] \in Seq(Datum), NEW pkt \in Packets
  PROVE  /\ FirstTaken(e, pkt) \in Deliveries
         /\ FirstTaken(e, pkt).r.state = recv[e].state
         /\ FirstTaken(e, pkt).r.next = Ahead(recv[e].next, 1)
         /\ FirstTaken(e, pkt).r.held = recv[e].held
         /\ FirstTaken(e, pkt).got = Append(got[e], pkt.data)
<1> DEFINE rv == recv[e]
           s == Ahead(rv.next, 1)
           q == [rv EXCEPT !.next = s]
           g == Append(got[e], pkt.data)
<1>1. s \in 0 .. SEQMOD - 1
  <2>1. rv.next \in 0 .. SEQMOD - 1
    BY DEF RecvRecords
  <2>2. QED
    BY <2>1, AheadIn
<1>2. g \in Seq(Datum)
  BY PacketFields, AppendProperties
<1>3. FirstTaken(e, pkt) = [r |-> q, got |-> g]
  BY DEF FirstTaken
<1> HIDE DEF s, g
<1>4. q \in RecvRecords /\ q.state = rv.state /\ q.next = s /\ q.held = rv.held
  BY <1>1 DEF RecvRecords
<1> HIDE DEF q
<1>5. QED
  BY <1>2, <1>3, <1>4 DEF Deliveries, s, g

(* Slot i fits when it holds what is expected, and moves to the higher      *)
(* level.                                                                   *)
Fits(b, i) == i \in HeldSlots /\ b.r.held[i].full /\ b.r.held[i].seq = b.r.next

Moves(b, c, i) ==
  /\ c.r.state = b.r.state /\ c.r.next = Ahead(b.r.next, 1)
  /\ ~c.r.held[i].full
  /\ \A k \in HeldSlots : k # i => c.r.held[k] = b.r.held[k]
  /\ c.got = Append(b.got, b.r.held[i].data)

LEMMA MovenakIs ==
  ASSUME NEW b \in Deliveries
  PROVE  /\ Movenak(b) \in Deliveries
         /\ (\A i \in HeldSlots : ~Fits(b, i)) => Movenak(b) = b
         /\ (\E i \in HeldSlots : Fits(b, i)) => \E i \in HeldSlots : Fits(b, i) /\ Moves(b, Movenak(b), i)
<1> DEFINE fit == {i \in HeldSlots : b.r.held[i].full /\ b.r.held[i].seq = b.r.next}
<1>1. b.r \in RecvRecords /\ b.got \in Seq(Datum) /\ HeldSlots \in SUBSET Nat
  BY DEF Deliveries, HeldSlots
<1>2. CASE fit = {}
  <2>1. Movenak(b) = b
    BY <1>2 DEF Movenak
  <2>2. QED
    BY <1>2, <2>1 DEF Fits
<1>3. CASE fit # {}
  <2> DEFINE i == Min(fit)
             s == Ahead(b.r.next, 1)
             h == [b.r.held EXCEPT ![i] = NotHeld]
             q == [b.r EXCEPT !.held = h, !.next = s]
             g == Append(b.got, b.r.held[i].data)
             c == [r |-> q, got |-> g]
  <2>1. fit \in SUBSET Nat
    BY <1>1
  <2>2. i \in fit
    <3> HIDE DEF fit
    <3> QED
      BY <1>3, <2>1, MinIsLeast
  <2>3. Movenak(b) = c
    BY <1>3 DEF Movenak
  <2> HIDE DEF i
  <2>4. i \in HeldSlots /\ Fits(b, i)
    BY <2>2 DEF Fits
  <2>5. s \in 0 .. SEQMOD - 1
    <3>1. b.r.next \in 0 .. SEQMOD - 1
      BY <1>1, <2>4, HeldFields
    <3>2. QED
      BY <3>1, AheadIn
  <2>6. g \in Seq(Datum)
    <3>1. b.r.held[i].data \in Datum
      BY <1>1, <2>4, HeldFields
    <3>2. QED
      BY <1>1, <3>1, AppendProperties
  <2>7. /\ h \in [HeldSlots -> [full : BOOLEAN, seq : 0 .. SEQMOD - 1, data : [ep : Nat, n : Nat]]]
        /\ ~h[i].full /\ \A k \in HeldSlots : k # i => h[k] = b.r.held[k]
    <3>1. b.r.held \in [HeldSlots -> [full : BOOLEAN, seq : 0 .. SEQMOD - 1, data : [ep : Nat, n : Nat]]]
      BY <1>1 DEF RecvRecords
    <3>2. NotHeld \in [full : BOOLEAN, seq : 0 .. SEQMOD - 1, data : [ep : Nat, n : Nat]] /\ ~NotHeld.full
      BY Sizes DEF NotHeld, NoData
    <3> HIDE DEF NotHeld
    <3>3. QED
      BY <2>4, <3>1, <3>2
  <2> HIDE DEF s, h, g
  <2>8. q \in RecvRecords /\ q.state = b.r.state /\ q.next = s /\ q.held = h
    <3> DEFINE r == b.r
    <3>1. r \in RecvRecords /\ q = [r EXCEPT !.held = h, !.next = s]
      BY <1>1
    <3> HIDE DEF r, q
    <3>2. q \in RecvRecords /\ q.state = r.state /\ q.next = s /\ q.held = h
      BY <2>5, <2>7, <3>1 DEF RecvRecords
    <3>3. QED
      BY <3>2 DEF r
  <2> HIDE DEF q
  <2>9. c \in Deliveries /\ c.r = q /\ c.got = g
    BY <2>6, <2>8 DEF Deliveries
  <2>10. Moves(b, c, i)
    BY <2>7, <2>8, <2>9 DEF Moves, s, g
  <2> HIDE DEF c
  <2>11. QED
    BY <2>3, <2>4, <2>9, <2>10
<1>4. QED
  BY <1>2, <1>3

(* The walk of Accept.                                                    *)
AcceptWalk(w, e, pkt) ==
  /\ w \in [0 .. NPKTBUFS - 1 -> Deliveries] /\ w[0] = FirstTaken(e, pkt)
  /\ \A k \in 1 .. NPKTBUFS - 1 : w[k] = Movenak(w[k - 1])
  /\ Accept(e, pkt) = w[NPKTBUFS - 1]

LEMMA AcceptIs ==
  ASSUME NEW e \in Ends, recv[e] \in RecvRecords, got[e] \in Seq(Datum), NEW pkt \in Packets
  PROVE  \E w : AcceptWalk(w, e, pkt)
<1> DEFINE N == NPKTBUFS - 1
           z == FirstTaken(e, pkt)
           Step(v, k) == Movenak(v)
           F == [p \in Deliveries \X (1 .. N) |-> Step(p[1], p[2])]
           Is(w) == w = [k \in 0 .. N |-> IF k = 0 THEN z ELSE Step(w[k - 1], k)]
           made == CHOOSE w : Is(w)
<1>1. N \in Nat
  BY Sizes
<1>2. z \in Deliveries /\ \A v \in Deliveries, k \in 1 .. N : Step(v, k) \in Deliveries
  <2> HIDE DEF N, z
  <2> QED
    BY FirstTakenIs, MovenakIs DEF z
<1>3. F \in [Deliveries \X (1 .. N) -> Deliveries] /\ \A v \in Deliveries, k \in 1 .. N : F[<<v, k>>] = Step(v, k)
  <2> HIDE DEF Step, N, z
  <2> QED
    BY <1>2
<1>4. \E w : IsWalk(w, N, Deliveries, z, F)
  <2> HIDE DEF F, N, z
  <2> QED
    BY <1>1, <1>2, <1>3, WalkExists
<1>5. PICK w : IsWalk(w, N, Deliveries, z, F)
  BY <1>4
<1>9. Accept(e, pkt) = made[N]
  BY DEF Accept, Step, z, FirstTaken
<1> HIDE DEF F, Step, z
<1>6. ASSUME NEW k \in 1 .. N PROVE w[k] = Step(w[k - 1], k)
  <2>1. w[k - 1] \in Deliveries /\ w[k] = F[<<w[k - 1], k>>]
    BY <1>1, <1>5 DEF IsWalk
  <2>2. QED
    BY <1>3, <2>1
<1>7. Is(w)
  <2>1. w = [k \in 0 .. N |-> w[k]] /\ w[0] = z
    BY <1>5 DEF IsWalk
  <2>2. ASSUME NEW k \in 0 .. N PROVE w[k] = IF k = 0 THEN z ELSE Step(w[k - 1], k)
    <3>1. k # 0 => k \in 1 .. N
      BY <1>1
    <3>2. QED
      BY <1>6, <2>1, <3>1
  <2>3. QED
    BY <2>1, <2>2
<1>8. Is(made)
  <2> HIDE DEF Is
  <2> QED
    BY <1>7
<1> HIDE DEF made
<1>10. \A k \in 0 .. N : made[k] = IF k = 0 THEN z ELSE Step(made[k - 1], k)
  <2>1. made = [k \in 0 .. N |-> IF k = 0 THEN z ELSE Step(made[k - 1], k)]
    BY <1>8
  <2>2. QED
    BY <2>1, Zenon
<1> DEFINE S == {k \in 0 .. N : made[k] \in Deliveries}
<1>11. 0 .. N \subseteq S
  <2>1. 0 \in S
    BY <1>1, <1>2, <1>10
  <2>2. ASSUME NEW k \in 1 .. N, k - 1 \in S PROVE k \in S
    <3>1. k \in 0 .. N /\ k # 0 /\ made[k - 1] \in Deliveries
      BY <2>2
    <3>2. made[k] = Step(made[k - 1], k) /\ Step(made[k - 1], k) \in Deliveries
      BY <1>2, <1>10, <3>1
    <3>3. QED
      BY <3>1, <3>2
  <2> HIDE DEF S, N
  <2>3. QED
    BY <1>1, <2>1, <2>2, BoundedInduction
<1>12. made \in [0 .. N -> Deliveries]
  <2>1. made = [k \in 0 .. N |-> IF k = 0 THEN z ELSE Step(made[k - 1], k)]
    BY <1>8
  <2>2. \A k \in 0 .. N : made[k] \in Deliveries
    BY <1>11
  <2>3. made = [k \in 0 .. N |-> made[k]]
    BY <1>10, <2>1
  <2>4. QED
    BY <2>2, <2>3
<1>13. AcceptWalk(made, e, pkt)
  <2>1. made[0] = z /\ \A k \in 1 .. N : made[k] = Step(made[k - 1], k)
    BY <1>1, <1>10
  <2>2. QED
    BY <1>9, <1>12, <2>1 DEF AcceptWalk, Step, z
<1>14. QED
  BY <1>13

(* The place of the packet that arrives, told by its sequence number.       *)
Placed(p, rv, g, x, ep) ==
  /\ p \in Packets /\ p.type = "DATA" /\ p.data.ep = ep /\ p.data.n > 0
  /\ p.seq = Number(p.data.n - 1)
  /\ Len(g) < p.data.n + Pnbufs /\ p.data.n <= Len(g) + Pnbufs
  /\ x.state # "RESET" => p.data.n <= x.n
  /\ rv.next = Number(Len(g))

LEMMA DataPlaced ==
  ASSUME NEW D \in Seq(Packets), NEW B, NEW rv, NEW g, NEW x, NEW f, NEW ep,
         Pair(D, B, rv, g, x, f, ep), DataRight(D, ep), rv.state = "IDLE",
         D # <<>>, Head(D).type = "DATA"
  PROVE  Placed(Head(D), rv, g, x, ep)
<1>1. Head(D) \in Elems(D)
  BY TailParts
<1>2. Head(D) \in Packets
  BY <1>1, ElemsPackets
<1>3. Head(D).data.ep = ep
  BY <1>1 DEF Pair, EpochsRight
<1>4. Flies(Head(D), rv, g, x)
  BY <1>1, <1>3 DEF Pair, FlightRight, Linked, Current
<1>5. rv.next = Number(Len(g))
  BY DEF Pair, HeldRight
<1>6. QED
  BY <1>1, <1>2, <1>3, <1>4, <1>5 DEF Placed, DataRight, Flies, Had

LEMMA PlacedMeans ==
  ASSUME NEW p, NEW rv, NEW g \in Seq(Datum), NEW x, NEW ep, Placed(p, rv, g, x, ep)
  PROVE  /\ p.seq = rv.next <=> p.data.n = Len(g) + 1
         /\ p.data.n <= Len(g) => Retry(rv, p.seq)
         /\ p.data.n >= Len(g) + 2 => Skipped(rv, p.seq)
<1> DEFINE n == p.data.n
           L == Len(g)
           s == p.seq
<1>1. /\ n \in Nat /\ L \in Nat /\ n > 0 /\ s = Number(n - 1) /\ L < n + Pnbufs /\ n <= L + Pnbufs
      /\ rv.next = Number(L)
  BY PacketFields, LenProperties DEF Placed
<1>2. SEQMOD \in Nat /\ Pnbufs \in Nat /\ NPKTBUFS \in Nat /\ SEQMOD = 2 * NPKTBUFS /\ Pnbufs <= NPKTBUFS
      /\ NPKTBUFS >= 2
  BY Sizes
<1> HIDE DEF n, L, s
<1>3. n - 1 \in Nat /\ n - 1 < L + SEQMOD /\ L < (n - 1) + SEQMOD
  BY <1>1, <1>2
<1>4. s = rv.next <=> n = L + 1
  <2>1. s = rv.next => n - 1 = L
    BY <1>1, <1>3, NumberSame
  <2>2. QED
    BY <1>1, <2>1
<1>5. ASSUME n <= L PROVE Retry(rv, s)
  <2> DEFINE k == L + 1 - n
  <2>1. k \in 1 .. NPKTBUFS /\ k \in 0 .. SEQMOD /\ L + (SEQMOD - k) = (n - 1) + SEQMOD
    BY <1>1, <1>2, <1>5
  <2>2. Back(Number(L), k) = Number((n - 1) + SEQMOD)
    BY <1>1, <2>1, NumberBack
  <2>3. s = Back(rv.next, k)
    BY <1>1, <1>3, <2>2, NumberAround
  <2>4. QED
    BY <2>1, <2>3 DEF Retry
<1>6. ASSUME n >= L + 2 PROVE Skipped(rv, s)
  <2> DEFINE k == n - 1 - L
  <2>1. k \in 1 .. NPKTBUFS - 1 /\ k \in Nat /\ L + k = n - 1
    BY <1>1, <1>2, <1>6
  <2>2. s = Ahead(rv.next, k)
    BY <1>1, <2>1, NumberAhead
  <2>3. QED
    BY <2>1, <2>2 DEF Skipped
<1>7. QED
  BY <1>4, <1>5, <1>6 DEF n, L, s

(* With at most three packets in a window no more than two are held, and    *)
(* one that comes too early finds the slot that holds it or the first empty *)
(* one.                                                                     *)
SlotOf(rv, n, i) ==
  /\ i \in HeldSlots /\ i < Pnbufs
  /\ rv.held[i].full => rv.held[i].data.n = n
  /\ ~rv.held[i].full =>
       /\ \A j \in HeldSlots : j < i => rv.held[j].full /\ rv.held[j].data.n # n
       /\ \A j \in HeldSlots : j > i => ~rv.held[j].full

LEMMA Room ==
  ASSUME Pnbufs <= 3, NEW rv \in RecvRecords, NEW g \in Seq(Datum), NEW x, NEW ep,
         HeldRight(rv, g, x, ep), rv.state = "IDLE",
         NEW n \in Nat, Len(g) + 2 <= n, n <= Len(g) + Pnbufs, NEW s, s = Number(n - 1)
  PROVE  SlotsFor(rv, s) # {} /\ SlotOf(rv, n, Min(SlotsFor(rv, s)))
<1> DEFINE S == SlotsFor(rv, s)
           L == Len(g)
           m == [k \in HeldSlots |-> rv.held[k].data.n]
           F == {k \in HeldSlots : rv.held[k].full}
<1>1. /\ Pnbufs \in Nat /\ Pnbufs <= NPKTBUFS /\ NPKTBUFS \in Nat /\ SEQMOD \in Nat
      /\ SEQMOD = 2 * NPKTBUFS /\ L \in Nat /\ HeldSlots = 1 .. NPKTBUFS - 1 /\ NPKTBUFS >= 2
  BY Sizes, LenProperties DEF HeldSlots
<1>2. m \in [HeldSlots -> Nat]
  BY HeldFields
<1>3. /\ \A k \in F : k < Pnbufs /\ L + 2 <= m[k] /\ m[k] <= L + Pnbufs /\ rv.held[k].seq = Number(m[k] - 1)
      /\ \A j, k \in HeldSlots : k \in F /\ j < k => j \in F
      /\ \A j, k \in HeldSlots : j \in F /\ k \in F /\ j < k => m[j] # m[k]
  BY DEF HeldRight, HeldSlot
<1>4. S = {k \in HeldSlots : k \notin F \/ rv.held[k].seq = s}
  BY DEF SlotsFor
<1>5. Len(g) + 2 = L + 2 /\ L + 2 <= n /\ n <= L + Pnbufs
  OBVIOUS
<1> HIDE DEF S, L, m, F
<1>6. ASSUME NEW k \in F PROVE k \in HeldSlots /\ (rv.held[k].seq = s <=> m[k] = n)
  <2>1. k \in HeldSlots
    BY DEF F
  <2>2. m[k] \in Nat /\ L + 2 <= m[k] /\ m[k] <= L + Pnbufs /\ rv.held[k].seq = Number(m[k] - 1)
    BY <1>2, <1>3, <2>1
  <2> DEFINE i == m[k]
  <2> HIDE DEF i
  <2>3. i \in Nat /\ L + 2 <= i /\ i <= L + Pnbufs
    BY <2>2 DEF i
  <2>4. i - 1 \in Nat /\ n - 1 \in Nat /\ i - 1 < (n - 1) + SEQMOD /\ n - 1 < (i - 1) + SEQMOD
    BY <1>1, <1>5, <2>3
  <2>5. Number(i - 1) = Number(n - 1) => i - 1 = n - 1
    BY <2>4, NumberSame
  <2>6. Number(i - 1) = s <=> i = n
    BY <1>5, <2>3, <2>5
  <2>7. QED
    BY <2>1, <2>2, <2>6 DEF i
<1>7. ~(\A k \in 1 .. Pnbufs - 1 : k \in F /\ m[k] # n)
  <2>1. SUFFICES ASSUME \A k \in 1 .. Pnbufs - 1 : k \in F /\ m[k] # n PROVE FALSE
    OBVIOUS
  <2>2. Pnbufs \in {2, 3} /\ n \in {L + 2, L + 3}
    BY <1>1, <1>5
  <2>3. 1 \in F /\ m[1] # n /\ 1 \in HeldSlots
    BY <1>6, <2>1, <2>2
  <2>4. m[1] \in Nat /\ L + 2 <= m[1] /\ m[1] <= L + Pnbufs
    BY <1>2, <1>3, <2>3
  <2>5. CASE Pnbufs = 2
    <3> DEFINE i == m[1]
    <3> HIDE DEF i
    <3>1. i \in Nat /\ L + 2 <= i /\ i <= L + Pnbufs /\ i # n
      BY <2>3, <2>4 DEF i
    <3>2. QED
      BY <1>1, <1>5, <2>5, <3>1
  <2>6. CASE Pnbufs = 3
    <3>1. 2 \in F /\ m[2] # n /\ 2 \in HeldSlots
      BY <1>6, <2>1, <2>6
    <3>2. m[2] \in Nat /\ L + 2 <= m[2] /\ m[2] <= L + Pnbufs /\ m[1] # m[2]
      BY <1>2, <1>3, <2>3, <3>1
    <3> DEFINE i == m[1]
               j == m[2]
    <3>3. i \in Nat /\ j \in Nat /\ L + 2 <= i /\ i <= L + 3 /\ L + 2 <= j /\ j <= L + 3 /\ i # j /\ i # n /\ j # n
      BY <2>3, <2>4, <2>6, <3>1, <3>2
    <3> HIDE DEF i, j
    <3>4. QED
      BY <1>1, <2>2, <3>3
  <2>7. QED
    BY <2>2, <2>5, <2>6
<1>8. PICK k0 \in 1 .. Pnbufs - 1 : k0 \notin F \/ m[k0] = n
  BY <1>7
<1>9. k0 \in HeldSlots /\ k0 \in S
  <2>1. k0 \in HeldSlots
    BY <1>1
  <2>2. k0 \in F => rv.held[k0].seq = s
    BY <1>6, <1>8
  <2>3. QED
    BY <1>4, <2>1, <2>2
<1>10. S \in SUBSET Nat /\ S # {} /\ S \subseteq HeldSlots
  BY <1>1, <1>4, <1>9
<1> DEFINE i == Min(S)
<1>11. i \in S /\ \A k \in S : i <= k
  BY <1>10, MinIsLeast
<1> HIDE DEF i
<1>12. i \in HeldSlots /\ i < Pnbufs
  <2>1. i <= k0 /\ i \in Nat /\ k0 \in Nat /\ k0 < Pnbufs
    BY <1>1, <1>9, <1>10, <1>11
  <2>2. QED
    BY <1>1, <1>10, <1>11, <2>1
<1>13. i \in F => m[i] = n
  BY <1>4, <1>6, <1>11
<1>14. ASSUME NEW j \in HeldSlots, j < i PROVE j \in F /\ m[j] # n
  <2>1. j \notin S
    BY <1>1, <1>11, <1>12, <1>14
  <2>2. QED
    BY <1>4, <1>6, <2>1
<1>15. ASSUME NEW j \in HeldSlots, j > i, i \notin F PROVE j \notin F
  BY <1>1, <1>3, <1>12, <1>15
<1>16. \A k \in HeldSlots : (k \in F <=> rv.held[k].full) /\ m[k] = rv.held[k].data.n
  BY DEF F, m
<1>17. SlotOf(rv, n, i)
  BY <1>12, <1>13, <1>14, <1>15, <1>16 DEF SlotOf
<1>18. QED
  BY <1>10, <1>17 DEF i, S

(* A slot takes the packet, unless one has it already.                      *)
Holds(rv, rv2, p, i) ==
  /\ rv2.state = rv.state /\ rv2.next = rv.next
  /\ rv2.held[i].full
  /\ \A k \in HeldSlots : rv.held[k].full \/ k # i => rv2.held[k] = rv.held[k]
  /\ ~rv.held[i].full => rv2.held[i].data = p.data /\ rv2.held[i].seq = p.seq

LEMMA HoldIs ==
  ASSUME NEW rv \in RecvRecords, NEW p \in Packets, Min(SlotsFor(rv, p.seq)) \in HeldSlots
  PROVE  Hold(rv, p) \in RecvRecords /\ Holds(rv, Hold(rv, p), p, Min(SlotsFor(rv, p.seq)))
<1> DEFINE i == Min(SlotsFor(rv, p.seq))
           c == Hold(rv, p)
           new == [full |-> TRUE, seq |-> p.seq, data |-> p.data]
           h == [rv.held EXCEPT ![i] = new]
<1>1. c = IF rv.held[i].full THEN rv ELSE [rv EXCEPT !.held = h]
  BY DEF Hold
<1>2. i \in HeldSlots
  OBVIOUS
<1> HIDE DEF c, i
<1>3. new \in [full : BOOLEAN, seq : 0 .. SEQMOD - 1, data : [ep : Nat, n : Nat]] /\ new.full
      /\ new.data = p.data /\ new.seq = p.seq
  BY PacketFields DEF Datum
<1> HIDE DEF new
<1>4. /\ h \in [HeldSlots -> [full : BOOLEAN, seq : 0 .. SEQMOD - 1, data : [ep : Nat, n : Nat]]]
      /\ h[i] = new /\ \A k \in HeldSlots : k # i => h[k] = rv.held[k]
  <2>1. rv.held \in [HeldSlots -> [full : BOOLEAN, seq : 0 .. SEQMOD - 1, data : [ep : Nat, n : Nat]]]
    BY DEF RecvRecords
  <2>2. QED
    BY <1>2, <1>3, <2>1
<1> HIDE DEF h
<1> DEFINE y == [rv EXCEPT !.held = h]
<1>5. y \in RecvRecords /\ y.state = rv.state /\ y.next = rv.next /\ y.held = h
  BY <1>4 DEF RecvRecords
<1> HIDE DEF y
<1>6. c \in RecvRecords /\ Holds(rv, c, p, i)
  <2>1. CASE rv.held[i].full
    BY <1>1, <2>1 DEF Holds
  <2>2. CASE ~rv.held[i].full
    <3>1. c = y
      BY <1>1, <2>2 DEF y
    <3>2. QED
      BY <1>3, <1>4, <1>5, <2>2, <3>1 DEF Holds
  <2>3. QED
    BY <2>1, <2>2
<1>7. QED
  BY <1>6 DEF c, i

(* A packet that comes too early is held, and the transmitter is told.      *)
LEMMA PairHolds ==
  ASSUME Pnbufs <= 3,
         NEW D \in Seq(Packets), NEW B \in Seq(Packets), NEW B2, NEW rv \in RecvRecords,
         NEW g \in Seq(Datum), NEW x \in XmitRecords, NEW f \in Nat, NEW ep \in Nat,
         Pair(D, B, rv, g, x, f, ep), rv.state = "IDLE", DataRight(D, ep),
         D # <<>>, Head(D).type = "DATA", NEW p, p = Head(D),
         p.seq # rv.next, ~Retry(rv, p.seq),
         NEW out, Grows(B2, B, BTypes, out), \A q, q2 : ~Before(out, q, q2),
         \A q \in Elems(out) : q.type = "NAK" /\ q.data.n = p.data.n /\ q.seq = p.seq
  PROVE  SlotsFor(rv, p.seq) # {} /\ Pair(Tail(D), B2, Hold(rv, p), g, x, f, ep)
<1> DEFINE n == p.data.n
           L == Len(g)
           s == p.seq
           i == Min(SlotsFor(rv, s))
           rv2 == Hold(rv, p)
<1>1. Placed(p, rv, g, x, ep)
  BY DataPlaced
<1>2. /\ p \in Packets /\ n \in Nat /\ L \in Nat /\ s = Number(n - 1) /\ n <= L + Pnbufs
      /\ p.data.ep = ep /\ (x.state # "RESET" => n <= x.n) /\ Pnbufs \in Nat /\ rv.next = Number(L)
  BY <1>1, PacketFields, LenProperties, Sizes DEF Placed
<1>3. L + 2 <= n
  <2>1. n # L + 1 /\ ~(n <= L)
    BY <1>1, PlacedMeans
  <2> HIDE DEF n, L
  <2>2. QED
    BY <1>2, <2>1
<1>4. HeldRight(rv, g, x, ep) /\ FlightRight(D, rv, g, x, ep) /\ WindowRight(D, B, rv, g, x, f, ep)
      /\ ResetsRight(D, B, rv) /\ Silent(B, rv) /\ EpochsRight(D, rv, ep) /\ DeliveredRight(rv, g, ep)
  BY DEF Pair
<1>5. SlotsFor(rv, s) # {} /\ SlotOf(rv, n, i)
  BY <1>2, <1>3, <1>4, Room
<1>6. i \in HeldSlots /\ i < Pnbufs
  BY <1>5 DEF SlotOf
<1>7. rv2 \in RecvRecords /\ Holds(rv, rv2, p, i)
  BY <1>2, <1>6, HoldIs
<1> HIDE DEF i, rv2
<1>8. rv2.state = "IDLE" /\ rv2.next = rv.next /\ rv2.held[i].full
  BY <1>7 DEF Holds
<1>9. ASSUME NEW k \in HeldSlots
      PROVE  /\ rv.held[k].full => rv2.held[k] = rv.held[k]
             /\ k # i => rv2.held[k] = rv.held[k]
             /\ k = i /\ ~rv.held[i].full => rv2.held[k].data = p.data /\ rv2.held[k].seq = s
  BY <1>7 DEF Holds
<1>10. rv2.held[i].data.n = n
  <2>1. CASE rv.held[i].full
    BY <1>5, <1>6, <1>9, <2>1 DEF SlotOf
  <2>2. CASE ~rv.held[i].full
    BY <1>6, <1>9, <2>2
  <2>3. QED
    BY <2>1, <2>2
<1>11. /\ Elems(D) = Elems(Tail(D)) \cup {p}
       /\ \A q \in Elems(Tail(D)) : Before(D, p, q)
       /\ \A q, q2 : Before(Tail(D), q, q2) => Before(D, q, q2)
  BY TailParts
<1>12. \A q, q2 : (Before(D, q, q2) => q \in Elems(D) /\ q2 \in Elems(D))
                  /\ (Before(B, q, q2) => q \in Elems(B) /\ q2 \in Elems(B))
  BY BeforeElems
<1>13. /\ \A q \in Elems(B2) : q.type \in BTypes => q \in Elems(B) \/ q \in Elems(out)
       /\ \A q, q2 \in Elems(B2) : q.type \in BTypes /\ q2.type \in BTypes /\ Before(B2, q, q2) =>
            Before(B, q, q2) \/ (q \in Elems(B) /\ q2 \in Elems(out))
  BY DEF Grows
<1>14. ~Reset(B2, "XMT_RESET") /\ ~Reset(Tail(D), "ACK_RESET")
  <2>1. ~Reset(B, "XMT_RESET") /\ ~Reset(D, "ACK_RESET")
    BY <1>4 DEF ResetsRight
  <2>2. QED
    BY <1>11, <1>13, <2>1 DEF Reset, BTypes
<1>15. ResetsRight(Tail(D), B2, rv2)
  BY <1>14 DEF ResetsRight, Reset
<1>16. Silent(B2, rv2)
  BY <1>8, <1>14 DEF Silent, Reset
<1>17. EpochsRight(Tail(D), rv2, ep)
  BY <1>4, <1>11, <1>12, <1>14 DEF EpochsRight, Reset
<1>18. DeliveredRight(rv2, g, ep)
  BY <1>4, <1>8 DEF DeliveredRight
<1>19. HeldRight(rv2, g, x, ep)
  <2>1. ASSUME NEW k \in HeldSlots PROVE HeldSlot(rv2, g, x, ep, k)
    <3>1. CASE rv.held[k].full \/ k # i
      <4>1. HeldSlot(rv, g, x, ep, k) /\ rv2.held[k] = rv.held[k]
        BY <1>4, <1>9, <3>1 DEF HeldRight
      <4>2. QED
        BY <4>1 DEF HeldSlot
    <3>2. CASE k = i /\ ~rv.held[i].full
      <4>1. rv2.held[k].data = p.data /\ rv2.held[k].seq = s
        BY <1>9, <3>2
      <4>2. QED
        BY <1>2, <1>3, <1>6, <3>2, <4>1 DEF HeldSlot
    <3>3. QED
      BY <3>1, <3>2
  <2>2. ASSUME NEW j \in HeldSlots, NEW k \in HeldSlots, rv2.held[k].full, j < k
        PROVE  rv2.held[j].full /\ rv2.held[j].data.n # rv2.held[k].data.n
    <3>1. CASE rv.held[k].full
      <4>1. rv.held[j].full /\ rv.held[j].data.n # rv.held[k].data.n
        BY <1>4, <2>2, <3>1 DEF HeldRight
      <4>2. QED
        BY <1>9, <3>1, <4>1
    <3>2. CASE ~rv.held[k].full
      <4>1. k = i
        BY <1>9, <2>2, <3>2
      <4>2. rv.held[j].full /\ rv.held[j].data.n # n
        BY <1>5, <2>2, <3>2, <4>1 DEF SlotOf
      <4>3. QED
        BY <1>9, <1>10, <4>1, <4>2
    <3>3. QED
      BY <3>1, <3>2
  <2>3. QED
    BY <1>4, <1>8, <2>1, <2>2 DEF HeldRight
<1>20. Had(rv2, g) = L /\ Had(rv, g) = L /\ Linked(D, rv)
  BY <1>8 DEF Had, Linked
<1>21. ASSUME NEW m, Has(rv, g, ep, m) PROVE Has(rv2, g, ep, m)
  <2>1. ASSUME NEW k \in HeldSlots, rv.held[k].full, rv.held[k].data = [ep |-> ep, n |-> m]
        PROVE  Has(rv2, g, ep, m)
    <3>1. rv2.held[k] = rv.held[k]
      BY <1>9, <2>1
    <3>2. QED
      BY <2>1, <3>1 DEF Has
  <2>2. QED
    BY <1>21, <2>1 DEF Has
<1>22. Has(rv2, g, ep, n)
  <2>1. HeldSlot(rv2, g, x, ep, i) /\ rv2.held[i].data \in Datum
    BY <1>6, <1>7, <1>8, <1>19, HeldFields DEF HeldRight
  <2>2. rv2.held[i].data = [ep |-> ep, n |-> n]
    <3> DEFINE d == rv2.held[i].data
    <3>1. d.ep = ep /\ d.n = n /\ d \in Datum
      BY <1>8, <1>10, <2>1 DEF HeldSlot
    <3> HIDE DEF d, n
    <3>2. d = [ep |-> ep, n |-> n]
      BY <3>1 DEF Datum
    <3>3. QED
      BY <3>2 DEF d
  <2>3. QED
    BY <1>6, <1>8, <2>2 DEF Has
<1>23. FlightRight(Tail(D), rv2, g, x, ep)
  <2>1. ASSUME NEW q \in Elems(Tail(D)), Current(q, ep) PROVE Flies(q, rv2, g, x)
    <3>1. Flies(q, rv, g, x)
      BY <1>4, <1>11, <1>20, <2>1 DEF FlightRight
    <3>2. n < q.data.n + Pnbufs
      <4>1. Current(p, ep) /\ p \in Elems(D) /\ q \in Elems(D) /\ Before(D, p, q)
        BY <1>1, <1>11, <2>1 DEF Current, Placed
      <4>2. QED
        BY <1>4, <1>20, <2>1, <4>1 DEF FlightRight
    <3>3. \A k \in HeldSlots : rv2.held[k].full => rv2.held[k].data.n < q.data.n + Pnbufs
      BY <1>9, <1>10, <3>1, <3>2 DEF Flies
    <3>4. QED
      BY <1>20, <3>1, <3>3 DEF Flies
  <2>2. QED
    BY <1>4, <1>11, <1>20, <2>1 DEF FlightRight
<1>24. WindowRight(Tail(D), B2, rv2, g, x, f, ep)
  <2>1. SUFFICES ASSUME x.state # "RESET" PROVE WindowRight(Tail(D), B2, rv2, g, x, f, ep)
    BY DEF WindowRight
  <2>2. /\ f <= L /\ L <= x.n /\ MarksRight(rv, g, x, ep)
        /\ \A q \in Elems(B) : IsAck(q) => AckRight(q, rv, g, f)
        /\ \A q \in Elems(B) : q.type = "NAK" => NakRight(q, rv, g, x, f, ep)
        /\ \A q, q2 \in Elems(B) : Before(B, q, q2) =>
             /\ IsAck(q) /\ IsAck(q2) => q.data.n <= q2.data.n
             /\ IsAck(q) /\ q2.type = "NAK" => q.data.n < q2.data.n
    BY <1>4, <1>20, <2>1 DEF WindowRight
  <2>3. MarksRight(rv2, g, x, ep)
    BY <1>8, <1>21, <2>2 DEF MarksRight
  <2>4. \A q \in Elems(B2) : IsAck(q) => AckRight(q, rv2, g, f)
    BY <1>13, <1>20, <2>2 DEF IsAck, BTypes, AckRight
  <2>5. f < n
    <3> HIDE DEF n, L
    <3>1. QED
      BY <1>2, <1>3, <2>2
  <2>6. ASSUME NEW q \in Elems(B2), q.type = "NAK" PROVE NakRight(q, rv2, g, x, f, ep)
    <3>1. q \in Elems(B) \/ q \in Elems(out)
      BY <1>13, <2>6 DEF BTypes
    <3>2. CASE q \in Elems(B)
      <4>1. NakRight(q, rv, g, x, f, ep)
        BY <2>2, <2>6, <3>2
      <4>2. QED
        BY <1>8, <1>21, <4>1 DEF NakRight
    <3>3. CASE q \in Elems(out)
      <4>1. q.data.n = n /\ q.seq = s
        BY <3>3
      <4>2. QED
        BY <1>2, <1>8, <1>22, <2>1, <2>5, <4>1 DEF NakRight
    <3>4. QED
      BY <3>1, <3>2, <3>3
  <2>7. ASSUME NEW q \in Elems(B2), NEW q2 \in Elems(B2), Before(B2, q, q2), IsAck(q), IsAck(q2) \/ q2.type = "NAK"
        PROVE  (IsAck(q2) => q.data.n <= q2.data.n) /\ (q2.type = "NAK" => q.data.n < q2.data.n)
    <3>1. Before(B, q, q2) \/ (q \in Elems(B) /\ q2 \in Elems(out))
      BY <1>13, <2>7 DEF IsAck, BTypes
    <3>2. CASE Before(B, q, q2)
      BY <1>12, <2>2, <2>7, <3>2
    <3>3. CASE q \in Elems(B) /\ q2 \in Elems(out)
      <4> DEFINE j == q.data.n
      <4>1. j <= L /\ j \in Nat /\ q2.data.n = n /\ q2.type = "NAK"
        BY <1>20, <2>2, <2>7, <3>3, ElemsPackets DEF AckRight
      <4> HIDE DEF j, n, L
      <4>2. j < n
        BY <1>2, <1>3, <4>1
      <4>3. QED
        BY <4>1, <4>2 DEF IsAck, j
    <3>4. QED
      BY <3>1, <3>2, <3>3
  <2>8. QED
    BY <1>20, <2>2, <2>3, <2>4, <2>6, <2>7 DEF WindowRight
<1>25. QED
  BY <1>5, <1>15, <1>16, <1>17, <1>18, <1>19, <1>23, <1>24 DEF Pair, rv2

(* A walk of Movenak ends where nothing moves.                              *)
LEMMA WalkSettles ==
  ASSUME NEW N \in Nat, NEW w, \A k \in 1 .. N : w[k] = Movenak(w[k - 1]),
         NEW j \in 0 .. N, Movenak(w[j]) = w[j]
  PROVE  w[N] = w[j]
<1> DEFINE S == {k \in 0 .. N : k >= j => w[k] = w[j]}
<1>1. 0 \in S
  OBVIOUS
<1>2. ASSUME NEW k \in 1 .. N, k - 1 \in S PROVE k \in S
  <2>1. SUFFICES ASSUME k > j PROVE w[k] = w[j]
    OBVIOUS
  <2>2. k - 1 >= j /\ k - 1 \in S
    BY <1>2, <2>1
  <2>3. w[k - 1] = w[j]
    BY <2>2
  <2>4. QED
    BY <2>3
<1>3. 0 .. N \subseteq S
  <2> HIDE DEF S
  <2> QED
    BY <1>1, <1>2, BoundedInduction
<1>4. QED
  BY <1>3

(* The receiver has given L packets of epoch ep.                            *)
GivenUpTo(b, L, ep) ==
  /\ b \in Deliveries /\ b.r.state = "IDLE" /\ L \in Nat /\ Len(b.got) = L /\ b.r.next = Number(L)
  /\ DeliveredRight(b.r, b.got, ep)

LEMMA OneMore ==
  ASSUME NEW g \in Seq(Datum), NEW rv, rv.state = "IDLE", NEW ep, DeliveredRight(rv, g, ep),
         NEW d \in Datum, d.ep = ep, d.n = Len(g) + 1, NEW rv2
  PROVE  DeliveredRight(rv2, Append(g, d), ep) /\ Len(Append(g, d)) = Len(g) + 1
<1> DEFINE h == Append(g, d)
           L == Len(g)
<1>1. /\ L \in Nat /\ Len(h) = L + 1 /\ h[L + 1] = d
      /\ \A i \in 1 .. L : h[i] = g[i]
  BY LenProperties, AppendProperties
<1>2. \A i \in 1 .. L : g[i].n = i /\ g[i].ep = ep
  BY DEF DeliveredRight
<1>3. d.n = L + 1
  OBVIOUS
<1> HIDE DEF h, L
<1>4. ASSUME NEW i \in 1 .. L + 1 PROVE h[i].n = i /\ h[i].ep = ep
  <2>1. i # L + 1 => i \in 1 .. L
    BY <1>1
  <2>2. QED
    BY <1>1, <1>2, <1>3, <2>1
<1>5. 1 \in 1 .. L + 1
  BY <1>1
<1>6. DeliveredRight(rv2, h, ep)
  BY <1>1, <1>4, <1>5 DEF DeliveredRight
<1>7. QED
  BY <1>1, <1>6 DEF h, L

LEMMA MoveGives ==
  ASSUME NEW b, NEW L, NEW ep, GivenUpTo(b, L, ep), NEW c \in Deliveries, NEW i \in HeldSlots,
         Moves(b, c, i), b.r.held[i].data.ep = ep, b.r.held[i].data.n = L + 1
  PROVE  GivenUpTo(c, L + 1, ep)
<1> DEFINE d == b.r.held[i].data
<1>1. /\ b \in Deliveries /\ b.r \in RecvRecords /\ b.got \in Seq(Datum) /\ b.r.state = "IDLE"
      /\ L \in Nat /\ Len(b.got) = L /\ b.r.next = Number(L) /\ DeliveredRight(b.r, b.got, ep)
  BY DEF GivenUpTo, Deliveries
<1>2. d \in Datum /\ d.ep = ep /\ d.n = L + 1
  BY <1>1, HeldFields
<1>3. c.r.state = "IDLE" /\ c.r.next = Ahead(b.r.next, 1) /\ c.got = Append(b.got, d)
  BY <1>1 DEF Moves
<1> HIDE DEF d
<1>4. DeliveredRight(c.r, c.got, ep) /\ Len(c.got) = L + 1
  BY <1>1, <1>2, <1>3, OneMore
<1>5. c.r.next = Number(L + 1)
  BY <1>1, <1>3, NumberAhead
<1>6. QED
  BY <1>1, <1>3, <1>4, <1>5 DEF GivenUpTo

LEMMA FitsMeans ==
  ASSUME NEW b, NEW L, NEW ep, GivenUpTo(b, L, ep), NEW k \in HeldSlots, b.r.held[k].full,
         L + 1 <= b.r.held[k].data.n, b.r.held[k].data.n <= L + Pnbufs,
         b.r.held[k].seq = Number(b.r.held[k].data.n - 1)
  PROVE  Fits(b, k) <=> b.r.held[k].data.n = L + 1
<1> DEFINE m == b.r.held[k].data.n
<1>1. /\ b.r \in RecvRecords /\ L \in Nat /\ b.r.next = Number(L) /\ Pnbufs \in Nat /\ SEQMOD \in Nat
      /\ Pnbufs <= SEQMOD /\ m \in Nat /\ L + 1 <= m /\ m <= L + Pnbufs
  BY HeldFields, Sizes DEF GivenUpTo, Deliveries
<1> HIDE DEF m
<1>2. m - 1 \in Nat /\ m - 1 < L + SEQMOD /\ L < (m - 1) + SEQMOD
  BY <1>1, Sizes
<1>3. Number(m - 1) = Number(L) => m - 1 = L
  BY <1>1, <1>2, NumberSame
<1>4. Number(m - 1) = Number(L) <=> m = L + 1
  BY <1>1, <1>3
<1>5. QED
  BY <1>1, <1>4 DEF Fits, m

(* After Accept either nothing that was held has been given, as the packet  *)
(* after the next is not there; or all of it has.                           *)
Taken(rv, g, c, ep) ==
  /\ GivenUpTo(c, Len(c.got), ep)
  /\ \/ /\ Len(c.got) = Len(g) + 1
        /\ \A k \in HeldSlots : c.r.held[k] = rv.held[k]
        /\ \A k \in HeldSlots : rv.held[k].full => rv.held[k].data.n # Len(g) + 2
     \/ /\ Len(c.got) > Len(g)
        /\ \A k \in HeldSlots : ~c.r.held[k].full
        /\ \A k \in HeldSlots : rv.held[k].full => rv.held[k].data.n <= Len(c.got)
        /\ \E k \in HeldSlots : rv.held[k].full /\ rv.held[k].data.n = Len(c.got)

LEMMA AcceptTakes ==
  ASSUME Pnbufs <= 3, NEW e \in Ends, recv[e] \in RecvRecords, got[e] \in Seq(Datum), NEW x, NEW ep,
         HeldRight(recv[e], got[e], x, ep), DeliveredRight(recv[e], got[e], ep),
         recv[e].state = "IDLE", NEW p \in Packets, p.data.ep = ep, p.data.n = Len(got[e]) + 1
  PROVE  Taken(recv[e], got[e], Accept(e, p), ep)
<1> DEFINE rv == recv[e]
           g == got[e]
           L == Len(g)
           N == NPKTBUFS - 1
           z == FirstTaken(e, p)
           n(k) == rv.held[k].data.n
           Full(k) == k \in HeldSlots /\ rv.held[k].full
<1>1. L \in Nat /\ Pnbufs \in Nat /\ N \in Nat /\ HeldSlots = 1 .. N /\ L + 2 = (L + 1) + 1
  BY LenProperties, Sizes DEF HeldSlots
<1>2. PICK w : AcceptWalk(w, e, p)
  BY AcceptIs
<1>3. /\ \A k \in 0 .. N : w[k] \in Deliveries
      /\ w[0] = z /\ \A k \in 1 .. N : w[k] = Movenak(w[k - 1])
      /\ Accept(e, p) = w[N]
  BY <1>2 DEF AcceptWalk
<1>4. /\ z \in Deliveries /\ z.r.state = "IDLE" /\ z.r.next = Ahead(rv.next, 1)
      /\ z.r.held = rv.held /\ z.got = Append(g, p.data)
  BY FirstTakenIs
<1>5. GivenUpTo(z, L + 1, ep)
  <2>1. p.data \in Datum /\ g \in Seq(Datum) /\ rv.state = "IDLE" /\ DeliveredRight(rv, g, ep)
        /\ p.data.ep = ep /\ p.data.n = Len(g) + 1
    BY PacketFields
  <2>2. DeliveredRight(z.r, Append(g, p.data), ep) /\ Len(Append(g, p.data)) = L + 1
    BY <2>1, OneMore
  <2>3. rv.next = Number(L)
    BY DEF HeldRight
  <2>4. z.r.next = Number(L + 1)
    BY <1>1, <1>4, <2>3, NumberAhead
  <2>5. QED
    BY <1>1, <1>4, <2>2, <2>4 DEF GivenUpTo
<1>6. \A k \in HeldSlots : Full(k) =>
        /\ k < Pnbufs /\ rv.held[k].data.ep = ep /\ n(k) \in Nat
        /\ L + 2 <= n(k) /\ n(k) <= L + Pnbufs /\ rv.held[k].seq = Number(n(k) - 1)
  BY HeldFields DEF HeldRight, HeldSlot
<1>7. \A j, k \in HeldSlots : Full(j) /\ Full(k) /\ j < k => n(j) # n(k)
  BY DEF HeldRight
<1>8. \A k \in HeldSlots : z.r.held[k] = rv.held[k]
  BY <1>4
<1>9. rv.state = "IDLE" /\ L = Len(g)
  OBVIOUS
<1>20. \A k \in HeldSlots : (Full(k) <=> rv.held[k].full) /\ n(k) = rv.held[k].data.n
  OBVIOUS
<1> HIDE DEF z, L, N, n, Full, rv, g
<1>10. ASSUME NEW k \in HeldSlots, Full(k) PROVE Fits(z, k) <=> n(k) = L + 2
  <2> DEFINE m == n(k)
  <2>1. m \in Nat /\ L + 2 <= m /\ m <= L + Pnbufs
    BY <1>6, <1>10
  <2> HIDE DEF m
  <2>2. (L + 1) + 1 <= m /\ m <= (L + 1) + Pnbufs
    BY <1>1, <2>1
  <2>3. /\ z.r.held[k].full /\ z.r.held[k].data.n = m /\ z.r.held[k].seq = Number(m - 1)
    BY <1>6, <1>8, <1>10, <1>20 DEF m
  <2>4. Fits(z, k) <=> m = (L + 1) + 1
    BY <1>5, <2>2, <2>3, FitsMeans
  <2>5. QED
    BY <1>1, <2>4 DEF m
<1>11. ASSUME NEW k \in HeldSlots, Fits(z, k) PROVE Full(k)
  BY <1>8, <1>11, <1>20 DEF Fits
<1>12. CASE \A k \in HeldSlots : Full(k) => n(k) # L + 2
  <2>1. \A k \in HeldSlots : ~Fits(z, k)
    BY <1>10, <1>11, <1>12
  <2>2. Movenak(z) = z
    BY <1>4, <2>1, MovenakIs
  <2>3. 0 \in 0 .. N /\ Movenak(w[0]) = w[0]
    BY <1>1, <1>3, <2>2
  <2>4. w[N] = w[0]
    BY <1>1, <1>3, <2>3, WalkSettles
  <2>5. Accept(e, p) = z
    BY <1>3, <2>4
  <2>6. Len(z.got) = L + 1
    BY <1>5 DEF GivenUpTo
  <2>7. Taken(rv, g, z, ep)
    BY <1>5, <1>8, <1>9, <1>12, <1>20, <2>6 DEF Taken
  <2>8. QED
    BY <2>5, <2>7 DEF rv, g
<1>13. CASE \E k \in HeldSlots : Full(k) /\ n(k) = L + 2
  <2>1. \E k \in HeldSlots : Fits(z, k)
    BY <1>10, <1>13
  <2>2. PICK i \in HeldSlots : Fits(z, i) /\ Moves(z, Movenak(z), i)
    BY <1>4, <2>1, MovenakIs
  <2>3. Full(i) /\ n(i) = L + 2 /\ i < Pnbufs
    BY <1>6, <1>10, <1>11, <2>2
  <2>4. 1 \in 1 .. N /\ 1 \in 0 .. N /\ w[1] = Movenak(z) /\ w[1] \in Deliveries
    <3>1. 1 \in 1 .. N /\ 1 \in 0 .. N
      BY <1>1
    <3>2. w[1] = Movenak(w[1 - 1])
      BY <1>3, <3>1
    <3>3. QED
      BY <1>3, <3>1, <3>2
  <2> DEFINE b == w[1]
  <2>5. b \in Deliveries /\ Moves(z, b, i)
    BY <2>2, <2>4
  <2> HIDE DEF b
  <2>6. GivenUpTo(b, L + 2, ep)
    <3>1. z.r.held[i].data.ep = ep /\ z.r.held[i].data.n = (L + 1) + 1
      BY <1>1, <1>6, <1>8, <1>20, <2>3
    <3>2. GivenUpTo(b, (L + 1) + 1, ep)
      BY <1>5, <2>5, <3>1, MoveGives
    <3>3. QED
      BY <1>1, <3>2
  <2>7. ~b.r.held[i].full /\ \A k \in HeldSlots : k # i => b.r.held[k] = rv.held[k]
    BY <1>8, <2>5 DEF Moves
  <2>8. CASE \A k \in HeldSlots : Full(k) => k = i
    <3>1. \A k \in HeldSlots : ~b.r.held[k].full
      BY <1>20, <2>7, <2>8
    <3>2. Movenak(b) = b
      BY <2>5, <3>1, MovenakIs DEF Fits
    <3>3. w[N] = b
      <4>1. Movenak(w[1]) = w[1]
        BY <3>2 DEF b
      <4>2. w[N] = w[1]
        BY <1>1, <1>3, <2>4, <4>1, WalkSettles
      <4>3. QED
        BY <4>2 DEF b
    <3>4. Len(b.got) = L + 2 /\ L + 2 > L
      BY <1>1, <2>6 DEF GivenUpTo
    <3>5. \A k \in HeldSlots : rv.held[k].full => rv.held[k].data.n <= L + 2
      <4>1. ASSUME NEW k \in HeldSlots, rv.held[k].full PROVE rv.held[k].data.n <= L + 2
        <5>1. k = i /\ rv.held[k].data.n = L + 2
          BY <1>20, <2>3, <2>8, <4>1
        <5>2. QED
          BY <1>1, <5>1
      <4>2. QED
        BY <4>1
    <3>6. rv.held[i].full /\ rv.held[i].data.n = L + 2
      BY <1>20, <2>3
    <3>7. Taken(rv, g, b, ep)
      BY <1>9, <2>6, <3>1, <3>4, <3>5, <3>6 DEF Taken
    <3>8. QED
      BY <1>3, <3>3, <3>7 DEF rv, g
  <2>9. CASE \E k \in HeldSlots : Full(k) /\ k # i
    <3>1. PICK j \in HeldSlots : Full(j) /\ j # i
      BY <2>9
    <3>2. n(j) = L + 3 /\ j < Pnbufs
      <4>1. i \in Nat /\ j \in Nat
        BY <1>1
      <4>2. n(j) # n(i)
        BY <1>7, <2>3, <3>1, <4>1
      <4> DEFINE m == n(j)
      <4>3. m \in Nat /\ L + 2 <= m /\ m <= L + Pnbufs /\ m # L + 2 /\ j < Pnbufs
        BY <1>6, <2>3, <3>1, <4>2
      <4> HIDE DEF m
      <4>4. m = L + 3
        BY <1>1, <4>3
      <4>5. QED
        BY <4>3, <4>4 DEF m
    <3>3. \A k \in HeldSlots : Full(k) => k = i \/ k = j
      BY <1>1, <1>6, <2>3, <3>1, <3>2
    <3>4. 2 \in 1 .. N /\ 2 \in 0 .. N /\ 2 - 1 = 1
      BY <1>1, <3>1
    <3> DEFINE c == w[2]
    <3>5. c \in Deliveries /\ c = Movenak(b)
      <4>1. w[2] = Movenak(w[2 - 1])
        BY <1>3, <3>4
      <4>2. QED
        BY <1>3, <3>4, <4>1 DEF b
    <3> HIDE DEF c
    <3>6. b.r.held[j] = rv.held[j] /\ rv.held[j].full /\ rv.held[j].data.n = L + 3 /\ rv.held[j].data.ep = ep
          /\ rv.held[j].seq = Number((L + 3) - 1)
      BY <1>6, <1>20, <2>7, <3>1, <3>2
    <3>7. Fits(b, j)
      <4>1. L + 3 = (L + 2) + 1 /\ (L + 2) + 1 <= L + 3 /\ L + 3 <= (L + 2) + Pnbufs
        BY <1>1, Sizes
      <4>2. QED
        BY <2>6, <3>6, <4>1, FitsMeans
    <3>8. \A k \in HeldSlots : k # j => ~b.r.held[k].full
      BY <1>20, <2>7, <3>3
    <3>9. Moves(b, c, j)
      <4>1. PICK k \in HeldSlots : Fits(b, k) /\ Moves(b, Movenak(b), k)
        BY <2>5, <3>7, MovenakIs
      <4>2. k = j
        BY <3>8, <4>1 DEF Fits
      <4>3. QED
        BY <3>5, <4>1, <4>2
    <3>10. GivenUpTo(c, L + 3, ep)
      <4>1. L + 3 = (L + 2) + 1
        BY <1>1
      <4>2. b.r.held[j].data.ep = ep /\ b.r.held[j].data.n = (L + 2) + 1
        BY <3>6, <4>1
      <4>3. GivenUpTo(c, (L + 2) + 1, ep)
        BY <2>6, <3>5, <3>9, <4>2, MoveGives
      <4>4. QED
        BY <4>1, <4>3
    <3>11. \A k \in HeldSlots : ~c.r.held[k].full
      BY <3>8, <3>9 DEF Moves
    <3>12. Movenak(c) = c
      BY <3>5, <3>11, MovenakIs DEF Fits
    <3>13. w[N] = c
      <4>1. Movenak(w[2]) = w[2]
        BY <3>12 DEF c
      <4>2. w[N] = w[2]
        BY <1>1, <1>3, <3>4, <4>1, WalkSettles
      <4>3. QED
        BY <4>2 DEF c
    <3>14. Len(c.got) = L + 3 /\ L + 3 > L
      BY <1>1, <3>10 DEF GivenUpTo
    <3>15. ASSUME NEW k \in HeldSlots, rv.held[k].full PROVE rv.held[k].data.n <= L + 3
      <4>1. rv.held[k].data.n = L + 2 \/ rv.held[k].data.n = L + 3
        BY <1>20, <2>3, <3>2, <3>3, <3>15
      <4>2. QED
        BY <1>1, <4>1
    <3>16. Taken(rv, g, c, ep)
      BY <1>9, <3>6, <3>10, <3>11, <3>14, <3>15 DEF Taken
    <3>17. QED
      BY <1>3, <3>13, <3>16 DEF rv, g
  <2>10. QED
    BY <2>8, <2>9
<1>14. QED
  BY <1>12, <1>13

(* The packet that is expected is given, and those that follow it.          *)
LEMMA PairTakes ==
  ASSUME NEW D \in Seq(Packets), NEW B \in Seq(Packets), NEW rv \in RecvRecords,
         NEW g \in Seq(Datum), NEW x \in XmitRecords, NEW f \in Nat, NEW ep \in Nat,
         Pair(D, B, rv, g, x, f, ep), rv.state = "IDLE", DataRight(D, ep),
         D # <<>>, Head(D).type = "DATA", Head(D).data.n = Len(g) + 1,
         NEW c, Taken(rv, g, c, ep)
  PROVE  Pair(Tail(D), B, c.r, c.got, x, f, ep)
<1> DEFINE p == Head(D)
           L == Len(g)
           M == Len(c.got)
           rv2 == c.r
           g2 == c.got
           n(k) == rv.held[k].data.n
<1>1. Placed(p, rv, g, x, ep)
  BY DataPlaced
<1>2. HeldRight(rv, g, x, ep) /\ FlightRight(D, rv, g, x, ep) /\ WindowRight(D, B, rv, g, x, f, ep)
      /\ ResetsRight(D, B, rv) /\ Silent(B, rv) /\ EpochsRight(D, rv, ep)
  BY DEF Pair
<1>3. /\ rv2 \in RecvRecords /\ g2 \in Seq(Datum) /\ rv2.state = "IDLE" /\ M \in Nat /\ rv2.next = Number(M)
      /\ DeliveredRight(rv2, g2, ep)
  BY DEF Taken, GivenUpTo, Deliveries
<1>4. L \in Nat /\ Pnbufs \in Nat /\ x.n \in Nat
  BY LenProperties, Sizes, XmitFields
<1>5. \/ /\ M = L + 1
         /\ \A k \in HeldSlots : rv2.held[k] = rv.held[k]
         /\ \A k \in HeldSlots : rv.held[k].full => n(k) # L + 2
      \/ /\ M > L
         /\ \A k \in HeldSlots : ~rv2.held[k].full
         /\ \A k \in HeldSlots : rv.held[k].full => n(k) <= M
         /\ \E k \in HeldSlots : rv.held[k].full /\ n(k) = M
  BY DEF Taken
<1>6. \A k \in HeldSlots : rv.held[k].full =>
        /\ n(k) \in Nat /\ L + 2 <= n(k) /\ n(k) <= L + Pnbufs /\ (x.state # "RESET" => n(k) <= x.n)
        /\ rv.held[k].data.ep = ep
  BY <1>2, HeldFields DEF HeldRight, HeldSlot
<1>7. p \in Elems(D) /\ Current(p, ep) /\ p.data.n = L + 1 /\ (x.state # "RESET" => L + 1 <= x.n)
  BY <1>1, TailParts DEF Placed, Current
<1>8. /\ Elems(D) = Elems(Tail(D)) \cup {p}
      /\ \A q \in Elems(Tail(D)) : Before(D, p, q)
      /\ \A q, q2 : Before(Tail(D), q, q2) => Before(D, q, q2)
  BY TailParts
<1>9. Had(rv2, g2) = M /\ Had(rv, g) = L /\ Linked(D, rv)
  BY <1>3 DEF Had, Linked
<1>10. \A k \in HeldSlots : rv2.held[k].full => rv.held[k].full /\ rv2.held[k] = rv.held[k] /\ M = L + 1 /\ n(k) # L + 2
  BY <1>5
<1>11. M > L
  <2> HIDE DEF M, L, n
  <2> QED
    BY <1>4, <1>5
<1>12. ~Reset(B, "XMT_RESET") /\ ~Reset(Tail(D), "ACK_RESET")
  BY <1>2, <1>8 DEF ResetsRight, Reset
<1>13. \A k \in HeldSlots : n(k) = rv.held[k].data.n
  OBVIOUS
<1>30. M = Len(g2) /\ L = Len(g)
  OBVIOUS
<1> HIDE DEF p, L, M, rv2, g2, n
<1>14. ResetsRight(Tail(D), B, rv2)
  BY <1>2, <1>8, <1>12 DEF ResetsRight, Reset
<1>15. Silent(B, rv2)
  BY <1>2, <1>3, <1>12 DEF Silent, Reset
<1>16. EpochsRight(Tail(D), rv2, ep)
  BY <1>2, <1>8, <1>12 DEF EpochsRight, Reset
<1>17. x.state # "RESET" => M <= x.n
  <2>1. CASE M = L + 1
    BY <1>7, <2>1
  <2>2. CASE \E k \in HeldSlots : rv.held[k].full /\ n(k) = M
    BY <1>6, <2>2
  <2>3. QED
    BY <1>5, <2>1, <2>2
<1>18. ASSUME NEW m \in Nat, Has(rv, g, ep, m) PROVE Has(rv2, g2, ep, m)
  <2>1. CASE m <= L
    <3>1. m <= M
      BY <1>3, <1>4, <1>11, <2>1
    <3>2. QED
      BY <1>30, <3>1 DEF Has
  <2>2. ASSUME NEW k \in HeldSlots, rv.held[k].full, rv.held[k].data = [ep |-> ep, n |-> m]
        PROVE  Has(rv2, g2, ep, m)
    <3>1. n(k) = m
      BY <1>13, <2>2
    <3>2. CASE rv2.held[k] = rv.held[k]
      BY <2>2, <3>2 DEF Has
    <3>3. CASE rv2.held[k] # rv.held[k]
      <4>1. m <= M
        BY <1>5, <2>2, <3>1, <3>3
      <4>2. QED
        BY <1>30, <4>1 DEF Has
    <3>4. QED
      BY <3>2, <3>3
  <2>3. QED
    BY <1>18, <1>30, <2>1, <2>2 DEF Has
<1>19. HeldRight(rv2, g2, x, ep)
  <2>1. ASSUME NEW k \in HeldSlots PROVE HeldSlot(rv2, g2, x, ep, k)
    <3>1. SUFFICES ASSUME rv2.held[k].full PROVE HeldSlot(rv2, g2, x, ep, k)
      BY DEF HeldSlot
    <3>2. rv.held[k].full /\ rv2.held[k] = rv.held[k] /\ M = L + 1 /\ n(k) # L + 2
      BY <1>10, <3>1
    <3>3. n(k) \in Nat /\ L + 2 <= n(k) /\ n(k) <= L + Pnbufs
      BY <1>6, <3>2
    <3> DEFINE i == n(k)
    <3> HIDE DEF i
    <3>4. i \in Nat /\ L + 2 <= i /\ i <= L + Pnbufs /\ i # L + 2
      BY <3>2, <3>3 DEF i
    <3>5. M + 2 <= i /\ i <= M + Pnbufs
      BY <1>4, <3>2, <3>4
    <3>6. rv2.held[k].data.n = i
      BY <1>13, <3>2 DEF i
    <3>7. HeldSlot(rv, g, x, ep, k)
      BY <1>2 DEF HeldRight
    <3>8. QED
      BY <1>30, <3>2, <3>5, <3>6, <3>7 DEF HeldSlot
  <2>2. ASSUME NEW j \in HeldSlots, NEW k \in HeldSlots, rv2.held[k].full, j < k
        PROVE  rv2.held[j].full /\ rv2.held[j].data.n # rv2.held[k].data.n
    <3>1. \A i \in HeldSlots : rv2.held[i] = rv.held[i]
      BY <1>5, <2>2
    <3>2. rv.held[j].full /\ rv.held[j].data.n # rv.held[k].data.n
      BY <1>2, <2>2, <3>1 DEF HeldRight
    <3>3. QED
      BY <3>1, <3>2
  <2>3. QED
    BY <1>3, <1>30, <2>1, <2>2 DEF HeldRight
<1>20. FlightRight(Tail(D), rv2, g2, x, ep)
  <2>1. ASSUME NEW q \in Elems(Tail(D)), Current(q, ep) PROVE Flies(q, rv2, g2, x)
    <3> DEFINE j == q.data.n
    <3>1. Flies(q, rv, g, x) /\ q \in Elems(D)
      BY <1>2, <1>8, <1>9, <2>1 DEF FlightRight
    <3>2. j \in Nat
      BY <3>1, ElemsPackets
    <3>3. L + 1 < j + Pnbufs
      BY <1>2, <1>7, <1>8, <1>9, <2>1, <3>1 DEF FlightRight
    <3>4. \A k \in HeldSlots : rv.held[k].full => n(k) < j + Pnbufs
      BY <1>13, <3>1 DEF Flies
    <3>5. j <= L + Pnbufs /\ (x.state # "RESET" => j <= x.n)
      BY <1>9, <3>1 DEF Flies
    <3>6. \A k \in HeldSlots : rv2.held[k].full => rv2.held[k].data.n < j + Pnbufs
      BY <1>10, <1>13, <3>4
    <3> HIDE DEF j
    <3>7. M < j + Pnbufs
      <4>1. CASE M = L + 1
        BY <3>3, <4>1
      <4>2. CASE \E k \in HeldSlots : rv.held[k].full /\ n(k) = M
        BY <3>4, <4>2
      <4>3. QED
        BY <1>5, <4>1, <4>2
    <3>8. j <= M + Pnbufs
      BY <1>3, <1>4, <1>11, <3>2, <3>5
    <3>9. QED
      BY <1>9, <3>5, <3>6, <3>7, <3>8 DEF Flies, j
  <2>2. QED
    BY <1>2, <1>8, <1>9, <2>1 DEF FlightRight
<1>21. WindowRight(Tail(D), B, rv2, g2, x, f, ep)
  <2>1. SUFFICES ASSUME x.state # "RESET" PROVE WindowRight(Tail(D), B, rv2, g2, x, f, ep)
    BY DEF WindowRight
  <2>2. /\ f <= L /\ L <= x.n /\ MarksRight(rv, g, x, ep)
        /\ \A q \in Elems(B) : IsAck(q) => AckRight(q, rv, g, f)
        /\ \A q \in Elems(B) : q.type = "NAK" => NakRight(q, rv, g, x, f, ep)
        /\ \A q, q2 \in Elems(B) : Before(B, q, q2) =>
             /\ IsAck(q) /\ IsAck(q2) => q.data.n <= q2.data.n
             /\ IsAck(q) /\ q2.type = "NAK" => q.data.n < q2.data.n
    BY <1>2, <1>9, <2>1 DEF WindowRight
  <2>3. MarksRight(rv2, g2, x, ep)
    <3>1. \A k \in Slots : x.slot[k].data.n \in Nat
      <4>1. \A k \in Slots : x.slot[k].data \in Datum
        BY XmitFields
      <4>2. QED
        BY <4>1 DEF Datum
    <3>2. QED
      BY <1>3, <1>18, <2>2, <3>1 DEF MarksRight
  <2>4. f <= M
    BY <1>3, <1>4, <1>11, <2>2
  <2>5. ASSUME NEW q \in Elems(B), IsAck(q) PROVE AckRight(q, rv2, g2, f)
    <3> DEFINE j == q.data.n
    <3>1. AckRight(q, rv, g, f) /\ j \in Nat /\ j <= L
      BY <1>9, <2>2, <2>5, ElemsPackets DEF AckRight
    <3> HIDE DEF j
    <3>2. j <= M
      BY <1>3, <1>4, <1>11, <3>1
    <3>3. QED
      BY <1>9, <3>1, <3>2 DEF AckRight, j
  <2>6. ASSUME NEW q \in Elems(B), q.type = "NAK" PROVE NakRight(q, rv2, g2, x, f, ep)
    <3>1. NakRight(q, rv, g, x, f, ep) /\ q.data.n \in Nat
      BY <2>2, <2>6, ElemsPackets
    <3>2. QED
      BY <1>3, <1>18, <3>1 DEF NakRight
  <2>7. QED
    BY <1>9, <1>17, <2>1, <2>2, <2>3, <2>4, <2>5, <2>6 DEF WindowRight
<1>22. QED
  BY <1>3, <1>14, <1>15, <1>16, <1>19, <1>20, <1>21 DEF Pair, rv2, g2

-----------------------------------------------------------------------------
(* What is in front of what when two queues are joined.                     *)
LEMMA ConcatBefore ==
  ASSUME NEW S, NEW s \in Seq(S), NEW t \in Seq(S), NEW p, NEW q,
         Before(s, p, q) \/ Before(t, p, q) \/ (p \in Elems(s) /\ q \in Elems(t))
  PROVE  Before(s \o t, p, q)
<1> DEFINE u == s \o t
<1>1. /\ Len(s) \in Nat /\ Len(t) \in Nat /\ Len(u) = Len(s) + Len(t)
      /\ \A i \in 1 .. Len(s) + Len(t) : u[i] = IF i <= Len(s) THEN s[i] ELSE t[i - Len(s)]
  BY ConcatProperties
<1> HIDE DEF u
<1>2. ASSUME NEW i \in 1 .. Len(s) PROVE i \in 1 .. Len(u) /\ u[i] = s[i]
  BY <1>1
<1>3. ASSUME NEW i \in 1 .. Len(t) PROVE i + Len(s) \in 1 .. Len(u) /\ u[i + Len(s)] = t[i]
  <2>1. i + Len(s) \in 1 .. Len(s) + Len(t) /\ ~(i + Len(s) <= Len(s)) /\ (i + Len(s)) - Len(s) = i
    BY <1>1
  <2>2. QED
    BY <1>1, <2>1
<1>4. CASE Before(s, p, q)
  <2>1. PICK i, j \in 1 .. Len(s) : i < j /\ s[i] = p /\ s[j] = q
    BY <1>4 DEF Before
  <2>2. Before(u, p, q)
    BY <1>2, <2>1 DEF Before
  <2>3. QED
    BY <2>2 DEF u
<1>5. CASE Before(t, p, q)
  <2>1. PICK i, j \in 1 .. Len(t) : i < j /\ t[i] = p /\ t[j] = q
    BY <1>5 DEF Before
  <2>2. i + Len(s) < j + Len(s)
    BY <1>1, <2>1
  <2>3. Before(u, p, q)
    BY <1>3, <2>1, <2>2 DEF Before
  <2>4. QED
    BY <2>3 DEF u
<1>6. CASE p \in Elems(s) /\ q \in Elems(t)
  <2>1. PICK i \in 1 .. Len(s) : s[i] = p
    BY <1>6 DEF Elems
  <2>2. PICK j \in 1 .. Len(t) : t[j] = q
    BY <1>6 DEF Elems
  <2>3. i < j + Len(s)
    BY <1>1, <2>1, <2>2
  <2>4. Before(u, p, q)
    BY <1>2, <1>3, <2>1, <2>2, <2>3 DEF Before
  <2>5. QED
    BY <2>4 DEF u
<1>7. QED
  BY <1>4, <1>5, <1>6

(* A queue s without its packet i.                                          *)
LEMMA RemoveIs ==
  ASSUME NEW S, NEW s \in Seq(S), NEW i \in 1 .. Len(s)
  PROVE  /\ RemoveAt(s, i) \in Seq(S)
         /\ \A p \in Elems(RemoveAt(s, i)) : p \in Elems(s)
         /\ \A p, q : Before(RemoveAt(s, i), p, q) => Before(s, p, q)
<1> DEFINE u == SubSeq(s, 1, i - 1)
           v == SubSeq(s, i + 1, Len(s))
<1>1. Len(s) \in Nat /\ i \in Nat /\ 1 <= i /\ i <= Len(s) /\ \A k \in 1 .. Len(s) : s[k] \in S
  BY LenProperties
<1>2. /\ u \in Seq(S) /\ Len(u) = i - 1
      /\ \A k \in 1 .. i - 1 : u[k] = s[k]
  <2>1. 1 \in Int /\ i - 1 \in Int /\ \A k \in 1 .. i - 1 : s[k] \in S
    BY <1>1
  <2>2. /\ u \in Seq(S) /\ Len(u) = IF 1 <= i - 1 THEN (i - 1) - 1 + 1 ELSE 0
        /\ \A k \in 1 .. (i - 1) - 1 + 1 : u[k] = s[1 + k - 1]
    BY <2>1, SubSeqProperties
  <2> HIDE DEF u
  <2>3. \A k \in 1 .. i - 1 : k \in 1 .. (i - 1) - 1 + 1 /\ 1 + k - 1 = k
    BY <1>1
  <2>4. \A k \in 1 .. i - 1 : u[k] = s[k]
    BY <2>2, <2>3
  <2>5. Len(u) = i - 1
    BY <1>1, <2>2
  <2>6. QED
    BY <2>2, <2>4, <2>5
<1>3. /\ v \in Seq(S) /\ Len(v) = Len(s) - i
      /\ \A k \in 1 .. Len(s) - i : v[k] = s[k + i]
  <2>1. i + 1 \in Int /\ Len(s) \in Int /\ \A k \in i + 1 .. Len(s) : s[k] \in S
    BY <1>1
  <2>2. /\ v \in Seq(S) /\ Len(v) = IF i + 1 <= Len(s) THEN Len(s) - (i + 1) + 1 ELSE 0
        /\ \A k \in 1 .. Len(s) - (i + 1) + 1 : v[k] = s[(i + 1) + k - 1]
    BY <2>1, SubSeqProperties
  <2> HIDE DEF v
  <2>3. \A k \in 1 .. Len(s) - i : k \in 1 .. Len(s) - (i + 1) + 1 /\ (i + 1) + k - 1 = k + i
    BY <1>1
  <2>4. \A k \in 1 .. Len(s) - i : v[k] = s[k + i]
    BY <2>2, <2>3
  <2>5. Len(v) = Len(s) - i
    BY <1>1, <2>2
  <2>6. QED
    BY <2>2, <2>4, <2>5
<1>4. RemoveAt(s, i) = u \o v
  BY DEF RemoveAt
<1> HIDE DEF u, v
<1>5. ASSUME NEW k \in 1 .. Len(u) PROVE k \in 1 .. Len(s) /\ k < i /\ u[k] = s[k]
  BY <1>1, <1>2
<1>6. ASSUME NEW k \in 1 .. Len(v) PROVE k + i \in 1 .. Len(s) /\ i < k + i /\ v[k] = s[k + i]
  BY <1>1, <1>3
<1>7. ASSUME NEW p \in Elems(u) PROVE p \in Elems(s)
  BY <1>5 DEF Elems
<1>8. ASSUME NEW p \in Elems(v) PROVE p \in Elems(s)
  BY <1>6 DEF Elems
<1>9. ASSUME NEW p, NEW q, Before(u, p, q) PROVE Before(s, p, q)
  <2>1. PICK j, k \in 1 .. Len(u) : j < k /\ u[j] = p /\ u[k] = q
    BY <1>9 DEF Before
  <2>2. QED
    BY <1>5, <2>1 DEF Before
<1>10. ASSUME NEW p, NEW q, Before(v, p, q) PROVE Before(s, p, q)
  <2>1. PICK j, k \in 1 .. Len(v) : j < k /\ v[j] = p /\ v[k] = q
    BY <1>10 DEF Before
  <2>2. j + i < k + i
    BY <1>1, <1>3, <2>1
  <2>3. QED
    BY <1>6, <2>1, <2>2 DEF Before
<1>11. ASSUME NEW p \in Elems(u), NEW q \in Elems(v) PROVE Before(s, p, q)
  <2>1. PICK j \in 1 .. Len(u) : u[j] = p
    BY DEF Elems
  <2>2. PICK k \in 1 .. Len(v) : v[k] = q
    BY DEF Elems
  <2>3. j < k + i
    BY <1>1, <1>2, <1>3, <1>5, <1>6, <2>1, <2>2
  <2>4. QED
    BY <1>5, <1>6, <2>1, <2>2, <2>3 DEF Before
<1>12. /\ u \o v \in Seq(S) /\ Elems(u \o v) = Elems(u) \cup Elems(v)
       /\ \A p, q : Before(u \o v, p, q) =>
            Before(u, p, q) \/ Before(v, p, q) \/ (p \in Elems(u) /\ q \in Elems(v))
  BY <1>2, <1>3, ConcatParts
<1>13. QED
  BY <1>4, <1>7, <1>8, <1>9, <1>10, <1>11, <1>12

(* qPkt: the packet is the last one, and the others keep their order.       *)
LEMMA QPktIs ==
  ASSUME NEW S, NEW s \in Seq(S), NEW pkt \in S
  PROVE  /\ qPkt(s, pkt) \in Seq(S)
         /\ \A p \in Elems(qPkt(s, pkt)) : p \in Elems(s) \/ p = pkt
         /\ \A p, q : Before(qPkt(s, pkt), p, q) => Before(s, p, q) \/ (p \in Elems(s) /\ q = pkt)
<1> DEFINE same == {i \in 1 .. Len(s) : s[i].buf = pkt.buf}
<1>1. ASSUME NEW v \in Seq(S), \A p \in Elems(v) : p \in Elems(s),
             \A p, q : Before(v, p, q) => Before(s, p, q)
      PROVE  /\ Append(v, pkt) \in Seq(S)
             /\ \A p \in Elems(Append(v, pkt)) : p \in Elems(s) \/ p = pkt
             /\ \A p, q : Before(Append(v, pkt), p, q) => Before(s, p, q) \/ (p \in Elems(s) /\ q = pkt)
  <2>1. Append(v, pkt) = v \o <<pkt>> /\ <<pkt>> \in Seq(S)
    BY AppendIsConcat
  <2>2. Elems(<<pkt>>) = {pkt} /\ \A p, q : ~Before(<<pkt>>, p, q)
    BY ShortParts
  <2>3. /\ v \o <<pkt>> \in Seq(S) /\ Elems(v \o <<pkt>>) = Elems(v) \cup Elems(<<pkt>>)
        /\ \A p, q : Before(v \o <<pkt>>, p, q) =>
             Before(v, p, q) \/ Before(<<pkt>>, p, q) \/ (p \in Elems(v) /\ q \in Elems(<<pkt>>))
    BY <2>1, ConcatParts
  <2>4. QED
    BY <1>1, <2>1, <2>2, <2>3
<1>2. CASE same = {}
  <2>1. qPkt(s, pkt) = Append(s, pkt)
    BY <1>2 DEF qPkt
  <2>2. QED
    BY <1>1, <2>1
<1>3. CASE same # {}
  <2>1. same \in SUBSET Nat
    OBVIOUS
  <2> DEFINE m == Min(same)
  <2>2. m \in same
    <3> HIDE DEF same
    <3> QED
      BY <1>3, <2>1, MinIsLeast
  <2>3. m \in 1 .. Len(s)
    BY <2>2
  <2>4. qPkt(s, pkt) = Append(RemoveAt(s, m), pkt)
    BY <1>3 DEF qPkt
  <2> HIDE DEF m
  <2>5. /\ RemoveAt(s, m) \in Seq(S)
        /\ \A p \in Elems(RemoveAt(s, m)) : p \in Elems(s)
        /\ \A p, q : Before(RemoveAt(s, m), p, q) => Before(s, p, q)
    BY <2>3, RemoveIs
  <2>6. QED
    BY <1>1, <2>4, <2>5
<1>4. QED
  BY <1>2, <1>3

(* The packets of out are queued one after the other.                       *)
QueueWalk(w, s, out, S) ==
  /\ w \in [0 .. Len(out) -> Seq(S)] /\ w[0] = s
  /\ \A k \in 1 .. Len(out) : w[k] = qPkt(w[k - 1], out[k])
  /\ qPkts(s, out) = w[Len(out)]

LEMMA QueueWalkIs ==
  ASSUME NEW S, NEW s \in Seq(S), NEW out \in Seq(S)
  PROVE  \E w : QueueWalk(w, s, out, S)
<1> DEFINE N == Len(out)
           z == s
           Step(v, k) == qPkt(v, out[k])
           T == Seq(S)
           F == [p \in T \X (1 .. N) |-> Step(p[1], p[2])]
           Is(w) == w = [k \in 0 .. N |-> IF k = 0 THEN z ELSE Step(w[k - 1], k)]
           made == CHOOSE w : Is(w)
<1>1. N \in Nat
  BY LenProperties
<1>2. z \in T /\ \A v \in T, k \in 1 .. N : Step(v, k) \in T
  <2>1. \A k \in 1 .. N : out[k] \in S
    BY LenProperties
  <2>2. QED
    BY <2>1, QPktIs
<1> HIDE DEF T
<1>3. F \in [T \X (1 .. N) -> T] /\ \A v \in T, k \in 1 .. N : F[<<v, k>>] = Step(v, k)
  <2> HIDE DEF Step, N, z
  <2> QED
    BY <1>2
<1>4. \E w : IsWalk(w, N, T, z, F)
  <2> HIDE DEF F, N, z
  <2> QED
    BY <1>1, <1>2, <1>3, WalkExists
<1>5. PICK w : IsWalk(w, N, T, z, F)
  BY <1>4
<1>9. qPkts(s, out) = made[N]
  BY DEF qPkts, Step, z
<1> HIDE DEF F, Step, z
<1>6. ASSUME NEW k \in 1 .. N PROVE w[k] = Step(w[k - 1], k)
  <2>1. w[k - 1] \in T /\ w[k] = F[<<w[k - 1], k>>]
    BY <1>1, <1>5 DEF IsWalk
  <2>2. QED
    BY <1>3, <2>1
<1>7. Is(w)
  <2>1. w = [k \in 0 .. N |-> w[k]] /\ w[0] = z
    BY <1>5 DEF IsWalk
  <2>2. ASSUME NEW k \in 0 .. N PROVE w[k] = IF k = 0 THEN z ELSE Step(w[k - 1], k)
    <3>1. k # 0 => k \in 1 .. N
      BY <1>1
    <3>2. QED
      BY <1>6, <2>1, <3>1
  <2>3. QED
    BY <2>1, <2>2
<1>8. Is(made)
  <2> HIDE DEF Is
  <2> QED
    BY <1>7
<1> HIDE DEF made
<1>10. \A k \in 0 .. N : made[k] = IF k = 0 THEN z ELSE Step(made[k - 1], k)
  <2>1. made = [k \in 0 .. N |-> IF k = 0 THEN z ELSE Step(made[k - 1], k)]
    BY <1>8
  <2>2. QED
    BY <2>1, Zenon
<1> DEFINE D == {k \in 0 .. N : made[k] \in T}
<1>11. 0 .. N \subseteq D
  <2>1. 0 \in D
    BY <1>1, <1>2, <1>10
  <2>2. ASSUME NEW k \in 1 .. N, k - 1 \in D PROVE k \in D
    <3>1. k \in 0 .. N /\ k # 0 /\ made[k - 1] \in T
      BY <2>2
    <3>2. made[k] = Step(made[k - 1], k) /\ Step(made[k - 1], k) \in T
      BY <1>2, <1>10, <3>1
    <3>3. QED
      BY <3>1, <3>2
  <2> HIDE DEF D, N
  <2>3. QED
    BY <1>1, <2>1, <2>2, BoundedInduction
<1>12. made \in [0 .. N -> T]
  <2>1. made = [k \in 0 .. N |-> IF k = 0 THEN z ELSE Step(made[k - 1], k)]
    BY <1>8
  <2>2. \A k \in 0 .. N : made[k] \in T
    BY <1>11
  <2>3. made = [k \in 0 .. N |-> made[k]]
    BY <1>10, <2>1
  <2>4. QED
    BY <2>2, <2>3
<1>13. QueueWalk(made, s, out, S)
  <2>1. made[0] = z /\ \A k \in 1 .. N : made[k] = Step(made[k - 1], k)
    BY <1>1, <1>10
  <2>2. QED
    BY <1>9, <1>12, <2>1 DEF QueueWalk, Step, z, T
<1>14. QED
  BY <1>13

LEMMA QPktsGrows ==
  ASSUME NEW s \in Seq(DataPackets), NEW out \in Seq(DataPackets)
  PROVE  qPkts(s, out) \in Seq(DataPackets) /\ \A T : Grows(qPkts(s, out), s, T, out)
<1>1. PICK w : QueueWalk(w, s, out, DataPackets)
  BY QueueWalkIs
<1> DEFINE N == Len(out)
           Sent1(p, k) == \E i \in 1 .. k : out[i] = p
           Sent2(p, q, k) == \E i, j \in 1 .. k : i < j /\ out[i] = p /\ out[j] = q
           Right(v, k) ==
             /\ \A p \in Elems(v) : p \in Elems(s) \/ Sent1(p, k)
             /\ \A p, q : Before(v, p, q) =>
                  Before(s, p, q) \/ Sent2(p, q, k) \/ (p \in Elems(s) /\ Sent1(q, k))
           S == {k \in 0 .. N : Right(w[k], k)}
<1>2. N \in Nat /\ \A k \in 1 .. N : out[k] \in DataPackets
  BY LenProperties
<1>3. /\ w \in [0 .. N -> Seq(DataPackets)] /\ w[0] = s
      /\ \A k \in 1 .. N : w[k] = qPkt(w[k - 1], out[k])
      /\ qPkts(s, out) = w[N]
  BY <1>1 DEF QueueWalk
<1>4. 0 \in S
  <2>1. Right(s, 0)
    OBVIOUS
  <2> HIDE DEF Right
  <2>2. QED
    BY <1>2, <1>3, <2>1
<1>5. ASSUME NEW k \in 1 .. N, k - 1 \in S PROVE k \in S
  <2> DEFINE v == w[k - 1]
             c == out[k]
  <2>1. /\ v \in Seq(DataPackets) /\ c \in DataPackets /\ w[k] = qPkt(v, c)
        /\ k \in 0 .. N /\ k - 1 \in 0 .. N
    <3>1. k \in 0 .. N /\ k - 1 \in 0 .. N
      <4> HIDE DEF N
      <4> QED
        BY <1>2
    <3>2. w[k - 1] \in Seq(DataPackets)
      BY <1>3, <3>1
    <3>3. QED
      BY <1>2, <1>3, <3>1, <3>2
  <2>2. Right(v, k - 1)
    BY <1>5
  <2>3. /\ \A p : Sent1(p, k - 1) => Sent1(p, k)
        /\ \A p, q : Sent2(p, q, k - 1) => Sent2(p, q, k)
        /\ \A p : Sent1(p, k - 1) => Sent2(p, c, k)
        /\ Sent1(c, k)
    <3>1. k \in 1 .. k /\ \A i \in 1 .. k - 1 : i \in 1 .. k /\ i < k
      BY <1>2
    <3>2. QED
      BY <3>1
  <2> HIDE DEF v, c
  <2>4. /\ \A p \in Elems(w[k]) : p \in Elems(v) \/ p = c
        /\ \A p, q : Before(w[k], p, q) => Before(v, p, q) \/ (p \in Elems(v) /\ q = c)
    BY <2>1, QPktIs
  <2> HIDE DEF Sent1, Sent2
  <2>5. Right(w[k], k)
    BY <2>2, <2>3, <2>4
  <2>6. QED
    BY <2>1, <2>5
<1>6. 0 .. N \subseteq S
  <2> HIDE DEF S, N
  <2> QED
    BY <1>2, <1>4, <1>5, BoundedInduction
<1>7. Right(w[N], N)
  BY <1>2, <1>6
<1>8. /\ \A p : Sent1(p, N) => p \in Elems(out)
      /\ \A p, q : Sent2(p, q, N) => Before(out, p, q)
  BY DEF Elems, Before
<1>9. qPkts(s, out) \in Seq(DataPackets)
  BY <1>2, <1>3
<1> HIDE DEF Sent1, Sent2
<1>10. QED
  BY <1>3, <1>7, <1>8, <1>9 DEF Grows

-----------------------------------------------------------------------------
(* The steps of end e.  Its transmitter becomes x2, having freed f2 packets *)
(* in epoch ep2, its receiver rv2, having given g2; a packet may be taken   *)
(* from what is on its way to e, or all that is on the circuit is lost, and *)
(* out is sent: control packets before the data that are still queued, data *)
(* behind them.                                                             *)
Moved(s2, s, out) ==
  /\ Grows(s2, s, BTypes, out) /\ Grows(s2, s, {"DATA"}, out)
  /\ \A p \in Elems(out) : p.type # "DATA" => p \in Elems(s2)
  /\ \A rv : Silent(s, rv) /\ (\A p \in Elems(out) : ~IsReply(p)) => KeepsReset(s2, s)

LEMMA MovedKeeps ==
  ASSUME NEW B, NEW out, NEW B2, Moved(B2, B, out), NEW rv, Silent(B, rv),
         \A p \in Elems(out) : p.type \notin BTypes
  PROVE  KeepsReset(B2, B)
<1>1. \A p \in Elems(out) : ~IsReply(p)
  BY DEF IsReply, BTypes
<1>2. QED
  BY <1>1 DEF Moved

LEMMA MovedSame ==
  ASSUME NEW s
  PROVE  Moved(s, s, <<>>) /\ Shrinks(s, s, DTypes)
<1>1. Elems(<<>>) = {}
  BY ShortParts
<1>2. QED
  BY <1>1 DEF Moved, Grows, Shrinks, KeepsReset

LEMMA MovedTail ==
  ASSUME NEW s \in Seq(Packets), s # <<>>
  PROVE  Moved(Tail(s), s, <<>>) /\ Shrinks(Tail(s), s, DTypes)
<1>1. Elems(<<>>) = {}
  BY ShortParts
<1>2. /\ Elems(s) = Elems(Tail(s)) \cup {Head(s)}
      /\ \A p, q : Before(Tail(s), p, q) => Before(s, p, q)
  BY TailParts
<1>3. \A rv : Silent(s, rv) => KeepsReset(Tail(s), s)
  BY TailKeeps
<1>4. QED
  BY <1>1, <1>2, <1>3 DEF Moved, Grows, Shrinks

(* All that was on the circuit is lost.                                     *)
LEMMA MovedLost ==
  ASSUME NEW w \in Seq(Packets), NEW q \in Seq(DataPackets)
  PROVE  Moved(q, w \o q, <<>>) /\ Shrinks(q, w \o q, DTypes)
<1>1. Elems(<<>>) = {} /\ q \in Seq(Packets) /\ \A p \in Elems(q) : p.type = "DATA"
  BY ShortParts, DataQueue
<1>2. Elems(w \o q) = Elems(w) \cup Elems(q)
  BY <1>1, ConcatParts
<1>3. \A p, r : Before(q, p, r) => Before(w \o q, p, r)
  BY <1>1, ConcatBefore
<1>4. KeepsReset(q, w \o q)
  BY <1>1 DEF KeepsReset, IsReply
<1>5. QED
  BY <1>1, <1>2, <1>3, <1>4 DEF Moved, Grows, Shrinks

(* Control packets c go in front of the data q that are queued.             *)
LEMMA MovedControl ==
  ASSUME NEW w \in Seq(Packets), NEW c \in Seq(Packets), NEW q \in Seq(DataPackets),
         NEW q2 \in {q, <<>>}, \A p \in Elems(c) : p.type # "DATA"
  PROVE  /\ Moved((w \o c) \o q2, w \o q, c)
         /\ q2 = <<>> \/ (\A p \in Elems(c) : p.type \notin DTypes) =>
              Grows((w \o c) \o q2, w \o q, DTypes, c)
<1> DEFINE s == w \o q
           u == w \o c
           s2 == u \o q2
<1>1. /\ Elems(<<>>) = {} /\ (\A p, r : ~Before(<<>>, p, r)) /\ q \in Seq(Packets)
      /\ q2 \in Seq(Packets) /\ \A p \in Elems(q) : p.type = "DATA"
  <2>1. q \in Seq(Packets) /\ <<>> \in Seq(Packets) /\ \A p \in Elems(q) : p.type = "DATA"
    BY DataQueue
  <2>2. q2 = q \/ q2 = <<>>
    OBVIOUS
  <2>3. QED
    BY <2>1, <2>2, ShortParts
<1>2. /\ \A p \in Elems(q2) : p \in Elems(q)
      /\ \A p, r : Before(q2, p, r) => Before(q, p, r)
      /\ q2 = <<>> => Elems(q2) = {}
  BY <1>1
<1>3. /\ u \in Seq(Packets) /\ Elems(u) = Elems(w) \cup Elems(c)
      /\ \A p, r : Before(u, p, r) => Before(w, p, r) \/ Before(c, p, r) \/ (p \in Elems(w) /\ r \in Elems(c))
  BY ConcatParts
<1>4. Elems(s) = Elems(w) \cup Elems(q)
  BY <1>1, ConcatParts
<1>5. \A p, r : Before(w, p, r) \/ Before(q, p, r) \/ (p \in Elems(w) /\ r \in Elems(q)) => Before(s, p, r)
  BY <1>1, ConcatBefore
<1> HIDE DEF u, s
<1>6. /\ Elems(s2) = Elems(u) \cup Elems(q2)
      /\ \A p, r : Before(s2, p, r) => Before(u, p, r) \/ Before(q2, p, r) \/ (p \in Elems(u) /\ r \in Elems(q2))
  BY <1>1, <1>3, ConcatParts
<1> HIDE DEF s2
<1>7. ASSUME NEW T, q2 = <<>> \/ (\A p \in Elems(c) : p.type \notin T) \/ "DATA" \notin T
      PROVE  Grows(s2, s, T, c)
  <2>1. \A p \in Elems(s2) : p \in Elems(s) \/ p \in Elems(c)
    BY <1>2, <1>3, <1>4, <1>6
  <2>2. ASSUME NEW p \in Elems(s2), NEW r \in Elems(s2), p.type \in T, r.type \in T, Before(s2, p, r)
        PROVE  Before(s, p, r) \/ Before(c, p, r) \/ (p \in Elems(s) /\ r \in Elems(c))
    <3>1. CASE Before(u, p, r)
      BY <1>3, <1>4, <1>5, <3>1
    <3>2. CASE Before(q2, p, r)
      BY <1>2, <1>5, <3>2
    <3>3. CASE p \in Elems(u) /\ r \in Elems(q2)
      <4>1. r \in Elems(q) /\ r.type = "DATA" /\ q2 # <<>>
        BY <1>1, <1>2, <3>3
      <4>2. p \notin Elems(c)
        BY <1>7, <2>2, <4>1
      <4>3. QED
        BY <1>3, <1>5, <3>3, <4>1, <4>2
    <3>4. QED
      BY <1>6, <2>2, <3>1, <3>2, <3>3
  <2>3. QED
    BY <2>1, <2>2 DEF Grows
<1>8. Grows(s2, s, BTypes, c) /\ Grows(s2, s, {"DATA"}, c)
  <2>1. "DATA" \notin BTypes /\ \A p \in Elems(c) : p.type \notin {"DATA"}
    BY DEF BTypes
  <2>2. QED
    BY <1>7, <2>1
<1>9. KeepsReset(s2, s)
  <2>1. \A p \in Elems(s) : p.type # "DATA" => p \in Elems(s2)
    BY <1>1, <1>3, <1>4, <1>6
  <2>2. QED
    BY <2>1 DEF KeepsReset, Reset
<1>10. \A p \in Elems(c) : p \in Elems(s2)
  BY <1>3, <1>6
<1>11. q2 = <<>> \/ (\A p \in Elems(c) : p.type \notin DTypes) => Grows(s2, s, DTypes, c)
  BY <1>7
<1>12. Moved(s2, s, c)
  BY <1>8, <1>9, <1>10 DEF Moved
<1>13. QED
  BY <1>11, <1>12 DEF s2, s, u

(* Data go behind those that are queued.                                    *)
LEMMA MovedData ==
  ASSUME NEW w \in Seq(Packets), NEW q \in Seq(DataPackets), NEW out \in Seq(DataPackets)
  PROVE  /\ Moved(w \o qPkts(q, out), w \o q, out)
         /\ Grows(w \o qPkts(q, out), w \o q, DTypes, out)
<1> DEFINE q2 == qPkts(q, out)
           s == w \o q
           s2 == w \o q2
<1>1. q2 \in Seq(DataPackets) /\ \A T : Grows(q2, q, T, out)
  BY QPktsGrows
<1> HIDE DEF q2
<1>2. /\ q \in Seq(Packets) /\ q2 \in Seq(Packets) /\ \A p \in Elems(q) : p.type = "DATA"
      /\ (\A p \in Elems(q2) : p.type = "DATA") /\ (\A p \in Elems(out) : p.type = "DATA")
  BY <1>1, DataQueue
<1>3. Grows(q2, q, {"DATA"}, out)
  BY <1>1
<1>4. /\ \A p \in Elems(q2) : p \in Elems(q) \/ p \in Elems(out)
      /\ \A p, r \in Elems(q2) : Before(q2, p, r) =>
           Before(q, p, r) \/ Before(out, p, r) \/ (p \in Elems(q) /\ r \in Elems(out))
  BY <1>2, <1>3 DEF Grows
<1>5. Elems(s) = Elems(w) \cup Elems(q)
  BY <1>2, ConcatParts
<1>6. \A p, r : Before(w, p, r) \/ Before(q, p, r) \/ (p \in Elems(w) /\ r \in Elems(q)) => Before(s, p, r)
  BY <1>2, ConcatBefore
<1> HIDE DEF s
<1>7. /\ Elems(s2) = Elems(w) \cup Elems(q2)
      /\ \A p, r : Before(s2, p, r) => Before(w, p, r) \/ Before(q2, p, r) \/ (p \in Elems(w) /\ r \in Elems(q2))
  BY <1>2, ConcatParts
<1> HIDE DEF s2
<1>8. \A p, r : Before(q2, p, r) => p \in Elems(q2) /\ r \in Elems(q2)
  BY BeforeElems
<1>9. \A p \in Elems(s2) : p \in Elems(s) \/ p \in Elems(out)
  BY <1>4, <1>5, <1>7
<1>10. ASSUME NEW p, NEW r, Before(s2, p, r)
       PROVE  Before(s, p, r) \/ Before(out, p, r) \/ (p \in Elems(s) /\ r \in Elems(out))
  <2>1. CASE Before(w, p, r)
    BY <1>6, <2>1
  <2>2. CASE Before(q2, p, r)
    BY <1>4, <1>5, <1>6, <1>8, <2>2
  <2>3. CASE p \in Elems(w) /\ r \in Elems(q2)
    BY <1>4, <1>5, <1>6, <2>3
  <2>4. QED
    BY <1>7, <1>10, <2>1, <2>2, <2>3
<1>11. \A T : Grows(s2, s, T, out)
  BY <1>9, <1>10 DEF Grows
<1>12. KeepsReset(s2, s)
  <2>1. \A p \in Elems(s) : p.type # "DATA" => p \in Elems(s2)
    BY <1>2, <1>5, <1>7
  <2>2. QED
    BY <2>1 DEF KeepsReset, Reset
<1>13. Moved(s2, s, out)
  BY <1>2, <1>11, <1>12 DEF Moved
<1>14. QED
  BY <1>11, <1>13 DEF s2, s, q2

(* What a step of e does to the packets that are under way.  A reset whose  *)
(* answer overtakes data counts as crossed.                                 *)
Flows(e, out) ==
  /\ wire' \in [Ends -> Seq(Packets)] /\ pktq' \in [Ends -> Seq(DataPackets)]
  /\ flow' \in [Ends -> Seq(Packets)]
  /\ Moved(flow'[e], flow[e], <<>>) /\ Shrinks(flow'[e], flow[e], DTypes)
  /\ Moved(flow'[Peer(e)], flow[Peer(e)], out)
  /\ Peer(e) \notin crossed' => Grows(flow'[Peer(e)], flow[Peer(e)], DTypes, out)

Steps(e, out, x2, f2, ep2, rv2, g2) ==
  /\ out \in Seq(Packets)
  /\ xmit' \in [Ends -> XmitRecords] /\ xmit'[e] = x2 /\ xmit'[Peer(e)] = xmit[Peer(e)]
  /\ freed' \in [Ends -> Nat] /\ freed'[e] = f2 /\ freed'[Peer(e)] = freed[Peer(e)]
  /\ epoch' \in [Ends -> Nat] /\ epoch'[e] = ep2 /\ epoch'[Peer(e)] = epoch[Peer(e)]
  /\ recv' \in [Ends -> RecvRecords] /\ recv'[e] = rv2 /\ recv'[Peer(e)] = recv[Peer(e)]
  /\ got' \in [Ends -> Seq(Datum)] /\ got'[e] = g2 /\ got'[Peer(e)] = got[Peer(e)]
  /\ Flows(e, out)
  /\ crossed \subseteq crossed' /\ crossed' \subseteq Ends
  /\ losses' \in 0 .. MaxLosses /\ resets' \in 0 .. MaxResets

(* The circuit and the queue of e after a step: w is on its way to e and v  *)
(* to the other end, q is what e has still to write.                        *)
LEMMA FlowIs ==
  ASSUME Typed, NEW e \in Ends, NEW w \in Seq(Packets), NEW v \in Seq(Packets),
         NEW q \in Seq(DataPackets),
         wire' = [wire EXCEPT ![e] = w, ![Peer(e)] = v], pktq' = [pktq EXCEPT ![e] = q]
  PROVE  /\ wire' \in [Ends -> Seq(Packets)] /\ pktq' \in [Ends -> Seq(DataPackets)]
         /\ flow' \in [Ends -> Seq(Packets)]
         /\ flow'[e] = w \o pktq[Peer(e)] /\ flow'[Peer(e)] = v \o q
         /\ flow[e] = wire[e] \o pktq[Peer(e)] /\ flow[Peer(e)] = wire[Peer(e)] \o pktq[e]
<1> DEFINE t == Peer(e)
<1>1. /\ t \in Ends /\ t # e /\ Peer(t) = e /\ \A d \in Ends : d = e \/ d = t
      /\ wire \in [Ends -> Seq(Packets)] /\ pktq \in [Ends -> Seq(DataPackets)]
  BY EndTypes DEF Typed
<1>2. flow[e] = wire[e] \o pktq[t] /\ flow[t] = wire[t] \o pktq[e]
  BY <1>1, EndTypes
<1>3. /\ wire' \in [Ends -> Seq(Packets)] /\ pktq' \in [Ends -> Seq(DataPackets)]
      /\ wire'[e] = w /\ wire'[t] = v /\ pktq'[e] = q /\ pktq'[t] = pktq[t]
  BY <1>1
<1>4. \A d \in Ends : wire'[d] \in Seq(Packets) /\ pktq'[Peer(d)] \in Seq(Packets) /\ Peer(d) \in Ends
  BY <1>1, <1>3, DataQueue
<1>5. \A d \in Ends : wire'[d] \o pktq'[Peer(d)] \in Seq(Packets)
  BY <1>4, ConcatProperties
<1>6. flow' = [d \in Ends |-> wire'[d] \o pktq'[Peer(d)]]
  BY DEF flow
<1>7. flow' \in [Ends -> Seq(Packets)]
  BY <1>5, <1>6
<1>8. flow'[e] = wire'[e] \o pktq'[t] /\ flow'[t] = wire'[t] \o pktq'[e]
  BY <1>1, <1>6
<1>9. QED
  BY <1>2, <1>3, <1>7, <1>8

(* The packet that arrives is the first of those under way.                 *)
LEMMA FlowHead ==
  ASSUME Typed, NEW e \in Ends, wire[e] # <<>>
  PROVE  /\ flow[e] # <<>> /\ Head(flow[e]) = Head(wire[e])
         /\ Tail(flow[e]) = Tail(wire[e]) \o pktq[Peer(e)]
<1> DEFINE w == wire[e]
           q == pktq[Peer(e)]
           s == w \o q
<1>1. w \in Seq(Packets) /\ q \in Seq(Packets) /\ flow[e] = s
  BY EndTypes, DataQueue
<1>2. w # <<>>
  OBVIOUS
<1> HIDE DEF w, q
<1>3. w = <<Head(w)>> \o Tail(w) /\ <<Head(w)>> \in Seq(Packets) /\ Tail(w) \in Seq(Packets)
  <2>1. /\ Head(w) \in Packets /\ Tail(w) \in Seq(Packets) /\ Head(w) = w[1] /\ Len(w) \in Nat \ {0}
        /\ Len(Tail(w)) = Len(w) - 1 /\ \A i \in 1 .. Len(w) - 1 : Tail(w)[i] = w[i + 1]
    BY <1>1, <1>2, HeadTailProperties
  <2>2. <<Head(w)>> \in Seq(Packets)
    BY <2>1
  <2>3. QED
    BY <1>1, <1>2, <2>1, <2>2
<1>4. s \in Seq(Packets) /\ Len(s) = Len(w) + Len(q) /\ Len(w) \in Nat \ {0} /\ Len(q) \in Nat
      /\ s[1] = w[1] /\ Head(w) = w[1]
  <2>1. Len(w) \in Nat \ {0} /\ Len(q) \in Nat /\ Head(w) = w[1]
    BY <1>1, <1>2, HeadTailProperties, LenProperties
  <2>2. /\ s \in Seq(Packets) /\ Len(s) = Len(w) + Len(q)
        /\ \A i \in 1 .. Len(w) + Len(q) : s[i] = IF i <= Len(w) THEN w[i] ELSE q[i - Len(w)]
    BY <1>1, ConcatProperties
  <2>3. 1 \in 1 .. Len(w) + Len(q) /\ 1 <= Len(w)
    BY <2>1
  <2>4. QED
    BY <2>1, <2>2, <2>3
<1>5. s # <<>>
  BY <1>4
<1>6. Head(s) = Head(w)
  <2> HIDE DEF s
  <2> QED
    BY <1>4, <1>5, HeadTailProperties
<1>7. Tail(s) = Tail(w) \o q
  <2> DEFINE u == Tail(w) \o q
             r == Tail(s)
  <2>1. /\ Tail(w) \in Seq(Packets) /\ Len(Tail(w)) = Len(w) - 1
        /\ \A i \in 1 .. Len(w) - 1 : Tail(w)[i] = w[i + 1]
    BY <1>1, <1>2, HeadTailProperties
  <2>2. /\ r \in Seq(Packets) /\ Len(r) = Len(s) - 1
        /\ \A i \in 1 .. Len(s) - 1 : r[i] = s[i + 1]
    <3> HIDE DEF s
    <3> QED
      BY <1>4, <1>5, HeadTailProperties
  <2>3. \A i \in 1 .. Len(w) + Len(q) : s[i] = IF i <= Len(w) THEN w[i] ELSE q[i - Len(w)]
    BY <1>1, ConcatProperties
  <2>4. /\ u \in Seq(Packets) /\ Len(u) = Len(Tail(w)) + Len(q)
        /\ \A i \in 1 .. Len(Tail(w)) + Len(q) : u[i] = IF i <= Len(Tail(w)) THEN Tail(w)[i] ELSE q[i - Len(Tail(w))]
    BY <1>1, <2>1, ConcatProperties
  <2> HIDE DEF u, r, s
  <2>5. Len(u) = Len(r)
    BY <1>4, <2>1, <2>2, <2>4
  <2>6. ASSUME NEW i \in 1 .. Len(u) PROVE u[i] = r[i]
    <3>1. i \in 1 .. Len(s) - 1 /\ i + 1 \in 1 .. Len(w) + Len(q) /\ i \in 1 .. Len(Tail(w)) + Len(q)
      BY <1>4, <2>1, <2>4
    <3>2. r[i] = s[i + 1] /\ s[i + 1] = IF i + 1 <= Len(w) THEN w[i + 1] ELSE q[(i + 1) - Len(w)]
      BY <2>2, <2>3, <3>1
    <3>3. u[i] = IF i <= Len(w) - 1 THEN Tail(w)[i] ELSE q[i - (Len(w) - 1)]
      BY <2>1, <2>4, <3>1
    <3>4. CASE i + 1 <= Len(w)
      <4>1. i <= Len(w) - 1 /\ i \in 1 .. Len(w) - 1
        BY <1>4, <3>4
      <4>2. QED
        BY <2>1, <3>2, <3>3, <3>4, <4>1
    <3>5. CASE ~(i + 1 <= Len(w))
      <4>1. ~(i <= Len(w) - 1) /\ (i + 1) - Len(w) = i - (Len(w) - 1)
        BY <1>4, <3>5
      <4>2. QED
        BY <3>2, <3>3, <3>5, <4>1
    <3>6. QED
      BY <3>4, <3>5
  <2>7. u = r
    BY <2>2, <2>4, <2>5, <2>6, SeqEqual
  <2>8. QED
    BY <2>7 DEF u, r
<1>8. QED
  BY <1>1, <1>5, <1>6, <1>7 DEF w, q

(* A handler that sends control packets.                                    *)
LEMMA HandleIs ==
  ASSUME Typed, NEW e \in Ends, wire[e] # <<>>, NEW out \in Seq(Packets), Handle(e, out), pktq' = pktq,
         \A p \in Elems(out) : p.type # "DATA",
         \/ \A p \in Elems(out) : p.type \notin DTypes
         \/ pktq[e] = <<>>
         \/ Peer(e) \in crossed'
  PROVE  Flows(e, out) /\ flow'[e] = Tail(flow[e])
<1> DEFINE t == Peer(e)
           w == Tail(wire[e])
           v == wire[t] \o out
           q == pktq[e]
<1>1. /\ wire \in [Ends -> Seq(Packets)] /\ pktq \in [Ends -> Seq(DataPackets)] /\ t \in Ends /\ t # e
      /\ wire[e] \in Seq(Packets) /\ wire[t] \in Seq(Packets) /\ q \in Seq(DataPackets)
      /\ flow[e] \in Seq(Packets)
  BY EndTypes DEF Typed
<1>2. w \in Seq(Packets) /\ v \in Seq(Packets)
  <2>1. Tail(wire[e]) \in Seq(Packets)
    BY <1>1, TailParts
  <2>2. wire[t] \o out \in Seq(Packets)
    BY <1>1, ConcatParts
  <2>3. QED
    BY <2>1, <2>2
<1>3. wire' = [wire EXCEPT ![e] = w, ![t] = v] /\ pktq' = [pktq EXCEPT ![e] = q]
  BY <1>1 DEF Handle
<1> HIDE DEF w, v, q
<1>4. /\ wire' \in [Ends -> Seq(Packets)] /\ pktq' \in [Ends -> Seq(DataPackets)]
      /\ flow' \in [Ends -> Seq(Packets)]
      /\ flow'[e] = w \o pktq[t] /\ flow'[t] = v \o q /\ flow[t] = wire[t] \o pktq[e]
  <2>1. /\ wire' \in [Ends -> Seq(Packets)] /\ pktq' \in [Ends -> Seq(DataPackets)]
        /\ flow' \in [Ends -> Seq(Packets)]
        /\ flow'[e] = w \o pktq[Peer(e)] /\ flow'[Peer(e)] = v \o q
        /\ flow[e] = wire[e] \o pktq[Peer(e)] /\ flow[Peer(e)] = wire[Peer(e)] \o pktq[e]
    <3>1. w \in Seq(Packets) /\ v \in Seq(Packets) /\ q \in Seq(DataPackets)
      BY <1>1, <1>2
    <3>2. wire' = [wire EXCEPT ![e] = w, ![Peer(e)] = v] /\ pktq' = [pktq EXCEPT ![e] = q]
      BY <1>3
    <3>3. QED
      BY <3>1, <3>2, FlowIs
  <2>2. QED
    BY <2>1
<1>5. flow[e] # <<>> /\ flow'[e] = Tail(flow[e])
  BY <1>4, FlowHead DEF w
<1>6. Moved(flow'[e], flow[e], <<>>) /\ Shrinks(flow'[e], flow[e], DTypes)
  BY <1>1, <1>5, MovedTail
<1>7. flow'[t] = (wire[t] \o out) \o q /\ flow[t] = wire[t] \o q
  BY <1>4 DEF v, q
<1>8. /\ Moved(flow'[t], flow[t], out)
      /\ q = <<>> \/ (\A p \in Elems(out) : p.type \notin DTypes) => Grows(flow'[t], flow[t], DTypes, out)
  <2>1. q \in {q, <<>>}
    OBVIOUS
  <2>2. QED
    BY <1>1, <1>7, <2>1, MovedControl
<1>9. t \notin crossed' => Grows(flow'[t], flow[t], DTypes, out)
  BY <1>8 DEF q
<1>10. QED
  BY <1>4, <1>5, <1>6, <1>8, <1>9 DEF Flows

(* A timer that sends one.                                                  *)
LEMMA EmitIs ==
  ASSUME Typed, NEW e \in Ends, NEW out \in Seq(Packets), Emit(e, out), pktq' = pktq,
         \A p \in Elems(out) : p.type # "DATA" /\ p.type \notin DTypes
  PROVE  Flows(e, out) /\ flow'[e] = flow[e]
<1> DEFINE t == Peer(e)
           w == wire[e]
           v == wire[t] \o out
           q == pktq[e]
<1>1. /\ wire \in [Ends -> Seq(Packets)] /\ pktq \in [Ends -> Seq(DataPackets)] /\ t \in Ends /\ t # e
      /\ wire[e] \in Seq(Packets) /\ wire[t] \in Seq(Packets) /\ q \in Seq(DataPackets)
  BY EndTypes DEF Typed
<1>2. w \in Seq(Packets) /\ v \in Seq(Packets)
  BY <1>1, ConcatParts
<1>3. wire' = [wire EXCEPT ![e] = w, ![t] = v] /\ pktq' = [pktq EXCEPT ![e] = q]
  BY <1>1 DEF Emit
<1> HIDE DEF w, v, q
<1>4. /\ wire' \in [Ends -> Seq(Packets)] /\ pktq' \in [Ends -> Seq(DataPackets)]
      /\ flow' \in [Ends -> Seq(Packets)]
      /\ flow'[e] = w \o pktq[t] /\ flow'[t] = v \o q
      /\ flow[e] = wire[e] \o pktq[t] /\ flow[t] = wire[t] \o pktq[e]
  BY <1>1, <1>2, <1>3, FlowIs
<1>5. flow'[e] = flow[e]
  BY <1>4 DEF w
<1>6. Moved(flow'[e], flow[e], <<>>) /\ Shrinks(flow'[e], flow[e], DTypes)
  BY <1>5, MovedSame
<1>7. flow'[t] = (wire[t] \o out) \o q /\ flow[t] = wire[t] \o q
  BY <1>4 DEF v, q
<1>8. Moved(flow'[t], flow[t], out) /\ Grows(flow'[t], flow[t], DTypes, out)
  <2>1. q \in {q, <<>>}
    OBVIOUS
  <2>2. QED
    BY <1>1, <1>7, <2>1, MovedControl
<1>9. QED
  BY <1>4, <1>5, <1>6, <1>8 DEF Flows

(* Data are queued, after a packet was taken or not.                        *)
LEMMA QueueIs ==
  ASSUME Typed, NEW e \in Ends, NEW out \in Seq(Packets), Queue(e, out),
         \A p \in Elems(out) : p.type = "DATA",
         (wire[e] # <<>> /\ Handle(e, <<>>)) \/ wire' = wire
  PROVE  /\ Flows(e, out)
         /\ flow'[e] = IF wire' = wire THEN flow[e] ELSE Tail(flow[e])
<1> DEFINE t == Peer(e)
           w == IF wire' = wire THEN wire[e] ELSE Tail(wire[e])
           v == wire[t]
           q == qPkts(pktq[e], out)
<1>1. /\ wire \in [Ends -> Seq(Packets)] /\ pktq \in [Ends -> Seq(DataPackets)] /\ t \in Ends /\ t # e
      /\ wire[e] \in Seq(Packets) /\ v \in Seq(Packets) /\ pktq[e] \in Seq(DataPackets)
      /\ flow[e] \in Seq(Packets)
  BY EndTypes DEF Typed
<1>2. out \in Seq(DataPackets)
  <2>1. \A i \in 1 .. Len(out) : out[i] \in Packets
    OBVIOUS
  <2>2. \A p \in Elems(out) : p \in DataPackets
    BY <2>1 DEF DataPackets, Elems
  <2>3. QED
    BY <2>2, SeqOver
<1>3. q \in Seq(DataPackets)
  BY <1>1, <1>2, QPktsGrows
<1>4. w \in Seq(Packets)
  BY <1>1, TailParts
<1>5. wire' = [wire EXCEPT ![e] = w, ![t] = v]
  <2>1. CASE wire' = wire
    BY <1>1, <2>1
  <2>2. CASE wire' # wire
    <3>1. Handle(e, <<>>)
      BY <2>2
    <3>2. v \o <<>> = v
      BY <1>1, ConcatEmptySeq
    <3>3. wire' = [wire EXCEPT ![e] = Tail(wire[e]), ![t] = v]
      BY <1>1, <3>1, <3>2 DEF Handle
    <3>4. QED
      BY <2>2, <3>3
  <2>3. QED
    BY <2>1, <2>2
<1>6. pktq' = [pktq EXCEPT ![e] = q]
  BY <1>1 DEF Queue
<1> HIDE DEF v, q
<1>7. /\ wire' \in [Ends -> Seq(Packets)] /\ pktq' \in [Ends -> Seq(DataPackets)]
      /\ flow' \in [Ends -> Seq(Packets)]
      /\ flow'[e] = w \o pktq[t] /\ flow'[t] = v \o q
      /\ flow[e] = wire[e] \o pktq[t] /\ flow[t] = wire[t] \o pktq[e]
  <2> HIDE DEF w
  <2> QED
    BY <1>1, <1>3, <1>4, <1>5, <1>6, FlowIs
<1>8. /\ flow'[e] = IF wire' = wire THEN flow[e] ELSE Tail(flow[e])
      /\ wire' = wire \/ flow[e] # <<>>
  <2>1. CASE wire' = wire
    BY <1>7, <2>1
  <2>2. CASE wire' # wire
    <3>1. wire[e] # <<>>
      BY <2>2
    <3>2. flow[e] # <<>> /\ Tail(flow[e]) = Tail(wire[e]) \o pktq[t]
      BY <3>1, FlowHead
    <3>3. QED
      BY <1>7, <2>2, <3>2
  <2>3. QED
    BY <2>1, <2>2
<1>9. Moved(flow'[e], flow[e], <<>>) /\ Shrinks(flow'[e], flow[e], DTypes)
  BY <1>1, <1>8, MovedSame, MovedTail
<1>10. Moved(flow'[t], flow[t], out) /\ Grows(flow'[t], flow[t], DTypes, out)
  <2>1. flow'[t] = wire[t] \o qPkts(pktq[e], out) /\ flow[t] = wire[t] \o pktq[e]
    BY <1>7 DEF v, q
  <2>2. QED
    BY <1>1, <1>2, <2>1, MovedData DEF v
<1>11. QED
  BY <1>7, <1>8, <1>9, <1>10 DEF Flows

LEMMA CntlIn ==
  /\ \A t \in CntlTypes : Cntl(t) \in Packets /\ Cntl(t).type = t
  /\ Started \in Seq(Packets) /\ Elems(Started) = {Cntl("REQ_RESET"), Cntl("XMT_RESET")}
  /\ \A p, q : Before(Started, p, q) => p = Cntl("REQ_RESET") /\ q = Cntl("XMT_RESET")
<1>1. \A t \in CntlTypes : Cntl(t) \in Packets /\ Cntl(t).type = t
  <2>1. 0 \in 0 .. SEQMOD - 1 /\ 0 \in Slots
    BY Sizes DEF Slots
  <2>2. QED
    BY <2>1 DEF Cntl, Packet, Packets, PacketTypes, NoData
<1>2. "REQ_RESET" \in CntlTypes /\ "XMT_RESET" \in CntlTypes
  BY DEF CntlTypes
<1> DEFINE a == Cntl("REQ_RESET")
           b == Cntl("XMT_RESET")
<1>3. a \in Packets /\ b \in Packets /\ Started = <<a, b>>
  BY <1>1, <1>2 DEF Started
<1> HIDE DEF a, b
<1>4. QED
  BY <1>1, <1>3, ShortParts DEF a, b

LEMMA ReplyIn ==
  ASSUME NEW t \in PacketTypes, NEW s \in 0 .. SEQMOD - 1, NEW n \in Nat
  PROVE  /\ Reply(t, s, n) \in Packets /\ Reply(t, s, n).type = t /\ Reply(t, s, n).seq = s
         /\ Reply(t, s, n).data.n = n
<1>1. 0 \in Slots
  BY Sizes DEF Slots
<1>2. QED
  BY <1>1 DEF Reply, Packet, Packets

(* What a step leaves right at both ends.                                   *)
LEMMA StepsTyped ==
  ASSUME Typed, NEW e \in Ends, NEW out, NEW x2, NEW f2, NEW ep2, NEW rv2, NEW g2,
         Steps(e, out, x2, f2, ep2, rv2, g2)
  PROVE  Typed'
  BY DEF Typed, Steps, Flows

LEMMA StepsEnds ==
  ASSUME Typed, EndsRight, NEW e \in Ends, NEW out, NEW x2, NEW f2, NEW ep2, NEW rv2, NEW g2,
         Steps(e, out, x2, f2, ep2, rv2, g2), WindowOf(x2, f2, ep2), epoch[e] <= ep2, ep2 \in Nat,
         \A p \in Elems(out) : p.type = "DATA" => p.data.n > 0 /\ p.data.ep <= ep2 /\ p.seq = Number(p.data.n - 1)
  PROVE  EndsRight'
<1> DEFINE r == Peer(e)
<1>1. /\ r \in Ends /\ Peer(r) = e /\ \A d \in Ends : d = e \/ d = r
      /\ flow[e] \in Seq(Packets) /\ flow[r] \in Seq(Packets) /\ epoch[e] \in Nat /\ out \in Seq(Packets)
      /\ <<>> \in Seq(Packets)
  <2>1. out \in Seq(Packets)
    BY DEF Steps
  <2>2. <<>> \in Seq(Packets)
    OBVIOUS
  <2>3. r \in Ends /\ Peer(r) = e /\ \A d \in Ends : d = e \/ d = r
    BY EndTypes
  <2>4. flow[e] \in Seq(Packets) /\ flow[r] \in Seq(Packets) /\ epoch[e] \in Nat
    BY <2>3, EndTypes
  <2>5. QED
    BY <2>1, <2>2, <2>3, <2>4
<1>2. /\ xmit'[e] = x2 /\ freed'[e] = f2 /\ epoch'[e] = ep2
      /\ xmit'[r] = xmit[r] /\ freed'[r] = freed[r] /\ epoch'[r] = epoch[r]
      /\ Moved(flow'[e], flow[e], <<>>) /\ Moved(flow'[r], flow[r], out)
  BY DEF Steps, Flows
<1>3. EndRight(e) /\ EndRight(r)
  BY <1>1 DEF EndsRight
<1> HIDE DEF r
<1>4. WindowOf(xmit'[e], freed'[e], epoch'[e]) /\ WindowOf(xmit'[r], freed'[r], epoch'[r])
  BY <1>2, <1>3 DEF EndRight
<1>5. DataRight(flow'[r], epoch'[e])
  <2>1. Grows(flow'[r], flow[r], {"DATA"}, out)
    BY <1>2 DEF Moved
  <2>2. DataRight(flow[r], epoch[e])
    BY <1>3 DEF EndRight, r
  <2>3. ASSUME NEW p \in Elems(flow'[r]), p.type = "DATA"
        PROVE  p.data.n > 0 /\ p.data.ep <= ep2 /\ p.seq = Number(p.data.n - 1)
    <3>1. p \in Elems(flow[r]) \/ p \in Elems(out)
      BY <2>1, <2>3 DEF Grows
    <3>2. CASE p \in Elems(flow[r])
      <4> DEFINE j == p.data.ep
      <4>1. j \in Nat /\ j <= epoch[e]
        BY <1>1, <2>2, <2>3, <3>2, ElemsPackets DEF DataRight
      <4> HIDE DEF j
      <4>2. j <= ep2
        BY <1>1, <4>1
      <4>3. QED
        BY <2>2, <2>3, <3>2, <4>2 DEF DataRight, j
    <3>3. CASE p \in Elems(out)
      BY <2>3, <3>3
    <3>4. QED
      BY <3>1, <3>2, <3>3
  <2>4. QED
    BY <1>2, <2>3 DEF DataRight
<1>6. DataRight(flow'[e], epoch'[r])
  <2>1. Grows(flow'[e], flow[e], {"DATA"}, <<>>) /\ Elems(<<>>) = {}
    BY <1>2, ShortParts DEF Moved
  <2>2. DataRight(flow[e], epoch[r])
    BY <1>1, <1>3 DEF EndRight
  <2>3. QED
    BY <1>2, <2>1, <2>2 DEF DataRight, Grows
<1>7. ASSUME NEW d \in Ends PROVE WindowOf(xmit'[d], freed'[d], epoch'[d]) /\ DataRight(flow'[Peer(d)], epoch'[d])
  <2>1. Peer(e) = r
    BY DEF r
  <2>2. QED
    BY <1>1, <1>4, <1>5, <1>6, <2>1
<1>8. QED
  BY <1>7 DEF EndsRight, EndRight

-----------------------------------------------------------------------------
(* Both directions, but for a receiver whose resets have crossed.           *)
PairOf(r) ==
  Pair(flow[r], flow[Peer(r)], recv[r], got[r], xmit[Peer(r)], freed[Peer(r)], epoch[Peer(r)])
PairsRight == \A r \in Ends \ crossed : PairOf(r)

Keeps == Typed' /\ EndsRight' /\ (Pnbufs <= 3 /\ PairsRight => PairsRight')

LEMMA StepsKeep ==
  ASSUME Typed, EndsRight, NEW e \in Ends, NEW out, NEW x2, NEW f2, NEW ep2, NEW rv2, NEW g2,
         Steps(e, out, x2, f2, ep2, rv2, g2), WindowOf(x2, f2, ep2), epoch[e] <= ep2, ep2 \in Nat,
         \A p \in Elems(out) : p.type = "DATA" => p.data.n > 0 /\ p.data.ep <= ep2 /\ p.seq = Number(p.data.n - 1),
         NEW t, t = Peer(e),
         Pnbufs <= 3 /\ e \notin crossed' /\ PairOf(e) =>
           Pair(flow'[e], flow'[t], rv2, g2, xmit[t], freed[t], epoch[t]),
         Pnbufs <= 3 /\ t \notin crossed' /\ PairOf(t) =>
           Pair(flow'[t], flow'[e], recv[t], got[t], x2, f2, ep2)
  PROVE  Keeps
<1>1. Typed' /\ EndsRight'
  BY StepsTyped, StepsEnds
<1>2. t \in Ends /\ Peer(t) = e /\ \A d \in Ends : d = e \/ d = t
  BY EndTypes
<1>3. ASSUME Pnbufs <= 3, PairsRight, NEW r \in Ends, r \notin crossed'
      PROVE  Pair(flow'[r], flow'[Peer(r)], recv'[r], got'[r], xmit'[Peer(r)], freed'[Peer(r)], epoch'[Peer(r)])
  <2>1. r \notin crossed /\ PairOf(r)
    BY <1>3 DEF Steps, PairsRight
  <2>2. CASE r = e
    BY <1>3, <2>1, <2>2 DEF Steps
  <2>3. CASE r = t
    BY <1>2, <1>3, <2>1, <2>3 DEF Steps
  <2>4. QED
    BY <1>2, <2>2, <2>3
<1>4. Pnbufs <= 3 /\ PairsRight => PairsRight'
  BY <1>3 DEF PairsRight, PairOf
<1>5. QED
  BY <1>1, <1>4 DEF Keeps

(* A step that leaves the receiver, or the transmitter, of e alone.         *)
LEMMA QuietReceiver ==
  ASSUME Typed, NEW e \in Ends, NEW out, NEW x2, NEW f2, NEW ep2,
         Steps(e, out, x2, f2, ep2, recv[e], got[e]), PairOf(e), NEW t, t = Peer(e),
         \A p \in Elems(out) : p.type \notin BTypes
  PROVE  Pair(flow'[e], flow'[t], recv[e], got[e], xmit[t], freed[t], epoch[t])
<1>1. Shrinks(flow'[e], flow[e], DTypes) /\ Moved(flow'[t], flow[t], out)
  BY DEF Steps, Flows
<1>2. Pair(flow[e], flow[t], recv[e], got[e], xmit[t], freed[t], epoch[t])
  BY DEF PairOf
<1>3. Silent(flow[t], recv[e])
  BY <1>2 DEF Pair
<1>4. KeepsReset(flow'[t], flow[t])
  BY <1>1, <1>3, MovedKeeps
<1>5. Grows(flow'[t], flow[t], BTypes, out)
  BY <1>1 DEF Moved
<1>6. Shrinks(flow'[t], flow[t], BTypes)
  BY <1>5, GrowsShrinks
<1>7. QED
  BY <1>1, <1>2, <1>4, <1>6, PairShrinks

LEMMA QuietTransmitter ==
  ASSUME Typed, NEW e \in Ends, NEW out, NEW rv2, NEW g2,
         Steps(e, out, xmit[e], freed[e], epoch[e], rv2, g2), NEW t, t = Peer(e), t \notin crossed',
         PairOf(t), \A p \in Elems(out) : p.type \notin DTypes
  PROVE  Pair(flow'[t], flow'[e], recv[t], got[t], xmit[e], freed[e], epoch[e])
<1>1. Moved(flow'[e], flow[e], <<>>) /\ Grows(flow'[t], flow[t], DTypes, out)
  BY DEF Steps, Flows
<1>2. Elems(<<>>) = {} /\ Peer(t) = e
  BY EndTypes, ShortParts
<1>3. Pair(flow[t], flow[e], recv[t], got[t], xmit[e], freed[e], epoch[e])
  BY <1>2 DEF PairOf
<1>4. Silent(flow[e], recv[t])
  BY <1>3 DEF Pair
<1>5. KeepsReset(flow'[e], flow[e])
  BY <1>1, <1>2, <1>4, MovedKeeps
<1>6. Grows(flow'[e], flow[e], BTypes, <<>>)
  BY <1>1 DEF Moved
<1>7. Shrinks(flow'[e], flow[e], BTypes) /\ Shrinks(flow'[t], flow[t], DTypes)
  BY <1>1, <1>2, <1>6, GrowsShrinks
<1>8. QED
  BY <1>3, <1>5, <1>7, PairShrinks

(* A step in which the receiver of e asks for a reset.                      *)
LEMMA OnWireIs ==
  ASSUME Typed, NEW e \in Ends, NEW t, t # "DATA"
  PROVE  OnWire(e, {t}) <=> Reset(flow[e], t)
<1> DEFINE w == wire[e]
           q == pktq[Peer(e)]
<1>1. /\ w \in Seq(Packets) /\ q \in Seq(Packets) /\ flow[e] = w \o q
      /\ \A p \in Elems(q) : p.type = "DATA"
  BY EndTypes, DataQueue
<1>2. OnWire(e, {t}) <=> \E p \in Elems(w) : p.type = t
  BY DEF OnWire, Elems
<1> HIDE DEF w, q
<1>3. Elems(w \o q) = Elems(w) \cup Elems(q)
  BY <1>1, ConcatParts
<1>4. QED
  BY <1>1, <1>2, <1>3 DEF Reset

LEMMA AsksReset ==
  ASSUME Typed, NEW e \in Ends, NEW out \in {<<Cntl("XMT_RESET")>>, Started}, NEW x2, NEW f2, NEW ep2,
         NEW rv2, NEW g2, Steps(e, out, x2, f2, ep2, rv2, g2), PairOf(e), NEW t, t = Peer(e),
         Crossing(e), e \notin crossed',
         rv2.state = "RESET", g2 \in {got[e], <<>>}
  PROVE  Pair(flow'[e], flow'[t], rv2, g2, xmit[t], freed[t], epoch[t])
<1>1. t \in Ends
  BY EndTypes
<1>2. Shrinks(flow'[e], flow[e], DTypes) /\ Moved(flow'[t], flow[t], out)
  BY DEF Steps, Flows
<1>3. Pair(flow[e], flow[t], recv[e], got[e], xmit[t], freed[t], epoch[t])
  BY DEF PairOf
<1>4. ~Reset(flow[t], "XMT_RESET") /\ ~Reset(flow[e], "ACK_RESET")
  BY <1>1, OnWireIs DEF Crossing
<1>5. Shrinks(flow'[e], flow[e], DTypes) /\ Grows(flow'[t], flow[t], BTypes, out)
  BY <1>2 DEF Moved
<1>6. /\ Cntl("XMT_RESET") \in Packets /\ Cntl("XMT_RESET").type = "XMT_RESET"
      /\ Cntl("REQ_RESET").type = "REQ_RESET"
  BY CntlIn DEF CntlTypes
<1>7. /\ \A p \in Elems(out) : p.type \in {"XMT_RESET", "REQ_RESET"}
      /\ \A p, q \in Elems(out) : Before(out, p, q) => p.type # "XMT_RESET"
      /\ Cntl("XMT_RESET") \in Elems(out)
  <2>1. CASE out = Started
    BY <1>6, <2>1, CntlIn
  <2>2. CASE out = <<Cntl("XMT_RESET")>>
    BY <1>6, <2>2, ShortParts
  <2>3. QED
    BY <2>1, <2>2
<1>8. Cntl("XMT_RESET") \in Elems(flow'[t])
  BY <1>2, <1>6, <1>7 DEF Moved
<1>9. Reset(flow'[t], "XMT_RESET")
  BY <1>6, <1>8 DEF Reset
<1>10. \A p \in Elems(out) : ~IsReply(p)
  BY <1>7 DEF IsReply
<1>11. QED
  BY <1>3, <1>4, <1>5, <1>7, <1>9, <1>10, PairAsks

-----------------------------------------------------------------------------
(* How the actions make steps.                                              *)
LEMMA StepsBy ==
  ASSUME Typed, NEW e \in Ends, NEW out \in Seq(Packets),
         Flows(e, out),
         NEW x2 \in XmitRecords, xmit' = [xmit EXCEPT ![e] = x2],
         NEW f2 \in Nat, freed' = [freed EXCEPT ![e] = f2],
         NEW ep2 \in Nat, epoch' = [epoch EXCEPT ![e] = ep2],
         NEW rv2 \in RecvRecords, recv' = [recv EXCEPT ![e] = rv2],
         NEW g2 \in Seq(Datum), got' = [got EXCEPT ![e] = g2],
         crossed \subseteq crossed', crossed' \subseteq Ends,
         losses' \in 0 .. MaxLosses, resets' \in 0 .. MaxResets
  PROVE  Steps(e, out, x2, f2, ep2, rv2, g2)
<1>1. Peer(e) \in Ends /\ Peer(e) # e
  BY EndTypes
<1>2. xmit' \in [Ends -> XmitRecords] /\ xmit'[e] = x2 /\ xmit'[Peer(e)] = xmit[Peer(e)]
  BY <1>1 DEF Typed
<1>3. freed' \in [Ends -> Nat] /\ freed'[e] = f2 /\ freed'[Peer(e)] = freed[Peer(e)]
  BY <1>1 DEF Typed
<1>4. epoch' \in [Ends -> Nat] /\ epoch'[e] = ep2 /\ epoch'[Peer(e)] = epoch[Peer(e)]
  BY <1>1 DEF Typed
<1>5. recv' \in [Ends -> RecvRecords] /\ recv'[e] = rv2 /\ recv'[Peer(e)] = recv[Peer(e)]
  BY <1>1 DEF Typed
<1>6. got' \in [Ends -> Seq(Datum)] /\ got'[e] = g2 /\ got'[Peer(e)] = got[Peer(e)]
  BY <1>1 DEF Typed
<1>7. QED
  BY <1>2, <1>3, <1>4, <1>5, <1>6 DEF Steps

LEMMA CountersIn ==
  ASSUME Typed
  PROVE  /\ losses \in 0 .. MaxLosses /\ resets \in 0 .. MaxResets
         /\ crossed' = crossed => crossed \subseteq crossed' /\ crossed' \subseteq Ends
  BY DEF Typed

LEMMA SameParts ==
  ASSUME Typed, NEW e \in Ends
  PROVE  /\ xmit = [xmit EXCEPT ![e] = xmit[e]] /\ freed = [freed EXCEPT ![e] = freed[e]]
         /\ epoch = [epoch EXCEPT ![e] = epoch[e]] /\ recv = [recv EXCEPT ![e] = recv[e]]
         /\ got = [got EXCEPT ![e] = got[e]]
  BY DEF Typed

LEMMA CrossingIs ==
  ASSUME Typed, NEW e \in Ends, Crossing(e)
  PROVE  crossed \subseteq crossed' /\ crossed' \subseteq Ends
  BY DEF Typed, Crossing

LEMMA ArrivesIs ==
  ASSUME Typed, NEW e \in Ends, NEW t, Arrives(e, t)
  PROVE  /\ wire[e] # <<>> /\ flow[e] # <<>> /\ Head(flow[e]) = Head(wire[e])
         /\ flow[e] \in Seq(Packets) /\ Head(wire[e]).type = t
         /\ Head(wire[e]) \in Packets /\ Head(wire[e]) \in Elems(flow[e])
<1>1. wire[e] # <<>> /\ flow[e] \in Seq(Packets) /\ Head(wire[e]).type = t
  BY EndTypes DEF Arrives
<1>2. flow[e] # <<>> /\ Head(flow[e]) = Head(wire[e])
  BY <1>1, FlowHead
<1>3. Head(flow[e]) \in Elems(flow[e])
  BY <1>1, <1>2, TailParts
<1>4. QED
  BY <1>1, <1>2, <1>3, ElemsPackets

(* Steps that leave all but the circuit alone, and those that ask for a     *)
(* reset.                                                                   *)
LEMMA StepsQuiet ==
  ASSUME Typed, EndsRight, NEW e \in Ends, NEW out \in Seq(Packets),
         Flows(e, out),
         UNCHANGED <<xmit, freed, epoch, recv, got, crossed>>,
         losses' \in 0 .. MaxLosses, resets' \in 0 .. MaxResets,
         \A p \in Elems(out) : p.type \notin DTypes /\ p.type \notin BTypes
  PROVE  Keeps
<1> DEFINE t == Peer(e)
<1>1. /\ xmit[e] \in XmitRecords /\ freed[e] \in Nat /\ epoch[e] \in Nat /\ recv[e] \in RecvRecords
      /\ got[e] \in Seq(Datum) /\ t \in Ends /\ EndRight(e)
  BY EndTypes DEF EndsRight
<1>2. Steps(e, out, xmit[e], freed[e], epoch[e], recv[e], got[e])
  BY <1>1, StepsBy, SameParts, CountersIn
<1>3. WindowOf(xmit[e], freed[e], epoch[e]) /\ epoch[e] <= epoch[e]
  BY <1>1 DEF EndRight
<1>4. \A p \in Elems(out) : p.type # "DATA"
  BY DEF DTypes
<1>5. PairOf(e) => Pair(flow'[e], flow'[t], recv[e], got[e], xmit[t], freed[t], epoch[t])
  BY <1>2, QuietReceiver
<1>6. t \notin crossed' /\ PairOf(t) => Pair(flow'[t], flow'[e], recv[t], got[t], xmit[e], freed[e], epoch[e])
  BY <1>2, QuietTransmitter
<1> HIDE DEF t
<1>7. t = Peer(e)
  BY DEF t
<1>8. QED
  BY <1>1, <1>2, <1>3, <1>4, <1>5, <1>6, <1>7, StepsKeep

LEMMA StepsAsks ==
  ASSUME Typed, EndsRight, NEW e \in Ends, NEW out \in {<<Cntl("XMT_RESET")>>, Started},
         Flows(e, out),
         UNCHANGED <<xmit, freed, epoch, got>>, Crossing(e),
         NEW rv2 \in RecvRecords, recv' = [recv EXCEPT ![e] = rv2], rv2.state = "RESET",
         losses' \in 0 .. MaxLosses, resets' \in 0 .. MaxResets
  PROVE  Keeps
<1> DEFINE t == Peer(e)
<1>1. /\ xmit[e] \in XmitRecords /\ freed[e] \in Nat /\ epoch[e] \in Nat /\ recv[e] \in RecvRecords
      /\ got[e] \in Seq(Datum) /\ t \in Ends /\ EndRight(e)
  BY EndTypes DEF EndsRight
<1>2. out \in Seq(Packets) /\ \A p \in Elems(out) : p.type \in {"XMT_RESET", "REQ_RESET"}
  <2>1. /\ Cntl("XMT_RESET") \in Packets /\ Cntl("XMT_RESET").type = "XMT_RESET"
        /\ Cntl("REQ_RESET").type = "REQ_RESET"
    BY CntlIn DEF CntlTypes
  <2>2. CASE out = Started
    BY <2>1, <2>2, CntlIn
  <2>3. CASE out = <<Cntl("XMT_RESET")>>
    BY <2>1, <2>3, ShortParts
  <2>4. QED
    BY <2>2, <2>3
<1>3. Steps(e, out, xmit[e], freed[e], epoch[e], rv2, got[e])
  BY <1>1, <1>2, StepsBy, SameParts, CrossingIs
<1>4. WindowOf(xmit[e], freed[e], epoch[e]) /\ epoch[e] <= epoch[e]
  BY <1>1 DEF EndRight
<1>5. \A p \in Elems(out) : p.type # "DATA" /\ p.type \notin DTypes
  BY <1>2 DEF DTypes
<1>6. e \notin crossed' /\ PairOf(e) => Pair(flow'[e], flow'[t], rv2, got[e], xmit[t], freed[t], epoch[t])
  BY <1>3, AsksReset
<1>7. t \notin crossed' /\ PairOf(t) => Pair(flow'[t], flow'[e], recv[t], got[t], xmit[e], freed[e], epoch[e])
  BY <1>3, <1>5, QuietTransmitter
<1> HIDE DEF t
<1>8. t = Peer(e)
  BY DEF t
<1>9. QED
  BY <1>1, <1>3, <1>4, <1>5, <1>6, <1>7, <1>8, StepsKeep

-----------------------------------------------------------------------------
(* The actions.                                                             *)
LEMMA EmptyIn ==
  <<>> \in Seq(Packets) /\ Elems(<<>>) = {}
  BY ShortParts

LEMMA StartedQuiet ==
  ASSUME NEW out \in {<<Cntl("XMT_RESET")>>, Started}
  PROVE  \A p \in Elems(out) : p.type # "DATA" /\ p.type \notin DTypes
<1>1. /\ Cntl("XMT_RESET") \in Packets /\ Cntl("XMT_RESET").type = "XMT_RESET"
      /\ Cntl("REQ_RESET").type = "REQ_RESET"
  BY CntlIn DEF CntlTypes
<1>2. CASE out = Started
  BY <1>1, <1>2, CntlIn DEF DTypes
<1>3. CASE out = <<Cntl("XMT_RESET")>>
  BY <1>1, <1>3, ShortParts DEF DTypes
<1>4. QED
  BY <1>2, <1>3

LEMMA KeepsLose ==
  ASSUME Typed, EndsRight, NEW e \in Ends, Lose(e)
  PROVE  Keeps
<1>1. wire[e] # <<>> /\ Handle(e, <<>>) /\ pktq' = pktq
  BY DEF Lose, UnchangedTransmitter
<1>2. /\ Flows(e, <<>>)
  BY <1>1, EmptyIn, HandleIs
<1>3. UNCHANGED <<xmit, freed, epoch, recv, got, crossed>>
  BY DEF Lose, UnchangedReceiver, UnchangedTransmitter
<1>4. losses' \in 0 .. MaxLosses /\ resets' \in 0 .. MaxResets
  <2>1. losses' = losses + 1 /\ losses < MaxLosses /\ resets' = resets /\ MaxLosses \in Nat
    BY ProtocolAssumption DEF Lose
  <2>2. QED
    BY <2>1, CountersIn
<1>5. QED
  BY <1>2, <1>3, <1>4, EmptyIn, StepsQuiet

LEMMA KeepsDataWhileReset ==
  ASSUME Typed, EndsRight, NEW e \in Ends, DataWhileReset(e)
  PROVE  Keeps
<1>1. wire[e] # <<>> /\ Handle(e, <<>>) /\ pktq' = pktq
  BY DEF DataWhileReset, RecvData, Arrives, UnchangedTransmitter
<1>2. /\ Flows(e, <<>>)
  BY <1>1, EmptyIn, HandleIs
<1>3. UNCHANGED <<xmit, freed, epoch, recv, got, crossed>> /\ UNCHANGED <<losses, resets>>
  BY DEF DataWhileReset, RecvData, UnchangedReceiver, UnchangedTransmitter
<1>4. QED
  BY <1>2, <1>3, EmptyIn, CountersIn, StepsQuiet

LEMMA KeepsTimeoutWhileReset ==
  ASSUME Typed, EndsRight, NEW e \in Ends, TimeoutWhileReset(e)
  PROVE  Keeps
<1>1. wire[e] # <<>> /\ UNCHANGED <<pktq, xmit, freed, epoch, recv, got, losses, resets>>
  BY DEF TimeoutWhileReset, Arrives, UnchangedReceiver, UnchangedTransmitter
<1>2. CASE Handle(e, <<>>) /\ UNCHANGED crossed
  <2>1. /\ Flows(e, <<>>)
    BY <1>1, <1>2, EmptyIn, HandleIs
  <2>2. QED
    BY <1>1, <1>2, <2>1, EmptyIn, CountersIn, StepsQuiet
<1>3. CASE recv[e].state = "RESET" /\ Crossing(e) /\ Handle(e, Started)
  <2>1. /\ Flows(e, Started)
    BY <1>1, <1>3, CntlIn, StartedQuiet, HandleIs
  <2>2. recv[e] \in RecvRecords /\ recv' = [recv EXCEPT ![e] = recv[e]]
    BY <1>1, EndTypes, SameParts
  <2>3. QED
    BY <1>1, <1>3, <2>1, <2>2, CountersIn, StepsAsks
<1>4. QED
  BY <1>2, <1>3 DEF TimeoutWhileReset

LEMMA KeepsTimers ==
  ASSUME Typed, EndsRight, NEW e \in Ends, RequestAgain(e) \/ ResetAgain(e)
  PROVE  Keeps
<1>1. /\ UNCHANGED <<pktq, xmit, freed, epoch, recv, got, losses>>
      /\ resets' \in 0 .. MaxResets /\ losses' \in 0 .. MaxLosses
  <2>1. \/ resets' = resets
        \/ resets < MaxResets /\ resets' = resets + 1
    BY DEF RequestAgain, ResetAgain, TimedReset
  <2>2. UNCHANGED <<pktq, xmit, freed, epoch, recv, got, losses>>
    BY DEF RequestAgain, ResetAgain, TimedReset, UnchangedReceiver, UnchangedTransmitter
  <2>3. MaxResets \in Nat
    BY ProtocolAssumption
  <2>4. QED
    BY <2>1, <2>2, <2>3, CountersIn
<1>2. CASE RequestAgain(e)
  <2> DEFINE out == <<Cntl("REQ_RESET")>>
  <2>1. Cntl("REQ_RESET") \in Packets /\ Cntl("REQ_RESET").type = "REQ_RESET"
    BY CntlIn DEF CntlTypes
  <2>2. out \in Seq(Packets) /\ \A p \in Elems(out) : p.type = "REQ_RESET"
    BY <2>1, ShortParts
  <2>3. Emit(e, out) /\ UNCHANGED crossed
    BY <1>2 DEF RequestAgain, TimedReset
  <2> HIDE DEF out
  <2>4. \A p \in Elems(out) : p.type # "DATA" /\ p.type \notin DTypes /\ p.type \notin BTypes
    BY <2>2 DEF DTypes, BTypes
  <2>5. Flows(e, out)
    BY <1>1, <2>2, <2>3, <2>4, EmitIs
  <2>6. QED
    BY <1>1, <2>2, <2>3, <2>4, <2>5, StepsQuiet
<1>3. CASE ResetAgain(e)
  <2> DEFINE out == <<Cntl("XMT_RESET")>>
  <2>1. Cntl("XMT_RESET") \in Packets
    BY CntlIn DEF CntlTypes
  <2>2. out \in Seq(Packets) /\ out \in {<<Cntl("XMT_RESET")>>, Started}
    BY <2>1
  <2>3. Emit(e, out) /\ Crossing(e) /\ recv[e].state = "RESET"
    BY <1>3 DEF ResetAgain, TimedReset
  <2> HIDE DEF out
  <2>4. Flows(e, out)
    BY <1>1, <2>1, <2>2, <2>3, StartedQuiet, EmitIs
  <2>5. recv[e] \in RecvRecords /\ recv' = [recv EXCEPT ![e] = recv[e]]
    BY <1>1, EndTypes, SameParts
  <2>6. QED
    BY <1>1, <2>2, <2>3, <2>4, <2>5, StepsAsks
<1>4. QED
  BY <1>2, <1>3

LEMMA KeepsPreset ==
  ASSUME Typed, EndsRight, NEW e \in Ends, wire[e] # <<>>, Preset(e),
         UNCHANGED <<pktq, xmit, freed, epoch, got, losses, resets>>
  PROVE  Keeps
<1> DEFINE rv2 == [recv[e] EXCEPT !.state = "RESET"]
<1>1. recv[e] \in RecvRecords /\ recv \in [Ends -> RecvRecords]
  BY EndTypes DEF Typed
<1>2. rv2 \in RecvRecords /\ rv2.state = "RESET"
  BY <1>1 DEF RecvRecords
<1>3. recv' = [recv EXCEPT ![e] = rv2]
  BY <1>1 DEF Preset
<1>4. Cntl("XMT_RESET") \in Packets
  BY CntlIn DEF CntlTypes
<1>5. <<Cntl("XMT_RESET")>> \in Seq(Packets)
  BY <1>4
<1>6. /\ Flows(e, <<Cntl("XMT_RESET")>>)
  BY <1>5, StartedQuiet, HandleIs DEF Preset
<1> HIDE DEF rv2
<1>7. QED
  BY <1>2, <1>3, <1>6, CountersIn, StepsAsks DEF Preset

LEMMA KeepsRecvREQ_RESET ==
  ASSUME Typed, EndsRight, NEW e \in Ends, RecvREQ_RESET(e)
  PROVE  Keeps
<1>1. wire[e] # <<>> /\ UNCHANGED <<pktq, xmit, freed, epoch, got, losses, resets>>
  BY DEF RecvREQ_RESET, Arrives, UnchangedTransmitter
<1>2. CASE Handle(e, <<>>) /\ UNCHANGED <<recv, crossed>>
  <2>1. /\ Flows(e, <<>>)
    BY <1>1, <1>2, EmptyIn, HandleIs
  <2>2. QED
    BY <1>1, <1>2, <2>1, EmptyIn, CountersIn, StepsQuiet
<1>3. CASE Preset(e)
  BY <1>1, <1>3, KeepsPreset
<1>4. QED
  BY <1>2, <1>3 DEF RecvREQ_RESET

(* A transmitter that has done a.                                           *)
LEMMA StepsSends ==
  ASSUME Typed, EndsRight, NEW e \in Ends, NEW a \in Doings,
         DoneRight(a, freed[e], xmit[e].n, epoch[e]), xmit[e].state # "RESET",
         Flows(e, a.out),
         xmit' = [xmit EXCEPT ![e] = a.x], freed' = [freed EXCEPT ![e] = a.freed],
         UNCHANGED <<epoch, recv, got, crossed, losses, resets>>,
         NEW t, t = Peer(e),
         PairOf(t) /\ Linked(flow[t], recv[t]) =>
           /\ a.freed <= Had(recv[t], got[t]) /\ MarksRight(recv[t], got[t], a.x, epoch[e])
           /\ \A p \in Elems(flow'[e]) : /\ IsAck(p) => a.freed <= p.data.n
                                         /\ p.type = "NAK" => a.freed < p.data.n
  PROVE  Keeps
<1>1. /\ xmit[e] \in XmitRecords /\ freed[e] \in Nat /\ epoch[e] \in Nat /\ recv[e] \in RecvRecords
      /\ got[e] \in Seq(Datum) /\ t \in Ends /\ EndRight(e) /\ Peer(t) = e
      /\ recv[t] \in RecvRecords /\ got[t] \in Seq(Datum)
      /\ flow[e] \in Seq(Packets) /\ flow[t] \in Seq(Packets) /\ flow'[e] \in Seq(Packets)
  <2>1. flow' \in [Ends -> Seq(Packets)]
    BY DEF Flows
  <2>2. QED
    BY <2>1, EndTypes DEF EndsRight
<1>2. a.x \in XmitRecords /\ a.out \in Seq(Packets) /\ a.freed \in Nat
  BY DoingFields
<1>3. Steps(e, a.out, a.x, a.freed, epoch[e], recv[e], got[e])
  BY <1>1, <1>2, StepsBy, SameParts, CountersIn
<1>4. WindowOf(a.x, a.freed, epoch[e]) /\ epoch[e] <= epoch[e]
  BY <1>1 DEF DoneRight
<1>5. \A p \in Elems(a.out) : DataOf(p, epoch[e], freed[e], a.x.n)
  BY DEF DoneRight
<1>6. ASSUME NEW p \in Elems(a.out)
      PROVE  p.type = "DATA" /\ p.data.n > 0 /\ p.data.ep <= epoch[e] /\ p.seq = Number(p.data.n - 1)
  <2>1. p.type = "DATA" /\ p.data.ep = epoch[e] /\ freed[e] < p.data.n /\ p.seq = Number(p.data.n - 1)
    BY <1>5 DEF DataOf
  <2>2. p.data.n \in Nat
    BY <1>2, ElemsPackets
  <2> DEFINE n == p.data.n
  <2>3. n \in Nat /\ freed[e] < n
    BY <2>1, <2>2
  <2> HIDE DEF n
  <2>4. n > 0
    BY <1>1, <2>3
  <2>5. QED
    BY <1>1, <2>1, <2>4 DEF n
<1>7. \A p \in Elems(a.out) : p.type \notin BTypes
  BY <1>6 DEF BTypes
<1>8. PairOf(e) => Pair(flow'[e], flow'[t], recv[e], got[e], xmit[t], freed[t], epoch[t])
  BY <1>3, <1>7, QuietReceiver
<1>9. ASSUME t \notin crossed', PairOf(t)
      PROVE  Pair(flow'[t], flow'[e], recv[t], got[t], a.x, a.freed, epoch[e])
  <2>1. Pair(flow[t], flow[e], recv[t], got[t], xmit[e], freed[e], epoch[e])
    BY <1>1, <1>9 DEF PairOf
  <2>9. Moved(flow'[e], flow[e], <<>>) /\ Silent(flow[e], recv[t])
    BY <2>1 DEF Pair, Flows
  <2>2. KeepsReset(flow'[e], flow[e])
    BY <2>9, EmptyIn, MovedKeeps
  <2>3. Shrinks(flow'[e], flow[e], BTypes)
    <3>1. Grows(flow'[e], flow[e], BTypes, <<>>)
      BY <2>9 DEF Moved
    <3>2. QED
      BY <3>1, EmptyIn, GrowsShrinks
  <2>4. Shrinks(flow[t], flow[t], DTypes)
    BY ShrinksSame
  <2>5. Pair(flow[t], flow'[e], recv[t], got[t], xmit[e], freed[e], epoch[e])
    BY <2>1, <2>2, <2>3, <2>4, PairShrinks
  <2>6. Grows(flow'[t], flow[t], DTypes, a.out)
    BY <1>9 DEF Flows
  <2>7. WindowOf(xmit[e], freed[e], epoch[e])
    BY <1>1 DEF EndRight
  <2>8. QED
    BY <1>1, <1>9, <2>5, <2>6, <2>7, PairSends
<1>10. \A p \in Elems(a.out) : p.type = "DATA" => p.data.n > 0 /\ p.data.ep <= epoch[e] /\ p.seq = Number(p.data.n - 1)
  BY <1>6
<1>11. QED
  BY <1>1, <1>3, <1>4, <1>8, <1>9, <1>10, StepsKeep

LEMMA KeepsSend ==
  ASSUME Typed, EndsRight, NEW e \in Ends, Send(e)
  PROVE  Keeps
<1> DEFINE t == Peer(e)
           f == freed[e]
<1>1. /\ xmit[e] \in XmitRecords /\ f \in Nat /\ t \in Ends /\ EndRight(e) /\ Peer(t) = e
      /\ got[t] \in Seq(Datum) /\ flow[e] \in Seq(Packets)
  BY EndTypes DEF EndsRight
<1>2. PICK a : Sent(e, a) /\ xmit' = [xmit EXCEPT ![e] = a.x] /\ Queue(e, a.out)
  BY <1>1, SendStep
<1>3. xmit[e].state # "RESET" /\ UNCHANGED <<wire, freed, epoch, recv, got, crossed, losses, resets>>
  BY DEF Send, Ready, UnchangedReceiver, Counters
<1>4. a \in Doings /\ DoneRight(a, f, xmit[e].n, epoch[e]) /\ NakOf(a.x, xmit[e]) /\ a.freed = f
  <2>1. Doing(e).x = xmit[e]
    BY <1>1, <1>3, DoingRight
  <2>2. QED
    BY <1>2, <2>1 DEF Sent, Kept
<1>5. /\ Flows(e, a.out) /\ flow'[e] = flow[e]
  <2>1. a.out \in Seq(Packets) /\ \A p \in Elems(a.out) : p.type = "DATA"
    BY <1>4, DoingFields DEF DoneRight, DataOf
  <2>2. QED
    BY <1>2, <1>3, <2>1, QueueIs
<1>6. freed' = [freed EXCEPT ![e] = a.freed]
  BY <1>3, <1>4, SameParts
<1>7. ASSUME PairOf(t), Linked(flow[t], recv[t])
      PROVE  /\ a.freed <= Had(recv[t], got[t]) /\ MarksRight(recv[t], got[t], a.x, epoch[e])
             /\ \A p \in Elems(flow'[e]) : /\ IsAck(p) => a.freed <= p.data.n
                                           /\ p.type = "NAK" => a.freed < p.data.n
  <2>1. WindowRight(flow[t], flow[e], recv[t], got[t], xmit[e], f, epoch[e])
    BY <1>1, <1>7 DEF PairOf, Pair
  <2>2. /\ f <= Had(recv[t], got[t]) /\ MarksRight(recv[t], got[t], xmit[e], epoch[e])
        /\ \A p \in Elems(flow[e]) : /\ IsAck(p) => f <= p.data.n
                                     /\ p.type = "NAK" => f < p.data.n
    BY <1>3, <1>7, <2>1 DEF WindowRight, AckRight, NakRight
  <2>3. MarksRight(recv[t], got[t], a.x, epoch[e])
    BY <1>4, <2>2 DEF MarksRight, NakOf
  <2>4. QED
    BY <1>4, <1>5, <2>2, <2>3
<1> HIDE DEF t
<1>8. t = Peer(e)
  BY DEF t
<1>9. QED
  BY <1>3, <1>4, <1>5, <1>2, <1>6, <1>7, <1>8, StepsSends

(* Done, for a handler that got a packet.                                   *)
LEMMA DoneIs ==
  ASSUME Typed, NEW e \in Ends, wire[e] # <<>>, NEW a \in Doings, Done(e, a),
         \A p \in Elems(a.out) : p.type = "DATA"
  PROVE  /\ Flows(e, a.out) /\ flow'[e] = Tail(flow[e])
         /\ xmit' = [xmit EXCEPT ![e] = a.x] /\ freed' = [freed EXCEPT ![e] = a.freed]
         /\ UNCHANGED <<epoch, recv, got, crossed, losses, resets>>
<1>1. a.out \in Seq(Packets) /\ Handle(e, <<>>) /\ Queue(e, a.out)
  BY DoingFields DEF Done
<1>2. wire' # wire
  <2>1. wire' = [wire EXCEPT ![e] = Tail(wire[e]), ![Peer(e)] = @ \o <<>>] /\ wire \in [Ends -> Seq(Packets)]
    BY <1>1 DEF Handle, Typed
  <2>2. wire'[e] = Tail(wire[e]) /\ wire[e] \in Seq(Packets)
    BY <2>1, EndTypes
  <2>3. Len(wire[e]) \in Nat /\ Len(Tail(wire[e])) = Len(wire[e]) - 1
    BY <2>2, LenProperties, HeadTailProperties
  <2>4. Len(wire[e]) # Len(wire[e]) - 1
    BY <2>3
  <2>5. QED
    BY <2>2, <2>3, <2>4
<1>3. Flows(e, a.out) /\ flow'[e] = Tail(flow[e])
  BY <1>1, <1>2, QueueIs
<1>4. QED
  BY <1>3 DEF Done, UnchangedReceiver, Counters

LEMMA KeepsIgnored ==
  ASSUME Typed, EndsRight, NEW e \in Ends, wire[e] # <<>>, Done(e, Doing(e))
  PROVE  Keeps
<1>1. xmit[e] \in XmitRecords /\ freed[e] \in Nat
  BY EndTypes
<1>2. /\ Doing(e) \in Doings /\ Doing(e).x = xmit[e] /\ Doing(e).freed = freed[e]
      /\ Doing(e).out = <<>>
  BY <1>1, EmptyIn DEF Doing, Doings
<1>3. /\ Flows(e, <<>>)
      /\ UNCHANGED <<xmit, freed, epoch, recv, got, crossed, losses, resets>>
  <2>1. \A p \in Elems(Doing(e).out) : p.type = "DATA"
    BY <1>2, EmptyIn
  <2>2. QED
    BY <1>2, <2>1, DoneIs, SameParts
<1>4. QED
  BY <1>3, EmptyIn, CountersIn, StepsQuiet

LEMMA KeepsAcked ==
  ASSUME Typed, EndsRight, NEW e \in Ends, wire[e] # <<>>, IsAck(Head(wire[e])), xmit[e].state # "RESET",
         NEW a, Acked(e, a, Head(wire[e]).seq), Done(e, a)
  PROVE  Keeps
<1> DEFINE t == Peer(e)
           f == freed[e]
           p == Head(flow[e])
           A == p.data.n
           h == Had(recv[t], got[t])
<1>1. /\ xmit[e] \in XmitRecords /\ f \in Nat /\ t \in Ends /\ EndRight(e) /\ Peer(t) = e
      /\ recv[t] \in RecvRecords /\ got[t] \in Seq(Datum) /\ flow[e] \in Seq(Packets) /\ h \in Nat
  BY EndTypes, HadIn DEF EndsRight
<1>2. a \in Doings /\ DoneRight(a, f, xmit[e].n, epoch[e]) /\ NakOf(a.x, xmit[e]) /\ a.freed \in Nat
  <2>1. Doing(e).x = xmit[e]
    BY <1>1, DoingRight
  <2>2. a \in Doings
    BY DEF Acked, Kept
  <2>3. QED
    BY <2>1, <2>2, DoingFields DEF Acked, Kept
<1>3. /\ Flows(e, a.out) /\ flow'[e] = Tail(flow[e])
      /\ xmit' = [xmit EXCEPT ![e] = a.x] /\ freed' = [freed EXCEPT ![e] = a.freed]
      /\ UNCHANGED <<epoch, recv, got, crossed, losses, resets>>
  <2>1. \A q \in Elems(a.out) : q.type = "DATA"
    BY <1>2 DEF DoneRight, DataOf
  <2>2. QED
    BY <1>2, <2>1, DoneIs
<1>9. flow[e] # <<>> /\ p = Head(wire[e])
  BY FlowHead
<1>4. p \in Elems(flow[e]) /\ \A q \in Elems(Tail(flow[e])) : q \in Elems(flow[e]) /\ Before(flow[e], p, q)
  BY <1>1, <1>9, TailParts
<1>5. A \in Nat /\ \A q \in Elems(flow[e]) : q.data.n \in Nat
  BY <1>1, <1>4, ElemsPackets
<1>6. ASSUME PairOf(t), Linked(flow[t], recv[t])
      PROVE  /\ a.freed <= h /\ MarksRight(recv[t], got[t], a.x, epoch[e])
             /\ \A q \in Elems(flow'[e]) : /\ IsAck(q) => a.freed <= q.data.n
                                           /\ q.type = "NAK" => a.freed < q.data.n
  <2>1. WindowRight(flow[t], flow[e], recv[t], got[t], xmit[e], f, epoch[e])
    BY <1>1, <1>6 DEF PairOf, Pair
  <2>2. /\ MarksRight(recv[t], got[t], xmit[e], epoch[e])
        /\ AckRight(p, recv[t], got[t], f)
        /\ \A q \in Elems(flow[e]) : Before(flow[e], p, q) =>
             /\ IsAck(q) => A <= q.data.n
             /\ q.type = "NAK" => A < q.data.n
    BY <1>4, <1>6, <1>9, <2>1 DEF WindowRight
  <2>3. f <= A /\ A <= h /\ p.seq = Number(A + SEQMOD - 1)
    BY <2>2 DEF AckRight
  <2> HIDE DEF A, h
  <2>4. a.freed <= A
    BY <1>5, <1>9, <2>3 DEF Acked
  <2>5. MarksRight(recv[t], got[t], a.x, epoch[e])
    BY <1>2, <2>2 DEF MarksRight, NakOf
  <2>6. ASSUME NEW q \in Elems(flow'[e])
        PROVE  /\ IsAck(q) => a.freed <= q.data.n
               /\ q.type = "NAK" => a.freed < q.data.n
    <3> DEFINE m == q.data.n
    <3>1. m \in Nat /\ (IsAck(q) => A <= m) /\ (q.type = "NAK" => A < m)
      BY <1>3, <1>4, <1>5, <2>2
    <3> HIDE DEF m
    <3>2. (IsAck(q) => a.freed <= m) /\ (q.type = "NAK" => a.freed < m)
      BY <1>2, <1>5, <2>4, <3>1
    <3>3. QED
      BY <3>2 DEF m
  <2>7. a.freed <= h
    BY <1>1, <1>2, <1>5, <2>3, <2>4
  <2>8. QED
    BY <2>5, <2>6, <2>7
<1> HIDE DEF t, p, A
<1>7. t = Peer(e)
  BY DEF t
<1>8. QED
  BY <1>2, <1>3, <1>6, <1>7, StepsSends DEF h

LEMMA KeepsNaked ==
  ASSUME Typed, EndsRight, NEW e \in Ends, wire[e] # <<>>, Head(wire[e]).type = "NAK", xmit[e].state # "RESET",
         NEW a, Naked(e, a, Head(wire[e]).seq), Done(e, a)
  PROVE  Keeps
<1> DEFINE t == Peer(e)
           f == freed[e]
           p == Head(flow[e])
           n == p.data.n
           x == a.x
<1>1. /\ xmit[e] \in XmitRecords /\ f \in Nat /\ t \in Ends /\ EndRight(e) /\ Peer(t) = e
      /\ recv[t] \in RecvRecords /\ got[t] \in Seq(Datum) /\ flow[e] \in Seq(Packets)
      /\ xmit[e].n \in Nat
  BY EndTypes, XmitFields DEF EndsRight
<1>2. /\ a \in Doings /\ DoneRight(a, f, xmit[e].n, epoch[e]) /\ a.freed = f
      /\ MarksOf(x, xmit[e], p.seq) /\ x \in XmitRecords /\ x.n \in Nat
  <2>1. a \in Doings
    BY DEF Naked
  <2>3. p.seq = Head(wire[e]).seq
    BY FlowHead
  <2>2. QED
    BY <2>1, <2>3, DoingFields, XmitFields DEF Naked
<1>3. /\ Flows(e, a.out) /\ flow'[e] = Tail(flow[e])
      /\ xmit' = [xmit EXCEPT ![e] = a.x] /\ freed' = [freed EXCEPT ![e] = a.freed]
      /\ UNCHANGED <<epoch, recv, got, crossed, losses, resets>>
  <2>1. \A q \in Elems(a.out) : q.type = "DATA"
    BY <1>2 DEF DoneRight, DataOf
  <2>2. QED
    BY <1>2, <2>1, DoneIs
<1>9. flow[e] # <<>> /\ p = Head(wire[e])
  BY FlowHead
<1>4. p \in Elems(flow[e]) /\ \A q \in Elems(Tail(flow[e])) : q \in Elems(flow[e])
  BY <1>1, <1>9, TailParts
<1>5. n \in Nat
  BY <1>1, <1>4, ElemsPackets
<1>6. ASSUME PairOf(t), Linked(flow[t], recv[t])
      PROVE  /\ a.freed <= Had(recv[t], got[t]) /\ MarksRight(recv[t], got[t], a.x, epoch[e])
             /\ \A q \in Elems(flow'[e]) : /\ IsAck(q) => a.freed <= q.data.n
                                           /\ q.type = "NAK" => a.freed < q.data.n
  <2>1. WindowRight(flow[t], flow[e], recv[t], got[t], xmit[e], f, epoch[e])
    BY <1>1, <1>6 DEF PairOf, Pair
  <2>2. /\ f <= Had(recv[t], got[t]) /\ MarksRight(recv[t], got[t], xmit[e], epoch[e])
        /\ NakRight(p, recv[t], got[t], xmit[e], f, epoch[e])
        /\ \A q \in Elems(flow[e]) : /\ IsAck(q) => f <= q.data.n
                                     /\ q.type = "NAK" => f < q.data.n
    BY <1>4, <1>6, <1>9, <2>1 DEF WindowRight, AckRight, NakRight
  <2>3. /\ f < n /\ n <= xmit[e].n /\ p.seq = Number(n - 1)
        /\ recv[t].state = "IDLE" /\ Has(recv[t], got[t], epoch[e], n)
    BY <2>2 DEF NakRight
  <2>4. WindowOf(x, f, epoch[e]) /\ xmit[e].n <= x.n /\ x.n <= f + Pnbufs
    BY <1>2 DEF DoneRight, WindowOf
  <2>5. MarksRight(recv[t], got[t], x, epoch[e])
    <3> SUFFICES ASSUME NEW k \in Slots, x.slot[k].state = "NAK"
                 PROVE  recv[t].state = "IDLE" /\ Has(recv[t], got[t], epoch[e], x.slot[k].data.n)
      BY DEF MarksRight
    <3> DEFINE m == x.slot[k].data.n
    <3>1. CASE x.slot[k] = xmit[e].slot[k]
      BY <2>2, <3>1 DEF MarksRight
    <3>2. CASE x.slot[k].seq = p.seq
      <4>1. m \in Nat /\ f < m /\ m <= x.n /\ x.slot[k].seq = Number(m - 1)
        BY <1>1, <1>2, <2>4, WindowPlace
      <4>2. SEQMOD \in Nat /\ Pnbufs \in Nat /\ Pnbufs <= SEQMOD
        BY Sizes
      <4> HIDE DEF m, n
      <4>3. m - 1 \in Nat /\ n - 1 \in Nat /\ m - 1 < (n - 1) + SEQMOD /\ n - 1 < (m - 1) + SEQMOD
        BY <1>1, <1>2, <1>5, <2>3, <2>4, <4>1, <4>2
      <4>4. m - 1 = n - 1
        BY <2>3, <3>2, <4>1, <4>3, NumberSame
      <4>5. m = n
        BY <1>5, <4>1, <4>4
      <4>6. QED
        BY <2>3, <4>5 DEF m
    <3>3. QED
      BY <1>2, <3>1, <3>2 DEF MarksOf
  <2>6. QED
    BY <1>2, <1>3, <1>4, <2>2, <2>5
<1> HIDE DEF t, p, n
<1>7. t = Peer(e)
  BY DEF t
<1>8. QED
  BY <1>2, <1>3, <1>6, <1>7, StepsSends

LEMMA KeepsAnswers ==
  ASSUME Typed, EndsRight, NEW e \in Ends, RecvACK(e) \/ RecvNAK(e) \/ RecvTIMEOUT(e)
  PROVE  Keeps
<1>1. EndRight(e)
  BY DEF EndsRight
<1>2. CASE RecvACK(e)
  <2>1. wire[e] # <<>> /\ IsAck(Head(wire[e]))
    BY <1>2 DEF RecvACK, Arrives, IsAck
  <2>2. CASE xmit[e].state = "RESET"
    <3>1. Done(e, Doing(e))
      BY <1>2, <2>2 DEF RecvACK
    <3>2. QED
      BY <2>1, <3>1, KeepsIgnored
  <2>3. CASE xmit[e].state # "RESET"
    BY <1>1, <1>2, <2>1, <2>3, AckStep, KeepsAcked
  <2>4. QED
    BY <2>2, <2>3
<1>3. CASE RecvNAK(e)
  <2>1. wire[e] # <<>> /\ Head(wire[e]).type = "NAK"
    BY <1>3 DEF RecvNAK, Arrives
  <2>2. CASE xmit[e].state = "RESET"
    <3>1. Done(e, Doing(e))
      BY <1>3, <2>2 DEF RecvNAK
    <3>2. QED
      BY <2>1, <3>1, KeepsIgnored
  <2>3. CASE xmit[e].state # "RESET"
    BY <1>1, <1>3, <2>1, <2>3, NakStepRight, KeepsNaked
  <2>4. QED
    BY <2>2, <2>3
<1>4. CASE RecvTIMEOUT(e)
  <2>1. wire[e] # <<>> /\ IsAck(Head(wire[e])) /\ xmit[e].state # "RESET"
    BY <1>4 DEF RecvTIMEOUT, Arrives, IsAck
  <2>2. QED
    BY <1>1, <1>4, <2>1, TimeoutStep, KeepsAcked
<1>5. QED
  BY <1>2, <1>3, <1>4

(* The receiver tells what it has given.                                    *)
LEMMA TellsIn ==
  ASSUME NEW r \in RecvRecords, NEW g \in Seq(Datum), NEW ty \in {"ACK", "TIMEOUT"},
         NEW out, out = <<Reply(ty, Back(r.next, 1), Len(g))>>
  PROVE  /\ out \in Seq(Packets) /\ \A p, q : ~Before(out, p, q)
         /\ \A p \in Elems(out) : IsAck(p) /\ p.data.n = Len(g)
         /\ r.next = Number(Len(g)) => \A p \in Elems(out) : p.seq = Number(Len(g) + SEQMOD - 1)
<1> DEFINE p == Reply(ty, Back(r.next, 1), Len(g))
<1>1. ty \in PacketTypes /\ Len(g) \in Nat /\ r.next \in 0 .. SEQMOD - 1
  BY LenProperties DEF PacketTypes, CntlTypes, RecvRecords
<1>2. SEQMOD \in Nat /\ SEQMOD >= 2 /\ 1 \in 0 .. SEQMOD
  BY Sizes
<1>3. Back(r.next, 1) \in 0 .. SEQMOD - 1
  BY <1>1, <1>2, BackIn
<1>4. p \in Packets /\ p.type = ty /\ p.seq = Back(r.next, 1) /\ p.data.n = Len(g)
  BY <1>1, <1>3, ReplyIn
<1>5. out = <<p>>
  OBVIOUS
<1> HIDE DEF p
<1>6. out \in Seq(Packets) /\ Elems(out) = {p} /\ \A q, q2 : ~Before(out, q, q2)
  BY <1>4, <1>5, ShortParts
<1>7. ASSUME r.next = Number(Len(g)) PROVE p.seq = Number(Len(g) + SEQMOD - 1)
  <2> DEFINE L == Len(g)
  <2>1. L \in Nat /\ r.next = Number(L) /\ p.seq = Back(r.next, 1)
    BY <1>1, <1>4, <1>7
  <2> HIDE DEF L
  <2>2. Back(Number(L), 1) = Number(L + (SEQMOD - 1)) /\ L + (SEQMOD - 1) = L + SEQMOD - 1
    BY <1>2, <2>1, NumberBack
  <2>3. p.seq = Number(L + SEQMOD - 1)
    BY <2>1, <2>2
  <2>4. QED
    BY <2>3 DEF L
<1>8. QED
  BY <1>4, <1>6, <1>7 DEF IsAck

LEMMA StepsTells ==
  ASSUME Typed, EndsRight, NEW e \in Ends, NEW ty \in {"ACK", "TIMEOUT"}, recv[e].state # "RESET",
         NEW out, out = <<Reply(ty, Back(recv[e].next, 1), Len(got[e]))>>,
         Flows(e, out),
         UNCHANGED <<xmit, freed, epoch, recv, got, crossed, losses, resets>>
  PROVE  Keeps
<1> DEFINE t == Peer(e)
<1>1. /\ xmit[e] \in XmitRecords /\ freed[e] \in Nat /\ epoch[e] \in Nat /\ recv[e] \in RecvRecords
      /\ got[e] \in Seq(Datum) /\ t \in Ends /\ EndRight(e)
      /\ flow[e] \in Seq(Packets) /\ flow[t] \in Seq(Packets)
      /\ xmit[t] \in XmitRecords /\ freed[t] \in Nat
  BY EndTypes DEF EndsRight
<1>2. /\ out \in Seq(Packets) /\ \A p, q : ~Before(out, p, q)
      /\ \A p \in Elems(out) : IsAck(p) /\ p.data.n = Len(got[e])
      /\ recv[e].next = Number(Len(got[e])) => \A p \in Elems(out) : p.seq = Number(Len(got[e]) + SEQMOD - 1)
  BY <1>1, TellsIn
<1>3. Steps(e, out, xmit[e], freed[e], epoch[e], recv[e], got[e])
  BY <1>1, <1>2, StepsBy, SameParts, CountersIn
<1>4. WindowOf(xmit[e], freed[e], epoch[e]) /\ epoch[e] <= epoch[e]
  BY <1>1 DEF EndRight
<1>5. \A p \in Elems(out) : p.type # "DATA" /\ p.type \notin DTypes
  BY <1>2 DEF DTypes, IsAck
<1>6. ASSUME PairOf(e)
      PROVE  Pair(flow'[e], flow'[t], recv[e], got[e], xmit[t], freed[t], epoch[t])
  <2>1. Pair(flow[e], flow[t], recv[e], got[e], xmit[t], freed[t], epoch[t])
    BY <1>6 DEF PairOf
  <2>2. recv[e].state = "IDLE"
    BY <1>1 DEF RecvRecords
  <2>3. recv[e].next = Number(Len(got[e]))
    BY <2>1, <2>2 DEF Pair, HeldRight
  <2>4. Shrinks(flow'[e], flow[e], DTypes) /\ Grows(flow'[t], flow[t], BTypes, out)
    BY DEF Flows, Moved
  <2>5. \A p \in Elems(out) : /\ IsAck(p) /\ p.data.n = Len(got[e])
                              /\ p.seq = Number(Len(got[e]) + SEQMOD - 1)
    BY <1>2, <2>3
  <2>6. QED
    BY <1>1, <1>2, <2>1, <2>2, <2>4, <2>5, PairAcks
<1>7. t \notin crossed' /\ PairOf(t) => Pair(flow'[t], flow'[e], recv[t], got[t], xmit[e], freed[e], epoch[e])
  BY <1>3, <1>5, QuietTransmitter
<1> HIDE DEF t
<1>8. t = Peer(e)
  BY DEF t
<1>9. QED
  BY <1>1, <1>3, <1>4, <1>5, <1>6, <1>7, <1>8, StepsKeep

LEMMA KeepsTells ==
  ASSUME Typed, EndsRight, NEW e \in Ends, RetriedData(e) \/ SendTIMEOUT(e)
  PROVE  Keeps
<1>1. recv[e].state # "RESET" /\ UNCHANGED <<pktq, xmit, freed, epoch, recv, got, crossed, losses, resets>>
  BY DEF RetriedData, SendTIMEOUT, RecvData, UnchangedReceiver, UnchangedTransmitter, Counters
<1>2. recv[e] \in RecvRecords /\ got[e] \in Seq(Datum)
  BY EndTypes
<1>3. CASE RetriedData(e)
  <2> DEFINE out == <<Reply("ACK", Back(recv[e].next, 1), Len(got[e]))>>
  <2>1. /\ wire[e] # <<>> /\ Handle(e, out) /\ out \in Seq(Packets)
        /\ \A p \in Elems(out) : p.type # "DATA" /\ p.type \notin DTypes
    BY <1>2, <1>3, TellsIn DEF RetriedData, RecvData, Arrives, IsAck, DTypes
  <2>2. out = <<Reply("ACK", Back(recv[e].next, 1), Len(got[e]))>>
    OBVIOUS
  <2> HIDE DEF out
  <2>3. /\ Flows(e, out)
    BY <1>1, <2>1, HandleIs
  <2>4. QED
    BY <1>1, <2>2, <2>3, StepsTells
<1>4. CASE SendTIMEOUT(e)
  <2> DEFINE out == <<Reply("TIMEOUT", Back(recv[e].next, 1), Len(got[e]))>>
  <2>1. /\ Emit(e, out) /\ out \in Seq(Packets)
        /\ \A p \in Elems(out) : p.type # "DATA" /\ p.type \notin DTypes
    <3>1. "TIMEOUT" \in {"ACK", "TIMEOUT"} /\ out = <<Reply("TIMEOUT", Back(recv[e].next, 1), Len(got[e]))>>
      OBVIOUS
    <3>2. Emit(e, out)
      BY <1>4 DEF SendTIMEOUT
    <3> HIDE DEF out
    <3>3. out \in Seq(Packets) /\ \A p \in Elems(out) : IsAck(p)
      BY <1>2, <3>1, TellsIn
    <3>4. QED
      BY <3>2, <3>3 DEF IsAck, DTypes
  <2>2. out = <<Reply("TIMEOUT", Back(recv[e].next, 1), Len(got[e]))>>
    OBVIOUS
  <2> HIDE DEF out
  <2>3. /\ Flows(e, out)
    BY <1>1, <2>1, EmitIs
  <2>4. QED
    BY <1>1, <2>2, <2>3, StepsTells
<1>5. QED
  BY <1>3, <1>4

LEMMA KeepsNextData ==
  ASSUME Typed, EndsRight, NEW e \in Ends, NextData(e)
  PROVE  Keeps
<1> DEFINE t == Peer(e)
           p == Head(wire[e])
           c == Accept(e, p)
           out == <<Reply("ACK", Back(c.r.next, 1), Len(c.got))>>
<1>1. /\ xmit[e] \in XmitRecords /\ freed[e] \in Nat /\ epoch[e] \in Nat /\ recv[e] \in RecvRecords
      /\ got[e] \in Seq(Datum) /\ t \in Ends /\ EndRight(e) /\ EndRight(t) /\ Peer(t) = e
      /\ flow[e] \in Seq(Packets) /\ flow[t] \in Seq(Packets)
      /\ xmit[t] \in XmitRecords /\ freed[t] \in Nat /\ epoch[t] \in Nat
  BY EndTypes DEF EndsRight
<1>2. Arrives(e, "DATA") /\ recv[e].state = "IDLE" /\ p.seq = recv[e].next
  BY <1>1 DEF NextData, RecvData, RecvRecords
<1>3. flow[e] # <<>> /\ p.type = "DATA" /\ p \in Packets /\ p \in Elems(flow[e])
      /\ wire[e] # <<>> /\ Head(flow[e]) = p
  BY <1>2, ArrivesIs
<1>4. c \in Deliveries
  <2>1. PICK w : AcceptWalk(w, e, p)
    BY <1>1, <1>3, AcceptIs
  <2>2. NPKTBUFS - 1 \in 0 .. NPKTBUFS - 1
    BY Sizes
  <2>3. QED
    BY <2>1, <2>2 DEF AcceptWalk
<1>5. /\ recv' = [recv EXCEPT ![e] = c.r] /\ got' = [got EXCEPT ![e] = c.got] /\ Handle(e, out)
      /\ UNCHANGED <<pktq, xmit, freed, epoch, crossed, losses, resets>>
  BY DEF NextData, RecvData, UnchangedTransmitter
<1>6. c.r \in RecvRecords /\ c.got \in Seq(Datum)
  BY <1>4 DEF Deliveries
<1> HIDE DEF c
<1>7. /\ out \in Seq(Packets) /\ \A q, q2 : ~Before(out, q, q2)
      /\ \A q \in Elems(out) : IsAck(q) /\ q.data.n = Len(c.got)
      /\ c.r.next = Number(Len(c.got)) => \A q \in Elems(out) : q.seq = Number(Len(c.got) + SEQMOD - 1)
  BY <1>6, TellsIn
<1> HIDE DEF out
<1>11. \A q \in Elems(out) : q.type # "DATA" /\ q.type \notin DTypes
  BY <1>7 DEF DTypes, IsAck
<1>8. /\ Flows(e, out) /\ flow'[e] = Tail(flow[e])
  BY <1>3, <1>5, <1>7, <1>11, HandleIs
<1>9. Steps(e, out, xmit[e], freed[e], epoch[e], c.r, c.got)
  BY <1>1, <1>5, <1>6, <1>7, <1>8, StepsBy, SameParts, CountersIn
<1>10. WindowOf(xmit[e], freed[e], epoch[e]) /\ epoch[e] <= epoch[e]
  BY <1>1 DEF EndRight
<1>12. ASSUME Pnbufs <= 3, PairOf(e)
       PROVE  Pair(flow'[e], flow'[t], c.r, c.got, xmit[t], freed[t], epoch[t])
  <2>1. Pair(flow[e], flow[t], recv[e], got[e], xmit[t], freed[t], epoch[t])
    BY <1>12 DEF PairOf
  <2>2. DataRight(flow[e], epoch[t])
    BY <1>1 DEF EndRight
  <2>3. Placed(p, recv[e], got[e], xmit[t], epoch[t])
    BY <1>1, <1>2, <1>3, <2>1, <2>2, DataPlaced
  <2>4. p.data.n = Len(got[e]) + 1 /\ p.data.ep = epoch[t]
    BY <1>1, <1>2, <2>3, PlacedMeans DEF Placed
  <2>5. Taken(recv[e], got[e], c, epoch[t])
    <3>1. HeldRight(recv[e], got[e], xmit[t], epoch[t]) /\ DeliveredRight(recv[e], got[e], epoch[t])
      BY <2>1 DEF Pair
    <3>2. QED
      BY <1>1, <1>2, <1>3, <1>12, <2>4, <3>1, AcceptTakes DEF c
  <2>6. Pair(Tail(flow[e]), flow[t], c.r, c.got, xmit[t], freed[t], epoch[t])
    BY <1>1, <1>2, <1>3, <2>1, <2>2, <2>4, <2>5, PairTakes
  <2>7. c.r.state = "IDLE" /\ c.r.next = Number(Len(c.got))
    BY <2>5 DEF Taken, GivenUpTo
  <2>8. Shrinks(flow'[e], Tail(flow[e]), DTypes) /\ Grows(flow'[t], flow[t], BTypes, out)
    BY <1>8, ShrinksSame DEF Flows, Moved
  <2>9. \A q \in Elems(out) : /\ IsAck(q) /\ q.data.n = Len(c.got)
                              /\ q.seq = Number(Len(c.got) + SEQMOD - 1)
    BY <1>7, <2>7
  <2>10. QED
    BY <1>1, <1>6, <1>7, <2>6, <2>7, <2>8, <2>9, PairAcks
<1>13. t \notin crossed' /\ PairOf(t) => Pair(flow'[t], flow'[e], recv[t], got[t], xmit[e], freed[e], epoch[e])
  BY <1>9, <1>11, QuietTransmitter
<1> HIDE DEF t
<1>14. t = Peer(e)
  BY DEF t
<1>15. QED
  BY <1>1, <1>9, <1>10, <1>11, <1>12, <1>13, <1>14, StepsKeep

LEMMA KeepsSkippedData ==
  ASSUME Typed, EndsRight, NEW e \in Ends, SkippedData(e)
  PROVE  Keeps
<1> DEFINE t == Peer(e)
           p == Head(wire[e])
           rv2 == Hold(recv[e], p)
           out == <<Reply("NAK", p.seq, p.data.n)>>
<1>1. /\ xmit[e] \in XmitRecords /\ freed[e] \in Nat /\ epoch[e] \in Nat /\ recv[e] \in RecvRecords
      /\ got[e] \in Seq(Datum) /\ t \in Ends /\ EndRight(e) /\ EndRight(t) /\ Peer(t) = e
      /\ flow[e] \in Seq(Packets) /\ flow[t] \in Seq(Packets)
      /\ xmit[t] \in XmitRecords /\ freed[t] \in Nat /\ epoch[t] \in Nat
  BY EndTypes DEF EndsRight
<1>2. /\ Arrives(e, "DATA") /\ recv[e].state = "IDLE" /\ p.seq # recv[e].next /\ ~Retry(recv[e], p.seq)
      /\ UNCHANGED <<pktq, xmit, freed, epoch, got, losses, resets>>
  BY <1>1 DEF SkippedData, RecvData, RecvRecords, UnchangedTransmitter
<1>3. flow[e] # <<>> /\ p.type = "DATA" /\ p \in Packets /\ p \in Elems(flow[e])
      /\ wire[e] # <<>> /\ Head(flow[e]) = p
  BY <1>2, ArrivesIs
<1>4. CASE SlotsFor(recv[e], p.seq) = {}
  <2>1. Preset(e)
    BY <1>4 DEF SkippedData
  <2>2. QED
    BY <1>2, <1>3, <2>1, KeepsPreset
<1>5. CASE SlotsFor(recv[e], p.seq) # {}
  <2>1. recv' = [recv EXCEPT ![e] = rv2] /\ Handle(e, out) /\ UNCHANGED crossed
    BY <1>5 DEF SkippedData
  <2>2. Min(SlotsFor(recv[e], p.seq)) \in HeldSlots
    <3>1. SlotsFor(recv[e], p.seq) \subseteq HeldSlots /\ HeldSlots \subseteq Nat
      BY DEF SlotsFor, HeldSlots
    <3>2. QED
      BY <1>5, <3>1, MinIsLeast
  <2>3. rv2 \in RecvRecords
    BY <1>1, <1>3, <2>2, HoldIs
  <2>4. /\ out \in Seq(Packets) /\ \A q, q2 : ~Before(out, q, q2)
        /\ \A q \in Elems(out) : q.type = "NAK" /\ q.data.n = p.data.n /\ q.seq = p.seq
    <3>1. "NAK" \in PacketTypes /\ p.seq \in 0 .. SEQMOD - 1 /\ p.data.n \in Nat
      BY <1>3, PacketFields DEF PacketTypes
    <3> DEFINE q == Reply("NAK", p.seq, p.data.n)
    <3>2. q \in Packets /\ q.type = "NAK" /\ q.data.n = p.data.n /\ q.seq = p.seq /\ out = <<q>>
      BY <3>1, ReplyIn
    <3> HIDE DEF q
    <3>3. QED
      BY <3>2, ShortParts
  <2> HIDE DEF out
  <2>8. \A q \in Elems(out) : q.type # "DATA" /\ q.type \notin DTypes
    BY <2>4 DEF DTypes
  <2>5. /\ Flows(e, out) /\ flow'[e] = Tail(flow[e])
    BY <1>2, <1>3, <2>1, <2>4, <2>8, HandleIs
  <2>6. Steps(e, out, xmit[e], freed[e], epoch[e], rv2, got[e])
    <3> HIDE DEF rv2
    <3> QED
      BY <1>1, <1>2, <2>1, <2>3, <2>4, <2>5, StepsBy, SameParts, CountersIn
  <2>7. WindowOf(xmit[e], freed[e], epoch[e]) /\ epoch[e] <= epoch[e]
    BY <1>1 DEF EndRight
  <2>9. ASSUME Pnbufs <= 3, PairOf(e)
        PROVE  Pair(flow'[e], flow'[t], rv2, got[e], xmit[t], freed[t], epoch[t])
    <3>1. Pair(flow[e], flow[t], recv[e], got[e], xmit[t], freed[t], epoch[t])
      BY <2>9 DEF PairOf
    <3>2. DataRight(flow[e], epoch[t])
      BY <1>1 DEF EndRight
    <3>3. Grows(flow'[t], flow[t], BTypes, out)
      BY <2>5 DEF Flows, Moved
    <3>4. Pair(Tail(flow[e]), flow'[t], rv2, got[e], xmit[t], freed[t], epoch[t])
      BY <1>1, <1>2, <1>3, <2>4, <2>9, <3>1, <3>2, <3>3, PairHolds
    <3>5. QED
      BY <2>5, <3>4
  <2> HIDE DEF rv2
  <2>10. t \notin crossed' /\ PairOf(t) => Pair(flow'[t], flow'[e], recv[t], got[t], xmit[e], freed[e], epoch[e])
    BY <2>6, <2>8, QuietTransmitter
  <2> HIDE DEF t
  <2>11. t = Peer(e)
    BY DEF t
  <2>12. QED
    BY <1>1, <2>6, <2>7, <2>8, <2>9, <2>10, <2>11, StepsKeep
<1>6. QED
  BY <1>4, <1>5

LEMMA KeepsRecvXMT_RESET ==
  ASSUME Typed, EndsRight, NEW e \in Ends, RecvXMT_RESET(e)
  PROVE  Keeps
<1> DEFINE t == Peer(e)
           x == xmit[e]
           slots == [p \in Slots |-> [x.slot[p] EXCEPT !.state = "NULL"]]
           y == XReset("IDLE", slots)
           p == Cntl("ACK_RESET")
           out == <<p>>
<1>1. /\ x \in XmitRecords /\ freed[e] \in Nat /\ epoch[e] \in Nat /\ recv[e] \in RecvRecords
      /\ got[e] \in Seq(Datum) /\ t \in Ends /\ EndRight(e) /\ Peer(t) = e
      /\ flow[e] \in Seq(Packets) /\ flow[t] \in Seq(Packets) /\ recv[t] \in RecvRecords
  BY EndTypes DEF EndsRight
<1>2. /\ wire[e] # <<>> /\ flow[e] # <<>> /\ Head(flow[e]).type = "XMT_RESET"
  BY ArrivesIs DEF RecvXMT_RESET
<1>3. xmit' = [xmit EXCEPT ![e] = y]
  BY DEF RecvXMT_RESET, Typed
<1>4. epoch' = [epoch EXCEPT ![e] = epoch[e] + 1]
  BY DEF RecvXMT_RESET, Typed
<1>5. freed' = [freed EXCEPT ![e] = 0] /\ UNCHANGED <<pktq, recv, got, losses, resets>> /\ Handle(e, out)
      /\ crossed' = IF pktq[e] = <<>> THEN crossed ELSE crossed \cup {t}
  BY DEF RecvXMT_RESET, UnchangedReceiver, Counters
<1>6. p \in Packets /\ p.type = "ACK_RESET"
  BY CntlIn DEF CntlTypes
<1> HIDE DEF p
<1>7. out \in Seq(Packets) /\ Elems(out) = {p} /\ \A q, q2 : ~Before(out, q, q2)
  BY <1>6, ShortParts
<1> HIDE DEF out
<1>8. /\ Flows(e, out) /\ flow'[e] = Tail(flow[e])
  <2>1. \A q \in Elems(out) : q.type # "DATA"
    BY <1>6, <1>7
  <2>2. pktq[e] = <<>> \/ t \in crossed'
    BY <1>5
  <2>3. QED
    BY <1>2, <1>5, <1>7, <2>1, <2>2, HandleIs
<1>9. slots \in [Slots -> SlotRecords] /\ \A k \in Slots : slots[k].state = "NULL"
  <2>1. \A k \in Slots : x.slot[k] \in SlotRecords
    BY <1>1, XmitFields
  <2>2. \A k \in Slots : [x.slot[k] EXCEPT !.state = "NULL"] \in SlotRecords
    BY <2>1 DEF SlotRecords
  <2>3. QED
    BY <2>1, <2>2 DEF SlotRecords
<1> HIDE DEF slots
<1>10. 0 \in Slots
  BY Sizes DEF Slots
<1>11. y \in XmitRecords /\ y.state = "IDLE" /\ y.n = 0 /\ y.nx = 0 /\ y.slot = slots
  BY <1>9, <1>10 DEF XReset, XmitRecords, SlotRecords, Datum
<1> HIDE DEF y
<1>12. Steps(e, out, y, 0, epoch[e] + 1, recv[e], got[e])
  <2>1. 0 \in Nat /\ epoch[e] + 1 \in Nat
    BY <1>1
  <2>2. recv' = [recv EXCEPT ![e] = recv[e]] /\ got' = [got EXCEPT ![e] = got[e]]
    BY <1>5, SameParts
  <2>6. crossed \subseteq crossed' /\ crossed' \subseteq Ends
    BY <1>1, <1>5 DEF Typed
  <2> DEFINE ep2 == epoch[e] + 1
  <2>3. ep2 \in Nat /\ epoch' = [epoch EXCEPT ![e] = ep2]
    BY <1>4, <2>1
  <2> HIDE DEF ep2
  <2>4. Steps(e, out, y, 0, ep2, recv[e], got[e])
    BY <1>1, <1>3, <1>5, <1>7, <1>8, <1>11, <2>1, <2>2, <2>3, <2>6, StepsBy, CountersIn
  <2>5. QED
    BY <2>4 DEF ep2
<1>13. WindowOf(y, 0, epoch[e] + 1) /\ epoch[e] <= epoch[e] + 1 /\ epoch[e] + 1 \in Nat
  <2>1. \A i \in Slots : SlotRight(y, 0, epoch[e] + 1, i)
    <3> SUFFICES ASSUME NEW i \in Slots PROVE SlotRight(y, 0, epoch[e] + 1, i)
      OBVIOUS
    <3>1. y.nx \in Slots /\ i \in Nat
      BY <1>10, <1>11 DEF Slots
    <3>2. After(y.nx, i) \in Slots
      BY <3>1, AfterIn
    <3>3. ~(i < y.n - 0)
      BY <1>11 DEF Slots
    <3>4. QED
      BY <1>9, <1>11, <3>2, <3>3 DEF SlotRight
  <2>2. 0 <= y.n /\ y.n <= 0 + Pnbufs
    BY <1>11, Sizes
  <2>3. QED
    BY <1>1, <1>11, <2>1, <2>2 DEF WindowOf
<1>14. \A q \in Elems(out) : q.type # "DATA" /\ q.type \notin BTypes /\ q.type = "ACK_RESET"
  BY <1>6, <1>7 DEF BTypes
<1>15. PairOf(e) => Pair(flow'[e], flow'[t], recv[e], got[e], xmit[t], freed[t], epoch[t])
  BY <1>12, <1>14, QuietReceiver
<1>16. ASSUME t \notin crossed', PairOf(t)
       PROVE  Pair(flow'[t], flow'[e], recv[t], got[t], y, 0, epoch[e] + 1)
  <2>1. Pair(flow[t], flow[e], recv[t], got[t], x, freed[e], epoch[e])
    BY <1>1, <1>16 DEF PairOf
  <2>2. DataRight(flow[t], epoch[e])
    BY <1>1 DEF EndRight
  <2>3. Grows(flow'[t], flow[t], DTypes, out)
    BY <1>8, <1>16 DEF Flows
  <2>4. \A k \in Slots : y.slot[k].state = "NULL"
    BY <1>9, <1>11
  <2>5. Pair(flow'[t], Tail(flow[e]), recv[t], got[t], y, 0, epoch[e] + 1)
    BY <1>1, <1>2, <1>7, <1>11, <1>14, <2>1, <2>2, <2>3, <2>4, PairAnswers
  <2>6. QED
    BY <1>8, <2>5
<1> HIDE DEF t
<1>17. t = Peer(e)
  BY DEF t
<1>18. QED
  BY <1>12, <1>13, <1>14, <1>15, <1>16, <1>17, StepsKeep

LEMMA RResetIs ==
  ASSUME NEW s \in {"IDLE", "RESET"}
  PROVE  RReset(s) \in RecvRecords /\ RReset(s).state = s
<1>1. 0 \in 0 .. SEQMOD - 1
  BY Sizes
<1>2. QED
  BY <1>1 DEF RReset, RecvRecords, NotHeld, NoData

LEMMA KeepsRecvACK_RESET ==
  ASSUME Typed, EndsRight, NEW e \in Ends, RecvACK_RESET(e)
  PROVE  Keeps
<1> DEFINE t == Peer(e)
           rv2 == RReset("IDLE")
<1>1. /\ xmit[e] \in XmitRecords /\ freed[e] \in Nat /\ epoch[e] \in Nat /\ recv[e] \in RecvRecords
      /\ got[e] \in Seq(Datum) /\ t \in Ends /\ EndRight(e)
      /\ flow[e] \in Seq(Packets) /\ flow[t] \in Seq(Packets)
  BY EndTypes DEF EndsRight
<1>2. /\ wire[e] # <<>> /\ flow[e] # <<>> /\ Head(flow[e]).type = "ACK_RESET"
      /\ Handle(e, <<>>)
  BY ArrivesIs DEF RecvACK_RESET
<1>3. /\ recv' = [recv EXCEPT ![e] = rv2] /\ got' = [got EXCEPT ![e] = <<>>]
      /\ UNCHANGED <<pktq, xmit, freed, epoch, crossed, losses, resets>>
  BY DEF RecvACK_RESET, UnchangedTransmitter, Counters
<1>4. /\ Flows(e, <<>>) /\ flow'[e] = Tail(flow[e])
  BY <1>2, <1>3, EmptyIn, HandleIs
<1>5. rv2 \in RecvRecords /\ rv2.state = "IDLE"
  BY RResetIs
<1>6. <<>> \in Seq(Datum)
  OBVIOUS
<1>7. Steps(e, <<>>, xmit[e], freed[e], epoch[e], rv2, <<>>)
  <2> HIDE DEF rv2
  <2> QED
    BY <1>1, <1>3, <1>4, <1>5, <1>6, EmptyIn, StepsBy, SameParts, CountersIn
<1>8. WindowOf(xmit[e], freed[e], epoch[e]) /\ epoch[e] <= epoch[e]
  BY <1>1 DEF EndRight
<1>9. ASSUME PairOf(e)
      PROVE  Pair(flow'[e], flow'[t], rv2, <<>>, xmit[t], freed[t], epoch[t])
  <2>1. Pair(flow[e], flow[t], recv[e], got[e], xmit[t], freed[t], epoch[t])
    BY <1>9 DEF PairOf
  <2>2. Pair(Tail(flow[e]), flow[t], rv2, <<>>, xmit[t], freed[t], epoch[t])
    BY <1>1, <1>2, <2>1, PairBegins
  <2> HIDE DEF rv2
  <2>3. Moved(flow'[t], flow[t], <<>>) /\ Silent(flow[t], rv2)
    BY <1>4, <2>2 DEF Flows, Pair
  <2>4. KeepsReset(flow'[t], flow[t]) /\ Grows(flow'[t], flow[t], BTypes, <<>>)
    BY <2>3, EmptyIn, MovedKeeps DEF Moved
  <2>5. Shrinks(flow'[t], flow[t], BTypes)
    BY <2>4, EmptyIn, GrowsShrinks
  <2>6. Shrinks(flow'[e], Tail(flow[e]), DTypes)
    BY <1>4, ShrinksSame
  <2>7. QED
    BY <2>2, <2>4, <2>5, <2>6, PairShrinks
<1> HIDE DEF rv2
<1>10. t \notin crossed' /\ PairOf(t) => Pair(flow'[t], flow'[e], recv[t], got[t], xmit[e], freed[e], epoch[e])
  BY <1>7, EmptyIn, QuietTransmitter
<1> HIDE DEF t
<1>11. t = Peer(e)
  BY DEF t
<1>12. QED
  BY <1>1, <1>7, <1>8, <1>9, <1>10, <1>11, EmptyIn, StepsKeep

(* A transmitter before its first reset has an empty window.                *)
LEMMA StartedWindow ==
  ASSUME NEW ep
  PROVE  /\ XReset("RESET", [p \in Slots |-> Empty]) \in XmitRecords
         /\ XReset("RESET", [p \in Slots |-> Empty]).state = "RESET"
         /\ WindowOf(XReset("RESET", [p \in Slots |-> Empty]), 0, ep)
<1> DEFINE slots == [p \in Slots |-> Empty]
           y == XReset("RESET", slots)
<1>1. 0 \in Slots /\ 0 \in 0 .. SEQMOD - 1
  BY Sizes DEF Slots
<1>2. slots \in [Slots -> SlotRecords] /\ \A k \in Slots : slots[k].state = "NULL"
  BY <1>1 DEF SlotRecords, Empty, NoData, Datum
<1> HIDE DEF slots
<1>3. y \in XmitRecords /\ y.state = "RESET" /\ y.n = 0 /\ y.nx = 0 /\ y.slot = slots
  BY <1>1, <1>2 DEF XReset, XmitRecords, SlotRecords, Datum
<1> HIDE DEF y
<1>4. \A i \in Slots : SlotRight(y, 0, ep, i)
  <2> SUFFICES ASSUME NEW i \in Slots PROVE SlotRight(y, 0, ep, i)
    OBVIOUS
  <2>1. y.nx \in Slots /\ i \in Nat
    BY <1>1, <1>3 DEF Slots
  <2>2. After(y.nx, i) \in Slots
    BY <2>1, AfterIn
  <2>3. ~(i < y.n - 0)
    BY <1>3 DEF Slots
  <2>4. QED
    BY <1>2, <1>3, <2>2, <2>3 DEF SlotRight
<1>5. 0 <= y.n /\ y.n <= 0 + Pnbufs
  BY <1>3, Sizes
<1>6. WindowOf(y, 0, ep)
  BY <1>3, <1>4, <1>5 DEF WindowOf
<1>7. QED
  BY <1>3, <1>6 DEF y, slots

LEMMA KeepsRestart ==
  ASSUME Typed, EndsRight, NEW e \in Ends, Restart(e)
  PROVE  Keeps
<1> DEFINE t == Peer(e)
           y == XReset("RESET", [p \in Slots |-> Empty])
           rv2 == RReset("RESET")
<1>1. /\ freed[e] \in Nat /\ epoch[e] \in Nat /\ t \in Ends /\ t # e /\ Peer(t) = e
      /\ flow[e] \in Seq(Packets) /\ flow[t] \in Seq(Packets) /\ flow \in [Ends -> Seq(Packets)]
  BY EndTypes DEF Typed
<1>2. y \in XmitRecords /\ y.state = "RESET" /\ WindowOf(y, 0, epoch[e]) /\ epoch[e] <= epoch[e]
  BY <1>1, StartedWindow
<1>3. rv2 \in RecvRecords /\ rv2.state = "RESET"
  BY RResetIs
<1>4. /\ xmit' = [xmit EXCEPT ![e] = y] /\ recv' = [recv EXCEPT ![e] = rv2]
      /\ freed' = [freed EXCEPT ![e] = 0] /\ got' = [got EXCEPT ![e] = <<>>]
      /\ Crossing(e) /\ UNCHANGED <<epoch, losses>>
  BY DEF Restart
<1>5. losses' \in 0 .. MaxLosses /\ resets' \in 0 .. MaxResets
  <2>1. losses' = losses /\ resets' = resets + 1 /\ resets < MaxResets /\ MaxResets \in Nat
    BY ProtocolAssumption DEF Restart
  <2>2. QED
    BY <2>1, CountersIn
<1>6. Flows(e, Started) /\ flow'[e] = pktq[t]
  <2> DEFINE v == wire[t] \o Started
  <2>1. /\ wire \in [Ends -> Seq(Packets)] /\ pktq \in [Ends -> Seq(DataPackets)]
        /\ wire[e] \in Seq(Packets) /\ wire[t] \in Seq(Packets)
        /\ pktq[e] \in Seq(DataPackets) /\ pktq[t] \in Seq(DataPackets)
    BY <1>1, EndTypes DEF Typed
  <2>2. v \in Seq(Packets) /\ <<>> \in Seq(DataPackets) /\ Started \in Seq(Packets)
    BY <2>1, CntlIn, ConcatParts
  <2>3. wire' = [wire EXCEPT ![e] = <<>>, ![t] = v] /\ pktq' = [pktq EXCEPT ![e] = <<>>]
    BY <1>1, <2>1 DEF Restart
  <2> HIDE DEF v
  <2>4. /\ wire' \in [Ends -> Seq(Packets)] /\ pktq' \in [Ends -> Seq(DataPackets)]
        /\ flow' \in [Ends -> Seq(Packets)]
        /\ flow'[e] = <<>> \o pktq[t] /\ flow'[t] = v \o <<>>
        /\ flow[e] = wire[e] \o pktq[t] /\ flow[t] = wire[t] \o pktq[e]
    BY <2>2, <2>3, EmptyIn, FlowIs
  <2>5. flow'[e] = pktq[t]
    BY <2>1, <2>4, DataQueue, ConcatEmptySeq
  <2>6. Moved(flow'[e], flow[e], <<>>) /\ Shrinks(flow'[e], flow[e], DTypes)
    BY <2>1, <2>4, <2>5, MovedLost
  <2>7. \A p \in Elems(Started) : p.type # "DATA" /\ p.type \notin DTypes
    BY StartedQuiet
  <2>8. Moved(flow'[t], flow[t], Started) /\ Grows(flow'[t], flow[t], DTypes, Started)
    <3>1. flow'[t] = (wire[t] \o Started) \o <<>> /\ <<>> \in {pktq[e], <<>>}
      BY <2>4 DEF v
    <3>2. QED
      BY <2>1, <2>2, <2>4, <2>7, <3>1, MovedControl
  <2>9. QED
    BY <2>4, <2>5, <2>6, <2>8 DEF Flows
<1> HIDE DEF y, rv2
<1>7. Steps(e, Started, y, 0, epoch[e], rv2, <<>>)
  <2>1. 0 \in Nat /\ <<>> \in Seq(Datum) /\ Started \in Seq(Packets)
    BY CntlIn
  <2>2. epoch' = [epoch EXCEPT ![e] = epoch[e]] /\ crossed \subseteq crossed' /\ crossed' \subseteq Ends
    BY <1>4, SameParts, CrossingIs
  <2>3. QED
    BY <1>1, <1>2, <1>3, <1>4, <1>5, <1>6, <2>1, <2>2, StepsBy
<1>8. \A p \in Elems(Started) : p.type \in {"XMT_RESET", "REQ_RESET"}
  BY CntlIn DEF CntlTypes
<1>9. e \notin crossed' /\ PairOf(e) => Pair(flow'[e], flow'[t], rv2, <<>>, xmit[t], freed[t], epoch[t])
  BY <1>3, <1>4, <1>7, AsksReset
<1>10. ASSUME t \notin crossed', PairOf(t)
       PROVE  Pair(flow'[t], flow'[e], recv[t], got[t], y, 0, epoch[e])
  <2>1. Pair(flow[t], flow[e], recv[t], got[t], xmit[e], freed[e], epoch[e])
    BY <1>1, <1>10 DEF PairOf
  <2>2. Grows(flow'[t], flow[t], DTypes, Started)
    BY <1>6, <1>10 DEF Flows
  <2>3. \A p \in Elems(Started) : p.type \notin DTypes
    BY <1>8 DEF DTypes
  <2>4. Shrinks(flow'[t], flow[t], DTypes)
    BY <2>2, <2>3, GrowsShrinks
  <2>5. \A p \in Elems(flow'[e]) : p.type \notin BTypes
    <3>1. pktq[t] \in Seq(DataPackets)
      BY <1>1, EndTypes
    <3>2. QED
      BY <1>6, <3>1, DataQueue DEF BTypes
  <2>6. QED
    BY <1>2, <2>1, <2>4, <2>5, PairRestarts
<1> HIDE DEF t
<1>11. t = Peer(e)
  BY DEF t
<1>12. \A p \in Elems(Started) : p.type # "DATA"
  BY <1>8
<1>13. QED
  BY <1>1, <1>2, <1>7, <1>9, <1>10, <1>11, <1>12, StepsKeep

(* The driver writes a packet: it stays under way.                          *)
LEMMA KeepsTransmit ==
  ASSUME Typed, EndsRight, NEW e \in Ends, Transmit(e)
  PROVE  Keeps
<1> DEFINE t == Peer(e)
           q == pktq[e]
           w == wire[t]
           v == w \o <<Head(q)>>
<1>1. /\ t \in Ends /\ t # e /\ Peer(t) = e /\ \A d \in Ends : d = e \/ d = t
      /\ wire \in [Ends -> Seq(Packets)] /\ pktq \in [Ends -> Seq(DataPackets)]
      /\ wire[e] \in Seq(Packets) /\ w \in Seq(Packets) /\ q \in Seq(DataPackets)
      /\ flow \in [Ends -> Seq(Packets)]
  BY EndTypes DEF Typed
<1>2. /\ q # <<>> /\ pktq' = [pktq EXCEPT ![e] = Tail(q)] /\ Emit(e, <<Head(q)>>)
      /\ UNCHANGED <<xmit, freed, epoch, recv, got, crossed, losses, resets>>
  BY <1>1 DEF Transmit, UnchangedReceiver, Counters
<1>3. wire' = [wire EXCEPT ![e] = wire[e], ![t] = v]
  BY <1>1, <1>2 DEF Emit
<1> HIDE DEF q, w
<1>4. /\ Head(q) \in DataPackets /\ Tail(q) \in Seq(DataPackets) /\ q = <<Head(q)>> \o Tail(q)
  <2>1. /\ Head(q) \in DataPackets /\ Tail(q) \in Seq(DataPackets) /\ Len(q) \in Nat \ {0}
        /\ Head(q) = q[1] /\ Len(Tail(q)) = Len(q) - 1 /\ \A i \in 1 .. Len(q) - 1 : Tail(q)[i] = q[i + 1]
    BY <1>1, <1>2, HeadTailProperties
  <2>2. QED
    BY <1>1, <1>2, <2>1
<1>5. Head(q) \in Packets /\ <<Head(q)>> \in Seq(Packets) /\ Tail(q) \in Seq(Packets)
  <2>1. Head(q) \in Packets
    BY <1>4 DEF DataPackets
  <2>2. Tail(q) \in Seq(Packets)
    BY <1>4, DataQueue
  <2>3. QED
    BY <2>1, <2>2
<1>6. v \in Seq(Packets) /\ v \o Tail(q) = w \o q
  <2>1. v \in Seq(Packets)
    BY <1>1, <1>5, ConcatParts
  <2> DEFINE h == <<Head(q)>>
             r == Tail(q)
  <2>2. h \in Seq(Packets) /\ r \in Seq(Packets) /\ w \in Seq(Packets) /\ q = h \o r /\ v = w \o h
    BY <1>1, <1>4, <1>5
  <2> HIDE DEF h, r, v
  <2>3. (w \o h) \o r = w \o (h \o r)
    BY <2>2, ConcatAssociative
  <2>4. v \o r = w \o q
    BY <2>2, <2>3
  <2>5. QED
    BY <2>1, <2>4 DEF r
<1> HIDE DEF v
<1>7. /\ wire' \in [Ends -> Seq(Packets)] /\ pktq' \in [Ends -> Seq(DataPackets)]
      /\ flow' \in [Ends -> Seq(Packets)]
      /\ flow'[e] = wire[e] \o pktq[t] /\ flow'[t] = v \o Tail(q)
      /\ flow[e] = wire[e] \o pktq[t] /\ flow[t] = wire[t] \o pktq[e]
  <2> DEFINE r == Tail(q)
             u == wire[e]
  <2>1. /\ r \in Seq(DataPackets) /\ pktq' = [pktq EXCEPT ![e] = r] /\ v \in Seq(Packets)
        /\ u \in Seq(Packets) /\ wire' = [wire EXCEPT ![e] = u, ![t] = v]
    BY <1>1, <1>2, <1>3, <1>4, <1>6
  <2> HIDE DEF r, u
  <2>2. /\ wire' \in [Ends -> Seq(Packets)] /\ pktq' \in [Ends -> Seq(DataPackets)]
        /\ flow' \in [Ends -> Seq(Packets)]
        /\ flow'[e] = u \o pktq[t] /\ flow'[t] = v \o r
        /\ flow[e] = wire[e] \o pktq[t] /\ flow[t] = wire[t] \o pktq[e]
    BY <2>1, FlowIs
  <2>3. QED
    BY <2>2 DEF r, u
<1>8. flow'[e] = flow[e] /\ flow'[t] = flow[t]
  BY <1>6, <1>7 DEF q, w
<1>9. flow' = flow
  <2>1. \A d \in Ends : flow'[d] = flow[d]
    BY <1>1, <1>8
  <2>2. flow' \in [Ends -> Seq(Packets)] /\ flow \in [Ends -> Seq(Packets)]
    BY <1>1, <1>7
  <2>3. QED
    BY <2>1, <2>2
<1>10. Typed'
  BY <1>2, <1>7 DEF Typed
<1>11. EndsRight'
  BY <1>2, <1>9 DEF EndsRight, EndRight
<1>12. PairsRight => PairsRight'
  BY <1>2, <1>9 DEF PairsRight, PairOf
<1>13. QED
  BY <1>10, <1>11, <1>12 DEF Keeps

LEMMA NextKeeps ==
  ASSUME Typed, EndsRight, [Next]_vars
  PROVE  Keeps
<1>1. CASE Next
  <2>1. PICK e \in Ends : Receive(e) \/ Send(e) \/ Transmit(e) \/ Ptimo(e) \/ Restart(e) \/ Lose(e)
    BY <1>1 DEF Next
  <2>2. CASE Receive(e)
    BY <2>2, KeepsDataWhileReset, KeepsNextData, KeepsTells, KeepsSkippedData, KeepsAnswers,
       KeepsTimeoutWhileReset, KeepsRecvXMT_RESET, KeepsRecvACK_RESET, KeepsRecvREQ_RESET DEF Receive
  <2>3. CASE Ptimo(e)
    BY <2>3, KeepsTimers, KeepsTells DEF Ptimo
  <2>4. QED
    BY <2>1, <2>2, <2>3, KeepsSend, KeepsTransmit, KeepsRestart, KeepsLose
<1>2. CASE UNCHANGED vars
  <2>1. UNCHANGED <<xmit, recv, pktq, wire, flow, epoch, freed, got, crossed, losses, resets>>
    BY <1>2 DEF vars, flow
  <2>2. Typed'
    BY <2>1 DEF Typed
  <2>3. EndsRight'
    BY <2>1 DEF EndsRight, EndRight
  <2>4. PairsRight => PairsRight'
    BY <2>1 DEF PairsRight, PairOf
  <2>5. QED
    BY <2>2, <2>3, <2>4 DEF Keeps
<1>3. QED
  BY <1>1, <1>2

-----------------------------------------------------------------------------
(* What is always right, and what it says of a channel: first the types and *)
(* each end alone, for any window; then both ends together, for a window of *)
(* at most three packets (four in a window of four can make a receiver hold *)
(* the same packet twice).                                                  *)
Alone == Typed /\ EndsRight
Together == Alone /\ PairsRight

LEMMA StartsRight ==
  ASSUME Init
  PROVE  Alone /\ PairsRight
<1> DEFINE y == XReset("RESET", [p \in Slots |-> Empty])
           rv == RReset("RESET")
<1>1. y \in XmitRecords /\ y.state = "RESET" /\ WindowOf(y, 0, 0)
  BY StartedWindow
<1>2. rv \in RecvRecords /\ rv.state = "RESET"
  BY RResetIs
<1>3. /\ xmit = [e \in Ends |-> y] /\ recv = [e \in Ends |-> rv]
      /\ wire = [e \in Ends |-> Started] /\ pktq = [e \in Ends |-> <<>>]
      /\ epoch = [e \in Ends |-> 0] /\ freed = [e \in Ends |-> 0] /\ got = [e \in Ends |-> <<>>]
      /\ crossed = {} /\ losses = 0 /\ resets = 0
  BY DEF Init
<1> HIDE DEF y, rv
<1>4. Started \in Seq(Packets) /\ Started \in [1 .. Len(Started) -> Packets]
  BY CntlIn
<1>5. \A e \in Ends : Peer(e) \in Ends
  BY DEF Ends, Peer
<1>12. flow = [e \in Ends |-> Started]
  <2>1. Started \o <<>> = Started
    BY <1>4, ConcatEmptySeq
  <2>2. \A e \in Ends : wire[e] \o pktq[Peer(e)] = Started
    BY <1>3, <1>5, <2>1
  <2>3. QED
    BY <2>2 DEF flow
<1>6. Typed
  <2>1. MaxLosses \in Nat /\ MaxResets \in Nat /\ <<>> \in Seq(Datum) /\ <<>> \in Seq(DataPackets)
    BY ProtocolAssumption
  <2>2. 0 \in 0 .. MaxLosses /\ 0 \in 0 .. MaxResets
    BY <2>1
  <2>3. QED
    BY <1>1, <1>2, <1>3, <1>4, <2>1, <2>2 DEF Typed
<1>7. /\ \A p \in Elems(Started) : p.type \in {"XMT_RESET", "REQ_RESET"}
      /\ \A p, q : Before(Started, p, q) => p.type = "REQ_RESET"
  BY CntlIn DEF CntlTypes
<1>8. EndsRight
  BY <1>1, <1>3, <1>5, <1>7, <1>12 DEF EndsRight, EndRight, DataRight
<1>9. Pair(Started, Started, rv, <<>>, y, 0, 0)
  <2>1. ~Reset(Started, "ACK_RESET") /\ ~Linked(Started, rv)
    BY <1>2, <1>7 DEF Reset, Linked
  <2>2. ResetsRight(Started, Started, rv)
    BY <1>2, <1>7, <2>1 DEF ResetsRight
  <2>3. Silent(Started, rv)
    BY <1>7 DEF Silent, IsReply
  <2>4. EpochsRight(Started, rv, 0)
    BY <1>2, <1>7 DEF EpochsRight
  <2>5. DeliveredRight(rv, <<>>, 0)
    BY DEF DeliveredRight
  <2>6. HeldRight(rv, <<>>, y, 0)
    BY <1>2 DEF HeldRight
  <2>7. FlightRight(Started, rv, <<>>, y, 0) /\ WindowRight(Started, Started, rv, <<>>, y, 0, 0)
    BY <2>1 DEF FlightRight, WindowRight
  <2>8. QED
    BY <2>2, <2>3, <2>4, <2>5, <2>6, <2>7 DEF Pair
<1>10. PairsRight
  BY <1>3, <1>5, <1>9, <1>12 DEF PairsRight, PairOf
<1>11. QED
  BY <1>6, <1>8, <1>10 DEF Alone

(* Each end keeps its window: the slots from the next to be acknowledged on *)
(* hold the packets after those it has freed, in order, and the sequence    *)
(* number of every packet of data is that of its place (Psend, Rack, Rnak,  *)
(* PXreset).                                                                *)
THEOREM PacketsAlone == Spec => []Alone
<1>1. Init => Alone
  BY StartsRight
<1>2. Alone /\ [Next]_vars => Alone'
  BY NextKeeps DEF Alone, Keeps
<1>3. QED
  BY <1>1, <1>2, PTL DEF Spec

(* The variables of the packet protocol keep their types.                   *)
THEOREM PacketsTypes == Spec => []PacketTypeOK
<1>1. Alone => PacketTypeOK
  <2> SUFFICES ASSUME Alone PROVE PacketTypeOK
    OBVIOUS
  <2>1. Typed
    BY DEF Alone
  <2>2. ASSUME NEW e \in Ends
        PROVE  /\ \A i \in 1 .. Len(wire[e]) : wire[e][i] \in Packets
               /\ \A i \in 1 .. Len(pktq[e]) : pktq[e][i] \in Packets
               /\ \A i \in 1 .. Len(got[e]) : got[e][i] \in [ep : Nat, n : Nat]
    <3>1. wire[e] \in Seq(Packets) /\ pktq[e] \in Seq(Packets) /\ got[e] \in Seq(Datum)
      BY <2>1, EndTypes, DataQueue
    <3>2. /\ \A S : \A s \in Seq(S) : \A i \in 1 .. Len(s) : s[i] \in S
          /\ Datum = [ep : Nat, n : Nat]
      BY DEF Datum
    <3>3. QED
      BY <3>1, <3>2
  <2>3. QED
    BY <2>1, <2>2 DEF Typed, PacketTypeOK
<1>2. QED
  BY <1>1, PacketsAlone, PTL

(* Both ends agree, where no reset has crossed another or overtaken queued  *)
(* data: what is on its way, what is held and what is acknowledged lie      *)
(* within a window of what was given.                                       *)
THEOREM PacketsTogether == ASSUME Pnbufs <= 3 PROVE Spec => []Together
<1>1. Init => Together
  BY StartsRight DEF Together
<1>2. Together /\ [Next]_vars => Together'
  <2>1. Together /\ [Next]_vars => Keeps /\ Alone /\ PairsRight
    BY NextKeeps DEF Together, Alone
  <2>2. Keeps /\ PairsRight => Alone' /\ PairsRight'
    BY DEF Keeps, Alone
  <2>3. QED
    BY <2>1, <2>2 DEF Together
<1>3. QED
  BY <1>1, <1>2, PTL DEF Spec

(* What a receiver gives to its higher level is what the other end sent     *)
(* since one reset of its transmitter: nothing is missing, out of order,    *)
(* given twice or of another epoch (Precv, Skipseq, Movenak), where no reset*)
(* has crossed another or overtaken queued data.                            *)
THEOREM PacketsInOrder == ASSUME Pnbufs <= 3 PROVE Spec => []InOrder
<1>1. Together => InOrder
  BY DEF Together, PairsRight, PairOf, Pair, DeliveredRight, InOrder
<1>2. QED
  BY <1>1, PacketsTogether, PTL

(* The other end of a transmitter whose receiver is not being reset.        *)
LEMMA OtherEnd ==
  ASSUME Together, NEW e \in Ends, Peer(e) \notin crossed, ~Resetting(e), NEW r, r = Peer(e)
  PROVE  /\ Pair(flow[r], flow[e], recv[r], got[r], xmit[e], freed[e], epoch[e])
         /\ recv[r].state = "IDLE" /\ Linked(flow[r], recv[r]) /\ Had(recv[r], got[r]) = Len(got[r])
         /\ \A n \in Nat : n <= Len(got[r]) => Given(e, n)
         /\ xmit[e] \in XmitRecords /\ freed[e] \in Nat /\ WindowOf(xmit[e], freed[e], epoch[e])
<1>1. /\ r \in Ends /\ Peer(r) = e /\ recv[r] \in RecvRecords /\ got[r] \in Seq(Datum)
      /\ xmit[e] \in XmitRecords /\ freed[e] \in Nat /\ EndRight(e)
  BY EndTypes DEF Together, Alone, EndsRight
<1>2. Pair(flow[r], flow[e], recv[r], got[r], xmit[e], freed[e], epoch[e])
  BY <1>1 DEF Together, PairsRight, PairOf
<1>3. recv[r].state = "IDLE"
  BY <1>1 DEF Resetting, RecvRecords
<1>4. ASSUME NEW n \in Nat, n <= Len(got[r]) PROVE Given(e, n)
  <2> SUFFICES ASSUME n > 0 PROVE n <= Len(got[r]) /\ got[r][1].ep = epoch[e]
    BY DEF Given
  <2>1. Len(got[r]) \in Nat
    BY <1>1, LenProperties
  <2>2. 1 \in 1 .. Len(got[r])
    BY <1>4, <2>1
  <2>3. QED
    BY <1>2, <1>3, <1>4, <2>2 DEF Pair, DeliveredRight
<1>5. QED
  BY <1>1, <1>2, <1>3, <1>4 DEF Linked, Had, EndRight

(* A transmitter lets go of a packet (Rack) only when the higher level of   *)
(* the other end has it, whatever was lost, repeated or reset; not so where *)
(* a reset has crossed another or overtaken queued data.                    *)
THEOREM PacketsFreedIsGiven == ASSUME Pnbufs <= 3 PROVE Spec => []FreedIsGiven
<1>1. Together => FreedIsGiven
  <2> SUFFICES ASSUME Together, NEW e \in Ends, Peer(e) \notin crossed, ~Resetting(e)
               PROVE  Given(e, freed[e])
    BY DEF FreedIsGiven
  <2> DEFINE r == Peer(e)
  <2>1. /\ Pair(flow[r], flow[e], recv[r], got[r], xmit[e], freed[e], epoch[e])
        /\ Linked(flow[r], recv[r]) /\ Had(recv[r], got[r]) = Len(got[r])
        /\ \A n \in Nat : n <= Len(got[r]) => Given(e, n)
        /\ freed[e] \in Nat /\ WindowOf(xmit[e], freed[e], epoch[e])
    BY OtherEnd
  <2>2. CASE xmit[e].state = "RESET"
    <3>1. freed[e] <= 0
      BY <2>1, <2>2 DEF WindowOf
    <3>2. QED
      BY <2>1, <3>1 DEF Given
  <2>3. CASE xmit[e].state # "RESET"
    <3>1. freed[e] <= Len(got[r])
      BY <2>1, <2>3 DEF Pair, WindowRight
    <3>2. QED
      BY <2>1, <3>1
  <2>4. QED
    BY <2>2, <2>3
<1>2. QED
  BY <1>1, PacketsTogether, PTL

(* There is always a slot for a packet that comes too early (Skipseq), and  *)
(* one that the transmitter was asked not to repeat (Rnak) is held at the   *)
(* other end or was given there, where no reset has crossed another or      *)
(* overtaken queued data.                                                   *)
THEOREM PacketsNAKedIsHeld == ASSUME Pnbufs <= 3 PROVE Spec => []NAKedIsHeld
<1>1. Together => RoomForSkipped
  <2> SUFFICES ASSUME Together, NEW e \in Ends, e \notin crossed, Arrives(e, "DATA"), recv[e].state # "RESET",
                      NEW s, s = Head(wire[e]).seq
               PROVE  \/ s = recv[e].next
                      \/ Retry(recv[e], s)
                      \/ Skipped(recv[e], s) /\ SlotsFor(recv[e], s) # {}
    BY DEF RoomForSkipped
  <2> DEFINE t == Peer(e)
             p == Head(wire[e])
  <2>1. /\ t \in Ends /\ Peer(t) = e /\ recv[e] \in RecvRecords /\ got[e] \in Seq(Datum)
        /\ flow[e] \in Seq(Packets) /\ EndRight(t)
    BY EndTypes DEF Together, Alone, EndsRight
  <2>2. Pair(flow[e], flow[t], recv[e], got[e], xmit[t], freed[t], epoch[t])
    BY DEF Together, PairsRight, PairOf
  <2>3. recv[e].state = "IDLE" /\ flow[e] # <<>> /\ p.type = "DATA" /\ Head(flow[e]) = p
    BY <2>1, ArrivesIs DEF RecvRecords, Together, Alone
  <2>4. DataRight(flow[e], epoch[t])
    BY <2>1 DEF EndRight
  <2>5. Placed(p, recv[e], got[e], xmit[t], epoch[t])
    BY <2>1, <2>2, <2>3, <2>4, DataPlaced
  <2> DEFINE n == p.data.n
             L == Len(got[e])
  <2>6. /\ p.seq = recv[e].next <=> n = L + 1
        /\ n <= L => Retry(recv[e], p.seq)
        /\ n >= L + 2 => Skipped(recv[e], p.seq)
    BY <2>1, <2>5, PlacedMeans
  <2>7. n \in Nat /\ L \in Nat /\ n <= L + Pnbufs /\ p.seq = Number(n - 1)
    BY <2>1, <2>5, PacketFields, LenProperties DEF Placed
  <2>8. HeldRight(recv[e], got[e], xmit[t], epoch[t])
    BY <2>2 DEF Pair
  <2>9. n >= L + 2 => SlotsFor(recv[e], p.seq) # {}
    <3>1. ASSUME n >= L + 2 PROVE SlotsFor(recv[e], p.seq) # {}
      <4>1. L + 2 <= n
        <5> HIDE DEF n, L
        <5> QED
          BY <2>7, <3>1
      <4>2. QED
        BY <2>1, <2>3, <2>7, <2>8, <4>1, Room
    <3>2. QED
      BY <3>1
  <2> HIDE DEF n, L
  <2>10. n <= L \/ n = L + 1 \/ n >= L + 2
    BY <2>7
  <2>11. QED
    BY <2>6, <2>9, <2>10
<1>2. ASSUME Together, NEW e \in Ends, NEW p \in Slots, xmit[e].slot[p].state = "NAK",
             Peer(e) \notin crossed, ~Resetting(e)
      PROVE  \/ Given(e, xmit[e].slot[p].data.n)
             \/ \E i \in HeldSlots : /\ recv[Peer(e)].held[i].full
                                     /\ recv[Peer(e)].held[i].data = xmit[e].slot[p].data
  <2> DEFINE r == Peer(e)
             d == xmit[e].slot[p].data
  <2>1. /\ Pair(flow[r], flow[e], recv[r], got[r], xmit[e], freed[e], epoch[e])
        /\ Linked(flow[r], recv[r])
        /\ \A n \in Nat : n <= Len(got[r]) => Given(e, n)
        /\ xmit[e] \in XmitRecords /\ freed[e] \in Nat /\ WindowOf(xmit[e], freed[e], epoch[e])
    BY <1>2, OtherEnd
  <2>2. d.ep = epoch[e] /\ d.n \in Nat /\ freed[e] < d.n /\ d.n <= xmit[e].n
    BY <1>2, <2>1, WindowPlace
  <2>3. d = [ep |-> epoch[e], n |-> d.n]
    <3>1. d \in Datum
      BY <2>1, XmitFields
    <3>2. QED
      BY <2>2, <3>1 DEF Datum
  <2>4. xmit[e].state # "RESET"
    <3>1. xmit[e].state = "RESET" => xmit[e].n = 0
      BY <2>1 DEF WindowOf
    <3> DEFINE m == d.n
    <3>2. m \in Nat /\ freed[e] < m /\ m <= xmit[e].n
      BY <2>2
    <3> HIDE DEF m
    <3>3. QED
      BY <2>1, <3>1, <3>2
  <2>5. Has(recv[r], got[r], epoch[e], d.n)
    BY <1>2, <2>1, <2>4 DEF Pair, WindowRight, MarksRight
  <2>6. CASE d.n <= Len(got[r])
    BY <2>1, <2>2, <2>6
  <2>7. CASE \E k \in HeldSlots : recv[r].held[k].full /\ recv[r].held[k].data = [ep |-> epoch[e], n |-> d.n]
    BY <2>3, <2>7
  <2>8. QED
    BY <2>5, <2>6, <2>7 DEF Has
<1>3. Together => NAKedIsHeld
  BY <1>1, <1>2 DEF NAKedIsHeld
<1>4. QED
  BY <1>3, PacketsTogether, PTL
=============================================================================
