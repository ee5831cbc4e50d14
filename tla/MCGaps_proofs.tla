---------------------------- MODULE MCGaps_proofs ----------------------------
(***************************************************************************)
(* Theorems about the gap list, for messages of every size and any number  *)
(* of gaps: the list operations do what they should to the set of missing  *)
(* addresses, provided the list is ordered, and the receiver's calls keep  *)
(* it ordered.                                                             *)
(***************************************************************************)
EXTENDS MCGaps, SequenceTheorems, FiniteSetTheorems, WellFoundedInduction, TLAPS

USE GapsAssumption, NAKAssumption

GapRec == [s : Nat, e : Nat, n : Nat]

(* No gap is empty, and each ends before the next one starts.               *)
Ordered(l) ==
  /\ l \in Seq(GapRec)
  /\ \A i \in DOMAIN l : l[i].s < l[i].e
  /\ \A i, j \in DOMAIN l : i < j => l[i].e < l[j].s

(* Gaps start at addr or below, end at top or below, and were NAKed for b   *)
(* EOMs at most.                                                            *)
Within(l, addr, top, b) ==
  \A i \in DOMAIN l : l[i].s <= addr /\ l[i].e <= top /\ l[i].n <= b

(* goodaddr, of a message of which the gaps l are missing.                  *)
GoodFor(l) == IF l = <<>> THEN MsgSize ELSE l[1].s

Most == IF eoms = 0 THEN 1 ELSE eoms

GapsTypes ==
  /\ good \in 0 .. MsgSize /\ msgaddr \in 0 .. MsgSize /\ eoms \in Nat
  /\ ending \in BOOLEAN
  /\ asked \in [budget : Int, count : Nat, naks : SUBSET Int, ended : BOOLEAN]

IInv ==
  /\ GapsTypes
  /\ Ordered(list)
  /\ Within(list, msgaddr, MsgSize, Most)
  /\ Covered(list) = missing
  /\ good = GoodFor(list)
  /\ EndsWhole

-----------------------------------------------------------------------------
(* Induction, for a set of numbers.                                         *)
LEMMA SetInduction ==
  ASSUME NEW S, 0 \in S, \A n \in Nat : n \in S => n + 1 \in S
  PROVE  Nat \subseteq S
<1> DEFINE R == {p \in Nat \X Nat : p[1] < p[2]}
           T == {n \in Nat : n \notin S}
<1>1. IsWellFoundedOn(R, Nat)
  BY NatLessThanWellFounded DEF OpToRel
<1>2. SUFFICES ASSUME T # {} PROVE FALSE
  OBVIOUS
<1>3. T \subseteq Nat
  OBVIOUS
<1>4. \E x \in T : \A y \in T : <<y, x>> \notin R
  <2> HIDE DEF T, R
  <2> QED
    BY <1>1, <1>2, <1>3, WFMin
<1>5. PICK x \in T : \A y \in T : <<y, x>> \notin R
  BY <1>4
<1>6. x # 0 /\ x - 1 \in Nat /\ (x - 1) + 1 = x
  OBVIOUS
<1>7. x - 1 \in T
  BY <1>6
<1>8. <<x - 1, x>> \in R
  BY <1>6
<1>9. QED
  BY <1>5, <1>7, <1>8

(* ... and up to a bound.                                                   *)
LEMMA BoundedInduction ==
  ASSUME NEW N \in Nat, NEW S, 0 \in S, \A k \in 1 .. N : k - 1 \in S => k \in S
  PROVE  0 .. N \subseteq S
<1> DEFINE T == {n \in Nat : n <= N => n \in S}
<1>1. 0 \in T
  OBVIOUS
<1>2. ASSUME NEW n \in Nat, n \in T PROVE n + 1 \in T
  <2>1. CASE n + 1 <= N
    <3>1. n \in S /\ n + 1 \in 1 .. N /\ (n + 1) - 1 = n
      BY <1>2, <2>1
    <3>2. QED
      BY <3>1
  <2>2. QED
    BY <2>1
<1>3. Nat \subseteq T
  <2> HIDE DEF T
  <2> QED
    BY <1>1, <1>2, SetInduction
<1>4. QED
  BY <1>3

(* A set of numbers that is not empty has a least one.                      *)
LEMMA MinIsLeast ==
  ASSUME NEW S \in SUBSET Nat, S # {}
  PROVE  Min(S) \in S /\ \A x \in S : Min(S) <= x
<1> DEFINE R == {p \in Nat \X Nat : p[1] < p[2]}
<1>1. IsWellFoundedOn(R, Nat)
  BY NatLessThanWellFounded DEF OpToRel
<1>2. \E x \in S : \A y \in S : <<y, x>> \notin R
  <2> HIDE DEF R
  <2> QED
    BY <1>1, WFMin
<1>3. \E x \in S : \A y \in S : x <= y
  <2>1. PICK x \in S : \A y \in S : <<y, x>> \notin R
    BY <1>2
  <2>2. ASSUME NEW y \in S PROVE x <= y
    <3>1. x \in Nat /\ y \in Nat /\ ~(y < x)
      BY <2>1
    <3>2. QED
      BY <3>1
  <2>3. QED
    BY <2>2
<1>4. QED
  BY <1>3 DEF Min

(* The addresses of a list. *)
LEMMA CoveredIs ==
  ASSUME NEW l, NEW x
  PROVE  x \in Covered(l) <=> \E i \in DOMAIN l : x \in l[i].s .. l[i].e - 1
  BY DEF Covered, Addresses

LEMMA OrderedFields ==
  ASSUME NEW l, Ordered(l), NEW j \in DOMAIN l
  PROVE  /\ l[j] \in GapRec /\ l[j].s \in Nat /\ l[j].e \in Nat /\ l[j].n \in Nat
         /\ l[j].s < l[j].e
<1>1. l[j] \in GapRec /\ l[j].s < l[j].e
  BY DEF Ordered
<1>2. QED
  BY <1>1 DEF GapRec

-----------------------------------------------------------------------------
(* FillGap.  The function of the walk is what its definition says.          *)
LEMMA WalkExists ==
  ASSUME NEW N \in Nat, NEW P
  PROVE  \E m : m = [k \in 0 .. N |-> IF k = 0 THEN <<>> ELSE m[k - 1] \o P[k]]
<1> DEFINE Is(m, n) == m = [k \in 0 .. n |-> IF k = 0 THEN <<>> ELSE m[k - 1] \o P[k]]
           T == {n \in Nat : \E m : Is(m, n)}
<1>1. 0 \in T
  <2>1. Is([k \in 0 .. 0 |-> <<>>], 0)
    OBVIOUS
  <2>2. QED
    BY <2>1
<1>2. ASSUME NEW n \in Nat, n \in T PROVE n + 1 \in T
  <2>1. PICK m : Is(m, n)
    BY <1>2
  <2> DEFINE h == [k \in 0 .. n + 1 |-> IF k = n + 1 THEN m[n] \o P[n + 1] ELSE m[k]]
  <2>2. ASSUME NEW k \in 0 .. n + 1
        PROVE  h[k] = IF k = 0 THEN <<>> ELSE h[k - 1] \o P[k]
    <3>1. CASE k = n + 1
      <4>1. k # 0 /\ k - 1 = n /\ n \in 0 .. n + 1 /\ n # n + 1
        BY <3>1
      <4>2. h[k] = m[n] \o P[n + 1] /\ h[n] = m[n]
        BY <3>1, <4>1
      <4>3. QED
        BY <3>1, <4>1, <4>2
    <3>2. CASE k # n + 1
      <4>1. k \in 0 .. n /\ (k # 0 => k - 1 \in 0 .. n + 1 /\ k - 1 # n + 1)
        BY <3>2
      <4>2. h[k] = m[k] /\ (k # 0 => h[k - 1] = m[k - 1])
        BY <3>2, <4>1
      <4>3. m[k] = IF k = 0 THEN <<>> ELSE m[k - 1] \o P[k]
        BY <2>1, <4>1
      <4>4. QED
        BY <4>2, <4>3
    <3>3. QED
      BY <3>1, <3>2
  <2>3. Is(h, n + 1)
    <3>1. h = [k \in 0 .. n + 1 |-> h[k]]
      OBVIOUS
    <3> HIDE DEF h
    <3>2. QED
      BY <2>2, <3>1
  <2>4. \E g : Is(g, n + 1)
    <3> HIDE DEF h, Is
    <3> QED
      BY <2>3
  <2>5. n + 1 \in Nat
    OBVIOUS
  <2> HIDE DEF Is
  <2>6. QED
    BY <2>4, <2>5
<1>3. Nat \subseteq T
  <2> HIDE DEF T
  <2> QED
    BY <1>1, <1>2, SetInduction
<1>4. QED
  BY <1>3

(* What the walk makes of gap k. *)
Piece(l, gs, ge, k) ==
  IF k \in Touched(l, gs, ge) THEN Pieces(l[k], gs, ge) ELSE <<l[k]>>

IsWalk(m, l, gs, ge) ==
  /\ m[0] = <<>>
  /\ \A k \in 1 .. Len(l) : m[k] = m[k - 1] \o Piece(l, gs, ge, k)
  /\ Fill(l, gs, ge) = m[Len(l)]

LEMMA FillIs ==
  ASSUME NEW l \in Seq(GapRec), NEW gs, NEW ge
  PROVE  \E m : IsWalk(m, l, gs, ge)
<1> DEFINE N == Len(l)
           P == [k \in 1 .. N |-> Piece(l, gs, ge, k)]
           Is(m) == m = [k \in 0 .. N |-> IF k = 0 THEN <<>>
                                          ELSE m[k - 1] \o Piece(l, gs, ge, k)]
           made == CHOOSE m : Is(m)
<1>1. N \in Nat
  OBVIOUS
<1>2. PICK m : m = [k \in 0 .. N |-> IF k = 0 THEN <<>> ELSE m[k - 1] \o P[k]]
  <2> HIDE DEF N, P
  <2> QED
    BY <1>1, WalkExists
<1>3. Is(m)
  <2>1. \A k \in 0 .. N : k # 0 => P[k] = Piece(l, gs, ge, k)
    BY <1>1
  <2> HIDE DEF N, P
  <2>2. [k \in 0 .. N |-> IF k = 0 THEN <<>> ELSE m[k - 1] \o P[k]] =
        [k \in 0 .. N |-> IF k = 0 THEN <<>> ELSE m[k - 1] \o Piece(l, gs, ge, k)]
    BY <2>1
  <2>3. QED
    BY <1>2, <2>2
<1>4. Is(made)
  <2> HIDE DEF Is
  <2> QED
    BY <1>3
<1>5. Fill(l, gs, ge) = made[N]
  BY DEF Fill, Piece
<1> HIDE DEF made
<1>6. made[0] = <<>> /\ \A k \in 1 .. N : made[k] = made[k - 1] \o Piece(l, gs, ge, k)
  <2> HIDE DEF N
  <2>1. 0 \in 0 .. N /\ \A k \in 1 .. N : k \in 0 .. N /\ k # 0
    BY <1>1
  <2>2. made = [k \in 0 .. N |-> IF k = 0 THEN <<>> ELSE made[k - 1] \o Piece(l, gs, ge, k)]
    BY <1>4
  <2>3. \A k \in 0 .. N : made[k] = IF k = 0 THEN <<>> ELSE made[k - 1] \o Piece(l, gs, ge, k)
    BY <2>2, Zenon
  <2>4. QED
    BY <2>1, <2>3
<1>7. IsWalk(made, l, gs, ge)
  BY <1>5, <1>6 DEF IsWalk
<1>8. QED
  BY <1>7

(* g is gap h, or what data up to ge left of it.                            *)
From(g, h, ge) ==
  h.s <= g.s /\ g.e <= h.e /\ g.n = h.n /\ (g.s = h.s \/ g.s = ge)

(* The gaps p are ordered, come from gaps with numbers in K, and cover what *)
(* those cover but the data.                                                *)
LeftOf(p, l, K, gs, ge) ==
  /\ Ordered(p)
  /\ \A i \in DOMAIN p : \E j \in K : From(p[i], l[j], ge)
  /\ \A x \in Int : x \in Covered(p) <=>
                      x \notin gs .. ge - 1 /\ \E j \in K : x \in l[j].s .. l[j].e - 1

LEMMA PieceRight ==
  ASSUME NEW l, Ordered(l), NEW gs \in Nat, NEW ge \in Nat, gs < ge, NEW k \in DOMAIN l
  PROVE  /\ LeftOf(Piece(l, gs, ge, k), l, {k}, gs, ge)
         /\ k \notin Touched(l, gs, ge) \/ gs > l[k].s =>
              /\ Piece(l, gs, ge, k) # <<>>
              /\ Piece(l, gs, ge, k)[1].s = l[k].s
<1> DEFINE p == Piece(l, gs, ge, k)
           a == [l[k] EXCEPT !.e = gs]
           b == [l[k] EXCEPT !.s = ge]
<1>1. /\ l[k] \in GapRec /\ l[k].s < l[k].e /\ l[k].s \in Nat /\ l[k].e \in Nat
      /\ \A j \in DOMAIN l : l[j] \in GapRec /\ l[j].e \in Nat /\ l[j].s \in Nat /\ l[j].s < l[j].e
      /\ \A j \in DOMAIN l : j < k => l[j].e < l[k].s
  <2>1. l \in Seq(GapRec) /\ \A j \in DOMAIN l : l[j] \in GapRec /\ l[j].s < l[j].e
    BY DEF Ordered
  <2>2. \A j \in DOMAIN l : l[j].e \in Nat /\ l[j].s \in Nat
    BY <2>1 DEF GapRec
  <2>3. \A j \in DOMAIN l : j < k => l[j].e < l[k].s
    BY DEF Ordered
  <2>4. QED
    BY <2>1, <2>2, <2>3
<1>2. /\ a \in GapRec /\ a.s = l[k].s /\ a.e = gs /\ a.n = l[k].n
      /\ b \in GapRec /\ b.s = ge /\ b.e = l[k].e /\ b.n = l[k].n
  BY <1>1 DEF GapRec
<1>3. CASE k \notin Touched(l, gs, ge)
  <2>1. p = <<l[k]>>
    BY <1>3 DEF Piece
  <2>2. gs >= l[k].e \/ ge <= l[k].s
    <3>1. SUFFICES ASSUME gs < l[k].e, ge > l[k].s PROVE FALSE
      BY <1>1
    <3>2. PICK j \in 1 .. k - 1 : ~(gs >= l[j].e \/ (ge > l[j].s /\ ge > l[j].e))
      BY <1>3, <3>1 DEF Touched
    <3>3. j \in DOMAIN l /\ j < k
      BY DEF Ordered
    <3>4. QED
      BY <3>1, <3>2, <3>3, <1>1
  <2>3. Ordered(p)
    BY <2>1, <1>1 DEF Ordered
  <2>4. \A x : x \in Covered(p) <=> x \in l[k].s .. l[k].e - 1
    BY <2>1, CoveredIs
  <2>5. \A x \in Int : x \in Covered(p) <=> x \notin gs .. ge - 1 /\ x \in l[k].s .. l[k].e - 1
    BY <2>2, <2>4, <1>1
  <2>6. From(l[k], l[k], ge)
    BY <1>1 DEF From
  <2>7. QED
    BY <2>1, <2>3, <2>5, <2>6 DEF LeftOf
<1>4. CASE k \in Touched(l, gs, ge)
  <2>1. gs < l[k].e /\ ge > l[k].s
    BY <1>4 DEF Touched
  <2>2. p = (IF gs > l[k].s THEN <<a>> ELSE <<>>) \o (IF ge < l[k].e THEN <<b>> ELSE <<>>)
    BY <1>4 DEF Piece, Pieces
  <2> HIDE DEF a, b
  <2>3. From(a, l[k], ge) /\ (ge > l[k].s => From(b, l[k], ge))
    BY <1>1, <1>2, <2>1 DEF From
  <2>4. CASE gs > l[k].s /\ ge < l[k].e
    <3>1. p = <<a, b>>
      <4>1. p = <<a>> \o <<b>>
        BY <2>2, <2>4
      <4> HIDE DEF p
      <4>2. /\ <<a>> \in Seq(GapRec) /\ <<b>> \in Seq(GapRec) /\ <<a, b>> \in Seq(GapRec)
            /\ Len(<<a>>) = 1 /\ Len(<<b>>) = 1 /\ Len(<<a, b>>) = 2
        BY <1>2
      <4>3. p \in Seq(GapRec) /\ Len(p) = 2 /\ p[1] = a /\ p[2] = b
        BY <4>1, <4>2, ConcatProperties
      <4>4. \A i \in 1 .. 2 : p[i] = <<a, b>>[i]
        BY <4>3
      <4>5. QED
        BY <4>2, <4>3, <4>4, SeqEqual
    <3> HIDE DEF p
    <3>2. Ordered(p)
      BY <3>1, <2>4, <1>1, <1>2 DEF Ordered
    <3>3. \A x : x \in Covered(p) <=> x \in l[k].s .. gs - 1 \/ x \in ge .. l[k].e - 1
      BY <3>1, <1>2, CoveredIs
    <3>4. \A x \in Int : x \in Covered(p) <=> x \notin gs .. ge - 1 /\ x \in l[k].s .. l[k].e - 1
      BY <3>3, <2>4, <1>1
    <3>5. \A i \in DOMAIN p : From(p[i], l[k], ge)
      BY <3>1, <2>1, <2>3
    <3>6. p # <<>> /\ p[1].s = l[k].s
      BY <3>1, <1>2
    <3>7. QED
      BY <3>2, <3>4, <3>5, <3>6 DEF LeftOf, p
  <2>5. CASE gs > l[k].s /\ ~(ge < l[k].e)
    <3>1. p = <<a>>
      BY <2>2, <2>5
    <3> HIDE DEF p
    <3>2. Ordered(p)
      BY <3>1, <2>5, <1>1, <1>2 DEF Ordered
    <3>3. \A x : x \in Covered(p) <=> x \in l[k].s .. gs - 1
      BY <3>1, <1>2, CoveredIs
    <3>4. \A x \in Int : x \in Covered(p) <=> x \notin gs .. ge - 1 /\ x \in l[k].s .. l[k].e - 1
      BY <3>3, <2>1, <2>5, <1>1
    <3>5. \A i \in DOMAIN p : From(p[i], l[k], ge)
      BY <3>1, <2>1, <2>3
    <3>6. p # <<>> /\ p[1].s = l[k].s
      BY <3>1, <1>2
    <3>7. QED
      BY <3>2, <3>4, <3>5, <3>6 DEF LeftOf, p
  <2>6. CASE ~(gs > l[k].s) /\ ge < l[k].e
    <3>1. p = <<b>>
      <4>1. p = <<>> \o <<b>>
        BY <2>2, <2>6
      <4>2. <<b>> \in Seq(GapRec)
        BY <1>2
      <4>3. QED
        BY <4>1, <4>2, ConcatEmptySeq
    <3> HIDE DEF p
    <3>2. Ordered(p)
      BY <3>1, <2>6, <1>1, <1>2 DEF Ordered
    <3>3. \A x : x \in Covered(p) <=> x \in ge .. l[k].e - 1
      BY <3>1, <1>2, CoveredIs
    <3>4. \A x \in Int : x \in Covered(p) <=> x \notin gs .. ge - 1 /\ x \in l[k].s .. l[k].e - 1
      BY <3>3, <2>1, <2>6, <1>1
    <3>5. \A i \in DOMAIN p : From(p[i], l[k], ge)
      BY <3>1, <2>1, <2>3
    <3>7. QED
      BY <3>2, <3>4, <3>5, <2>6, <1>4 DEF LeftOf, p
  <2>7. CASE ~(gs > l[k].s) /\ ~(ge < l[k].e)
    <3>1. p = <<>>
      BY <2>2, <2>7
    <3> HIDE DEF p
    <3>2. Ordered(p)
      BY <3>1 DEF Ordered
    <3>3. \A x : x \notin Covered(p)
      BY <3>1, CoveredIs
    <3>4. \A x \in Int : x \in Covered(p) <=> x \notin gs .. ge - 1 /\ x \in l[k].s .. l[k].e - 1
      BY <3>3, <2>7, <1>1
    <3>7. QED
      BY <3>1, <3>2, <3>4, <2>7, <1>4 DEF LeftOf, p
  <2>8. QED
    BY <2>4, <2>5, <2>6, <2>7
<1>5. QED
  BY <1>3, <1>4

(* What is left of the first gaps, and then of the next one.                *)
LEMMA LeftOfBoth ==
  ASSUME NEW l, Ordered(l), NEW gs \in Nat, NEW ge \in Nat, gs < ge, NEW k \in DOMAIN l,
         NEW m, LeftOf(m, l, 1 .. k - 1, gs, ge), NEW p, LeftOf(p, l, {k}, gs, ge)
  PROVE  LeftOf(m \o p, l, 1 .. k, gs, ge)
<1> DEFINE q == m \o p
           M == Len(m)
           Q == Len(p)
<1>1. /\ m \in Seq(GapRec) /\ p \in Seq(GapRec) /\ M \in Nat /\ Q \in Nat
      /\ DOMAIN m = 1 .. M /\ DOMAIN p = 1 .. Q
  BY DEF LeftOf, Ordered
<1>2. /\ q \in Seq(GapRec) /\ Len(q) = M + Q /\ DOMAIN q = 1 .. M + Q
      /\ \A i \in 1 .. M + Q : q[i] = IF i <= M THEN m[i] ELSE p[i - M]
  BY <1>1, ConcatProperties
<1>3. /\ k \in Nat /\ k \in 1 .. Len(l) /\ DOMAIN l = 1 .. Len(l)
      /\ \A j \in 1 .. k - 1 : j \in DOMAIN l /\ l[j].e < l[k].s
      /\ \A j \in DOMAIN l : l[j].s \in Nat /\ l[j].e \in Nat
  <2>1. l \in Seq(GapRec) /\ \A j \in DOMAIN l : l[j] \in GapRec
    BY DEF Ordered
  <2>2. \A j \in DOMAIN l : l[j].s \in Nat /\ l[j].e \in Nat
    BY <2>1 DEF GapRec
  <2>3. QED
    BY <2>1, <2>2 DEF Ordered
<1> HIDE DEF q, M, Q
<1>4. ASSUME NEW i \in 1 .. M + Q
      PROVE  \/ i \in DOMAIN m /\ q[i] = m[i]
             \/ i - M \in DOMAIN p /\ q[i] = p[i - M] /\ M < i
  BY <1>1, <1>2
<1>5. /\ \A i \in DOMAIN m : m[i] \in GapRec /\ m[i].s < m[i].e /\ m[i].s \in Nat /\ m[i].e \in Nat
      /\ \A i \in DOMAIN p : p[i] \in GapRec /\ p[i].s < p[i].e /\ p[i].s \in Nat /\ p[i].e \in Nat
      /\ \A i, j \in DOMAIN m : i < j => m[i].e < m[j].s
      /\ \A i, j \in DOMAIN p : i < j => p[i].e < p[j].s
  <2>1. /\ \A i \in DOMAIN m : m[i] \in GapRec /\ m[i].s < m[i].e
        /\ \A i \in DOMAIN p : p[i] \in GapRec /\ p[i].s < p[i].e
    BY <1>1 DEF LeftOf, Ordered
  <2>2. \A g \in GapRec : g.s \in Nat /\ g.e \in Nat
    BY DEF GapRec
  <2>3. QED
    BY <2>1, <2>2 DEF LeftOf, Ordered
<1>6. ASSUME NEW i \in DOMAIN m, NEW j \in DOMAIN p
      PROVE  m[i].e < p[j].s
  <2>1. PICK h \in 1 .. k - 1 : From(m[i], l[h], ge)
    BY DEF LeftOf
  <2>2. From(p[j], l[k], ge)
    BY DEF LeftOf
  <2>3. m[i].e <= l[h].e /\ l[h].e < l[k].s /\ l[k].s <= p[j].s /\ h \in DOMAIN l
    BY <2>1, <2>2, <1>3 DEF From
  <2>4. QED
    BY <2>3, <1>3, <1>5
<1>7. \A i \in DOMAIN q : q[i].s < q[i].e
  BY <1>2, <1>4, <1>5
<1>8. ASSUME NEW i \in DOMAIN q, NEW j \in DOMAIN q, i < j
      PROVE  q[i].e < q[j].s
  <2>1. i \in Nat /\ j \in Nat /\ M \in Nat
    BY <1>1, <1>2
  <2>2. CASE i \in DOMAIN m /\ q[i] = m[i] /\ j \in DOMAIN m /\ q[j] = m[j]
    BY <2>2, <1>5, <1>8
  <2>3. CASE i \in DOMAIN m /\ q[i] = m[i] /\ j - M \in DOMAIN p /\ q[j] = p[j - M]
    BY <2>3, <1>6
  <2>4. CASE i - M \in DOMAIN p /\ q[i] = p[i - M] /\ j - M \in DOMAIN p /\ q[j] = p[j - M]
    <3>1. i - M < j - M
      BY <2>1, <1>8
    <3>2. QED
      BY <3>1, <2>4, <1>5
  <2>5. ~(i - M \in DOMAIN p /\ M < i /\ j \in DOMAIN m)
    BY <2>1, <1>1, <1>8
  <2>6. QED
    BY <2>2, <2>3, <2>4, <2>5, <1>4, <1>2
<1>9. Ordered(q)
  BY <1>2, <1>7, <1>8 DEF Ordered
<1>10. ASSUME NEW i \in DOMAIN q
       PROVE  \E j \in 1 .. k : From(q[i], l[j], ge)
  <2>1. CASE i \in DOMAIN m /\ q[i] = m[i]
    <3>1. PICK h \in 1 .. k - 1 : From(m[i], l[h], ge)
      BY <2>1 DEF LeftOf
    <3>2. h \in 1 .. k
      BY <1>3
    <3>3. QED
      BY <2>1, <3>1, <3>2
  <2>2. CASE i - M \in DOMAIN p /\ q[i] = p[i - M]
    <3>1. From(p[i - M], l[k], ge)
      BY <2>2 DEF LeftOf
    <3>2. k \in 1 .. k
      BY <1>3
    <3>3. QED
      BY <2>2, <3>1, <3>2
  <2>3. QED
    BY <2>1, <2>2, <1>2, <1>4
<1>11. ASSUME NEW x \in Int
       PROVE  x \in Covered(q) <=>
                x \notin gs .. ge - 1 /\ \E j \in 1 .. k : x \in l[j].s .. l[j].e - 1
  <2>1. x \in Covered(q) <=> x \in Covered(m) \/ x \in Covered(p)
    <3>1. ASSUME x \in Covered(q) PROVE x \in Covered(m) \/ x \in Covered(p)
      <4>1. PICK i \in DOMAIN q : x \in q[i].s .. q[i].e - 1
        BY <3>1, CoveredIs
      <4>2. QED
        BY <4>1, <1>2, <1>4, CoveredIs
    <3>2. ASSUME x \in Covered(m) PROVE x \in Covered(q)
      <4>1. PICK i \in DOMAIN m : x \in m[i].s .. m[i].e - 1
        BY <3>2, CoveredIs
      <4>2. i \in DOMAIN q /\ q[i] = m[i]
        BY <1>1, <1>2
      <4>3. QED
        BY <4>1, <4>2, CoveredIs
    <3>3. ASSUME x \in Covered(p) PROVE x \in Covered(q)
      <4>1. PICK i \in DOMAIN p : x \in p[i].s .. p[i].e - 1
        BY <3>3, CoveredIs
      <4>2. i + M \in DOMAIN q /\ ~(i + M <= M) /\ (i + M) - M = i
        BY <1>1, <1>2
      <4>3. q[i + M] = p[i]
        BY <4>2, <1>2
      <4>4. QED
        BY <4>1, <4>2, <4>3, CoveredIs
    <3>4. QED
      BY <3>1, <3>2, <3>3
  <2>2. 1 .. k = (1 .. k - 1) \cup {k}
    BY <1>3
  <2>3. QED
    BY <2>1, <2>2 DEF LeftOf
<1>12. QED
  BY <1>9, <1>10, <1>11 DEF LeftOf, q

(* The whole walk; and if no gap lost its start, the first one still starts *)
(* where it did.                                                            *)
LEMMA FillRight ==
  ASSUME NEW l, Ordered(l), NEW gs \in Nat, NEW ge \in Nat, gs < ge
  PROVE  /\ LeftOf(Fill(l, gs, ge), l, DOMAIN l, gs, ge)
         /\ l # <<>> /\ (\A k \in Touched(l, gs, ge) : gs > l[k].s) =>
              Fill(l, gs, ge) # <<>> /\ Fill(l, gs, ge)[1].s = l[1].s
<1> DEFINE N == Len(l)
           Kept(q) == q # <<>> /\ q[1].s = l[1].s
           NoStart == \A k \in Touched(l, gs, ge) : gs > l[k].s
<1>1. l \in Seq(GapRec) /\ N \in Nat /\ DOMAIN l = 1 .. N
  BY DEF Ordered
<1>w. PICK m : IsWalk(m, l, gs, ge)
  BY <1>1, FillIs
<1>2. /\ m[0] = <<>>
      /\ \A k \in 1 .. N : m[k] = m[k - 1] \o Piece(l, gs, ge, k)
      /\ Fill(l, gs, ge) = m[N]
  BY <1>w DEF IsWalk
<1> DEFINE S == {k \in 0 .. N : /\ LeftOf(m[k], l, 1 .. k, gs, ge)
                                /\ k > 0 /\ NoStart => Kept(m[k])}
<1>3. 0 \in S
  <2>1. LeftOf(<<>>, l, 1 .. 0, gs, ge)
    <3>1. \A x : x \notin Covered(<<>>)
      BY CoveredIs
    <3>2. QED
      BY <3>1 DEF LeftOf, Ordered
  <2>2. QED
    BY <1>1, <1>2, <2>1
<1>4. ASSUME NEW k \in 1 .. N, k - 1 \in S PROVE k \in S
  <2> DEFINE p == Piece(l, gs, ge, k)
  <2>1. /\ LeftOf(m[k - 1], l, 1 .. k - 1, gs, ge) /\ k \in DOMAIN l
        /\ (k - 1 > 0 /\ NoStart => Kept(m[k - 1]))
    BY <1>1, <1>4
  <2>2. /\ LeftOf(p, l, {k}, gs, ge)
        /\ k \notin Touched(l, gs, ge) \/ gs > l[k].s => p # <<>> /\ p[1].s = l[k].s
    BY <2>1, PieceRight
  <2>3. m[k] = m[k - 1] \o p
    BY <1>2
  <2> HIDE DEF p
  <2>4. LeftOf(m[k - 1] \o p, l, 1 .. k, gs, ge)
    BY <2>1, <2>2, LeftOfBoth
  <2>5. ASSUME NoStart PROVE Kept(m[k - 1] \o p)
    <3>1. /\ m[k - 1] \in Seq(GapRec) /\ p \in Seq(GapRec) /\ p # <<>> /\ p[1].s = l[k].s
      BY <2>1, <2>2, <2>5 DEF LeftOf, Ordered
    <3>2. CASE k = 1
      <4>1. m[k - 1] = <<>>
        BY <1>2, <3>2
      <4>2. m[k - 1] \o p = p
        BY <4>1, <3>1, ConcatEmptySeq
      <4>3. QED
        BY <4>2, <3>1, <3>2
    <3>3. CASE k # 1
      <4>1. m[k - 1] # <<>> /\ m[k - 1][1].s = l[1].s
        BY <3>3, <2>1, <2>5, <1>1
      <4>2. Len(m[k - 1]) \in Nat /\ Len(m[k - 1]) > 0 /\ Len(p) \in Nat
        BY <4>1, <3>1
      <4>3. /\ Len(m[k - 1] \o p) = Len(m[k - 1]) + Len(p)
            /\ (m[k - 1] \o p)[1] = m[k - 1][1] /\ m[k - 1] \o p \in Seq(GapRec)
        BY <4>2, <3>1, ConcatProperties
      <4>4. QED
        BY <4>1, <4>2, <4>3
    <3>4. QED
      BY <3>2, <3>3
  <2>6. /\ k \in 0 .. N /\ LeftOf(m[k], l, 1 .. k, gs, ge)
        /\ NoStart => Kept(m[k])
    <3> HIDE DEF NoStart, Kept
    <3>1. k \in 0 .. N
      BY <1>1
    <3>2. QED
      BY <2>3, <2>4, <2>5, <3>1
  <2>7. QED
    <3> HIDE DEF NoStart, Kept
    <3> QED
      BY <2>6
<1>5. 0 .. N \subseteq S
  <2> HIDE DEF S, N
  <2> QED
    BY <1>1, <1>3, <1>4, BoundedInduction
<1>6. N \in S
  BY <1>1, <1>5
<1>7. LeftOf(m[N], l, 1 .. N, gs, ge) /\ (N > 0 /\ NoStart => Kept(m[N]))
  BY <1>6
<1>8. l # <<>> => N > 0
  BY <1>1
<1>9. QED
  BY <1>1, <1>2, <1>7, <1>8

LEMMA FilledRight ==
  ASSUME NEW l, Ordered(l), NEW gs \in Nat, NEW ge \in Nat, gs < ge,
         NEW addr \in Nat, NEW top \in Nat, NEW b \in Nat, Within(l, addr, top, b),
         NEW addr2 \in Nat, addr <= addr2, ge <= addr2, NEW r,
         r = Filled(l, GoodFor(l), gs, ge, MsgSize)
  PROVE  /\ Ordered(r.list) /\ Within(r.list, addr2, top, b)
         /\ Covered(r.list) = Covered(l) \ (gs .. ge - 1)
         /\ r.good = GoodFor(r.list)
<1> DEFINE q == Fill(l, gs, ge)
           NoStart == \A k \in Touched(l, gs, ge) : gs > l[k].s
<1>1. /\ r.list = q
      /\ r.good = IF NoStart THEN GoodFor(l) ELSE IF q = <<>> THEN MsgSize ELSE q[1].s
  BY DEF Filled
<1>2. LeftOf(q, l, DOMAIN l, gs, ge) /\ (l # <<>> /\ NoStart => q # <<>> /\ q[1].s = l[1].s)
  BY FillRight
<1>t. \A j \in DOMAIN l : l[j].s \in Nat /\ l[j].e \in Nat /\ l[j].n \in Nat
  BY OrderedFields
<1> HIDE DEF q
<1>q. \A j \in DOMAIN q : q[j].s \in Nat /\ q[j].e \in Nat /\ q[j].n \in Nat
  BY <1>2, OrderedFields DEF LeftOf
<1>3. ASSUME NEW i \in DOMAIN q
      PROVE  q[i].s <= addr2 /\ q[i].e <= top /\ q[i].n <= b
  <2>1. PICK j \in DOMAIN l : From(q[i], l[j], ge)
    BY <1>2 DEF LeftOf
  <2>2. l[j].s <= addr /\ l[j].e <= top /\ l[j].n <= b
    BY DEF Within
  <2>3. QED
    BY <2>1, <2>2, <1>t, <1>q DEF From
<1>4. \A x \in Covered(q) : x \in Int
  BY <1>q, CoveredIs
<1>5. \A x \in Covered(l) : x \in Int
  BY <1>t, CoveredIs
<1>6. \A x \in Int : x \in Covered(q) <=> x \in Covered(l) /\ x \notin gs .. ge - 1
  BY <1>2, CoveredIs DEF LeftOf
<1>7. Covered(q) = Covered(l) \ (gs .. ge - 1)
  BY <1>4, <1>5, <1>6
<1>8. l = <<>> => q = <<>>
  <2>1. SUFFICES ASSUME l = <<>>, q # <<>> PROVE FALSE
    OBVIOUS
  <2>2. 1 \in DOMAIN q
    BY <2>1, <1>2 DEF LeftOf, Ordered
  <2>3. DOMAIN l = {}
    BY <2>1
  <2>4. QED
    BY <2>2, <2>3, <1>2 DEF LeftOf
<1>9. r.good = GoodFor(q)
  <2>1. CASE NoStart /\ l # <<>>
    BY <2>1, <1>1, <1>2 DEF GoodFor
  <2>2. CASE NoStart /\ l = <<>>
    BY <2>2, <1>1, <1>8 DEF GoodFor
  <2>3. CASE ~NoStart
    BY <2>3, <1>1 DEF GoodFor
  <2>4. QED
    BY <2>1, <2>2, <2>3
<1>10. QED
  BY <1>1, <1>2, <1>3, <1>7, <1>9 DEF LeftOf, Within

-----------------------------------------------------------------------------
(* QueueGap, when all gaps start at gs or before: the walk stops at the     *)
(* last gap, if that reaches gs, or behind it.                              *)
LEMMA StopsAtLast ==
  ASSUME NEW l, Ordered(l), NEW gs \in Nat, \A i \in DOMAIN l : l[i].s <= gs
  PROVE  \/ /\ StopsAt(l, gs) = Len(l) + 1
            /\ \A i \in DOMAIN l : l[i].e < gs
         \/ /\ StopsAt(l, gs) = Len(l) /\ Len(l) \in DOMAIN l /\ gs <= l[Len(l)].e
            /\ \A i \in DOMAIN l : i # Len(l) => l[i].e < gs
<1> DEFINE N == Len(l)
           S == {k \in DOMAIN l : gs <= l[k].e} \cup {N + 1}
<1>1. N \in Nat /\ DOMAIN l = 1 .. N
  BY DEF Ordered
<1>2. S \in SUBSET Nat /\ S # {}
  BY <1>1
<1>3. StopsAt(l, gs) \in S /\ \A x \in S : StopsAt(l, gs) <= x
  <2>1. StopsAt(l, gs) = Min(S)
    BY DEF StopsAt
  <2> HIDE DEF S
  <2>2. QED
    BY <1>2, <2>1, MinIsLeast
<1>4. ASSUME NEW k \in DOMAIN l, k # N PROVE l[k].e < gs
  <2>1. k + 1 \in DOMAIN l /\ k < k + 1
    BY <1>1, <1>4
  <2>2. l[k].e < l[k + 1].s /\ l[k + 1].s <= gs
    BY <2>1 DEF Ordered
  <2>3. QED
    BY <2>1, <2>2, OrderedFields
<1>5. CASE StopsAt(l, gs) = N + 1
  <2>1. ASSUME NEW i \in DOMAIN l PROVE l[i].e < gs
    <3>1. i \notin S
      BY <1>1, <1>3, <1>5
    <3>2. l[i].e \in Nat
      BY OrderedFields
    <3>3. QED
      BY <3>1, <3>2
  <2>2. QED
    BY <1>5, <2>1
<1>6. CASE StopsAt(l, gs) # N + 1
  <2>1. /\ StopsAt(l, gs) \in DOMAIN l /\ gs <= l[StopsAt(l, gs)].e
    BY <1>3, <1>6
  <2>2. StopsAt(l, gs) = N
    <3>1. l[StopsAt(l, gs)].e \in Nat
      BY <2>1, OrderedFields
    <3>2. QED
      BY <2>1, <3>1, <1>4
  <2>3. QED
    BY <2>1, <2>2, <1>4
<1>7. QED
  BY <1>5, <1>6

(* The list then: a new gap behind the others, or the last one grown.       *)
Longer(g, ge) == [g EXCEPT !.e = IF ge > @ THEN ge ELSE @]

QueuesAs(l, gs, ge, g0, r) ==
  \/ /\ \A i \in DOMAIN l : l[i].e < gs
     /\ r.list = Append(l, Gap(gs, ge, 1))
     /\ r.good = IF gs < g0 THEN gs ELSE g0
  \/ /\ Len(l) \in DOMAIN l /\ gs <= l[Len(l)].e
     /\ \A i \in DOMAIN l : i # Len(l) => l[i].e < gs
     /\ r.list = [l EXCEPT ![Len(l)] = Longer(l[Len(l)], ge)]
     /\ r.good = g0 \/ r.good = IF gs < g0 THEN gs ELSE g0

LEMMA QueueGapList ==
  ASSUME NEW l, Ordered(l), NEW gs \in Nat, NEW ge \in Nat, gs < ge,
         \A i \in DOMAIN l : l[i].s <= gs,
         NEW g0, NEW r, r = QueueGap(l, g0, gs, ge)
  PROVE  QueuesAs(l, gs, ge, g0, r)
<1> DEFINE N == Len(l)
           at == StopsAt(l, gs)
           fresh == at > Len(l) \/ ge < l[at].s
           known == ~fresh /\ gs >= l[at].s /\ ge <= l[at].e
           upto == IF ge > l[at].e THEN Swallows(l, ge, at) ELSE at
           grown == [l[at] EXCEPT !.s = IF gs < @ THEN gs ELSE @,
                                  !.e = IF ge > @ THEN Reach(l, ge, at + 1, upto) ELSE @]
<1>1. l \in Seq(GapRec) /\ N \in Nat /\ DOMAIN l = 1 .. N
  BY DEF Ordered
<1>2. /\ r.list = IF fresh THEN Start(l, at - 1) \o <<Gap(gs, ge, 1)>> \o Rest(l, at)
                  ELSE Start(l, at - 1) \o <<grown>> \o Rest(l, upto + 1)
      /\ r.good = IF ~known /\ gs < g0 THEN gs ELSE g0
  BY DEF QueueGap
<1>3. CASE at = N + 1 /\ \A i \in DOMAIN l : l[i].e < gs
  <2>1. fresh /\ ~known
    BY <1>1, <1>3
  <2>2. Start(l, N) = l /\ Rest(l, N + 1) = <<>> /\ (N + 1) - 1 = N
    BY <1>1, SubSeqFull, SubSeqEmpty DEF Start, Rest
  <2>3. Gap(gs, ge, 1) \in GapRec
    BY DEF Gap, GapRec
  <2> DEFINE g == Gap(gs, ge, 1)
  <2> HIDE DEF fresh, known, grown, upto, g
  <2>4. r.list = l \o <<g>> \o <<>>
    BY <1>2, <1>3, <2>1, <2>2 DEF g
  <2>5. g \in GapRec
    BY <2>3 DEF g
  <2>6. l \o <<g>> \in Seq(GapRec) /\ l \o <<g>> = Append(l, g)
    BY <2>5, <1>1, AppendIsConcat, ConcatProperties
  <2>7. r.list = Append(l, g)
    BY <2>4, <2>6, ConcatEmptySeq
  <2>8. QED
    BY <2>7, <2>1, <1>2, <1>3 DEF g, QueuesAs
<1>4. CASE /\ at = N /\ N \in DOMAIN l /\ gs <= l[N].e
           /\ \A i \in DOMAIN l : i # N => l[i].e < gs
  <2>1. /\ l[N] \in GapRec /\ l[N].s \in Nat /\ l[N].e \in Nat /\ l[N].n \in Nat /\ l[N].s <= gs
    BY <1>4, OrderedFields
  <2>2. ~fresh
    BY <1>1, <1>4, <2>1
  <2>3. Swallows(l, ge, N) = N
    <3>1. {k \in N .. Len(l) : k = Len(l) \/ Reach(l, ge, N + 1, k) < l[k + 1].s} = {N}
      BY <1>1
    <3>2. Min({N}) = N
      BY <1>1 DEF Min
    <3>3. QED
      BY <3>1, <3>2 DEF Swallows
  <2>4. upto = N
    BY <1>4, <2>3
  <2>5. Reach(l, ge, N + 1, N) = ge
    <3>1. {ge} \cup {l[i].e : i \in N + 1 .. N} = {ge}
      BY <1>1
    <3>2. Max({ge}) = ge
      BY DEF Max
    <3>3. QED
      BY <3>1, <3>2 DEF Reach
  <2> HIDE DEF upto, fresh, known
  <2>6. grown = Longer(l[N], ge)
    <3>1. Reach(l, ge, at + 1, upto) = ge
      BY <1>4, <2>4, <2>5
    <3>2. ~(gs < l[N].s)
      BY <2>1
    <3>3. QED
      BY <3>1, <3>2, <1>4, <2>1 DEF Longer, GapRec
  <2>7. Longer(l[N], ge) \in GapRec
    BY <2>1 DEF Longer, GapRec
  <2> DEFINE g == Longer(l[N], ge)
  <2> HIDE DEF g, grown
  <2>8. r.list = SubSeq(l, 1, N - 1) \o <<g>> \o SubSeq(l, N + 1, N)
    BY <1>2, <1>4, <2>2, <2>4, <2>6 DEF Start, Rest, g
  <2>9. SubSeq(l, N + 1, N) = <<>>
    BY <1>1, SubSeqEmpty
  <2>10. /\ SubSeq(l, 1, N - 1) \in Seq(GapRec) /\ Len(SubSeq(l, 1, N - 1)) = N - 1
         /\ \A i \in 1 .. N - 1 : SubSeq(l, 1, N - 1)[i] = l[i]
    <3>1. 1 \in Int /\ N - 1 \in Int /\ \A i \in 1 .. N - 1 : l[i] \in GapRec
      BY <1>1
    <3>2. /\ SubSeq(l, 1, N - 1) \in Seq(GapRec)
          /\ Len(SubSeq(l, 1, N - 1)) = IF 1 <= N - 1 THEN (N - 1) - 1 + 1 ELSE 0
          /\ \A i \in 1 .. (N - 1) - 1 + 1 : SubSeq(l, 1, N - 1)[i] = l[1 + i - 1]
      BY <3>1, SubSeqProperties
    <3>3. QED
      BY <3>2, <1>1, <1>4
  <2> DEFINE a == SubSeq(l, 1, N - 1)
  <2> HIDE DEF a
  <2>11. a \in Seq(GapRec) /\ Len(a) = N - 1 /\ (\A i \in 1 .. N - 1 : a[i] = l[i]) /\ g \in GapRec
    BY <2>7, <2>10 DEF a, g
  <2>12. /\ a \o <<g>> \in Seq(GapRec) /\ Len(a \o <<g>>) = N
         /\ \A i \in 1 .. N : (a \o <<g>>)[i] = IF i = N THEN g ELSE l[i]
    <3>1. <<g>> \in Seq(GapRec) /\ Len(<<g>>) = 1 /\ <<g>>[1] = g
      BY <2>11
    <3>2. /\ a \o <<g>> \in Seq(GapRec) /\ Len(a \o <<g>>) = (N - 1) + 1
          /\ \A i \in 1 .. (N - 1) + 1 :
               (a \o <<g>>)[i] = IF i <= N - 1 THEN a[i] ELSE <<g>>[i - (N - 1)]
      BY <3>1, <2>11, ConcatProperties
    <3>3. QED
      BY <3>1, <3>2, <2>11, <1>1, <1>4
  <2>13. r.list = a \o <<g>>
    BY <2>8, <2>9, <2>12, ConcatEmptySeq DEF a
  <2>14. a \o <<g>> = [l EXCEPT ![N] = g]
    <3>1. /\ [l EXCEPT ![N] = g] \in Seq(GapRec) /\ Len([l EXCEPT ![N] = g]) = N
          /\ \A j \in 1 .. N : [l EXCEPT ![N] = g][j] = IF j = N THEN g ELSE l[j]
      BY <1>1, <1>4, <2>11, ExceptSeq
    <3> DEFINE u == [l EXCEPT ![N] = g]
               v == a \o <<g>>
    <3>2. /\ u \in Seq(GapRec) /\ v \in Seq(GapRec) /\ Len(u) = N /\ Len(v) = N
          /\ \A j \in 1 .. N : v[j] = u[j]
      BY <3>1, <2>12
    <3> HIDE DEF u, v
    <3>3. v = u
      BY <3>2, SeqEqual
    <3>4. QED
      BY <3>3 DEF u, v
  <2>15. r.good = g0 \/ r.good = IF gs < g0 THEN gs ELSE g0
    BY <1>2
  <2>16. QED
    BY <1>4, <2>13, <2>14, <2>15 DEF g, QueuesAs
<1>5. QED
  BY <1>3, <1>4, StopsAtLast

LEMMA QueueGapRight ==
  ASSUME NEW l, Ordered(l), NEW gs \in 0 .. MsgSize, NEW ge \in 0 .. MsgSize, gs < ge,
         NEW b \in Nat, 1 <= b, Within(l, gs, MsgSize, b),
         NEW r, r = QueueGap(l, GoodFor(l), gs, ge)
  PROVE  /\ Ordered(r.list) /\ Within(r.list, gs, MsgSize, b)
         /\ Covered(r.list) = Covered(l) \cup (gs .. ge - 1)
         /\ r.good = GoodFor(r.list)
<1> DEFINE N == Len(l)
           q == r.list
<1>1. l \in Seq(GapRec) /\ N \in Nat /\ DOMAIN l = 1 .. N /\ gs \in Nat /\ ge \in Nat
  BY DEF Ordered
<1>2. \A i \in DOMAIN l : /\ l[i] \in GapRec /\ l[i].s \in Nat /\ l[i].e \in Nat /\ l[i].n \in Nat
                          /\ l[i].s < l[i].e /\ l[i].s <= gs /\ l[i].e <= MsgSize /\ l[i].n <= b
  BY OrderedFields DEF Within
<1>g. l # <<>> => 1 \in DOMAIN l /\ GoodFor(l) = l[1].s /\ ~(gs < GoodFor(l))
  BY <1>1, <1>2 DEF GoodFor
<1>h. l = <<>> => GoodFor(l) = MsgSize /\ gs < GoodFor(l)
  BY <1>1 DEF GoodFor
<1>3. CASE /\ \A i \in DOMAIN l : l[i].e < gs
           /\ r.list = Append(l, Gap(gs, ge, 1))
           /\ r.good = IF gs < GoodFor(l) THEN gs ELSE GoodFor(l)
  <2> DEFINE g == Gap(gs, ge, 1)
  <2>1. g \in GapRec /\ g.s = gs /\ g.e = ge /\ g.n = 1
    BY <1>1 DEF Gap, GapRec
  <2>2. q = Append(l, g)
    BY <1>3
  <2> HIDE DEF g, q
  <2>3. /\ q \in Seq(GapRec) /\ Len(q) = N + 1 /\ DOMAIN q = 1 .. N + 1
        /\ (\A i \in 1 .. N : q[i] = l[i]) /\ q[N + 1] = g
    BY <2>1, <2>2, <1>1, AppendProperties
  <2>4. \A i \in DOMAIN q : (i \in DOMAIN l /\ q[i] = l[i]) \/ (i = N + 1 /\ q[i] = g)
    BY <2>3, <1>1
  <2>5. \A i \in DOMAIN q : q[i].s < q[i].e
    BY <2>1, <2>4, <1>2
  <2>6. ASSUME NEW i \in DOMAIN q, NEW j \in DOMAIN q, i < j PROVE q[i].e < q[j].s
    <3>1. i \in DOMAIN l /\ q[i] = l[i]
      BY <2>3, <2>4, <2>6, <1>1
    <3>2. CASE j \in DOMAIN l /\ q[j] = l[j]
      BY <3>1, <3>2, <2>6 DEF Ordered
    <3>3. CASE q[j] = g
      BY <3>1, <3>3, <2>1, <1>3
    <3>4. QED
      BY <3>2, <3>3, <2>4
  <2>7. Ordered(q)
    BY <2>3, <2>5, <2>6 DEF Ordered
  <2>8. Within(q, gs, MsgSize, b)
    BY <2>1, <2>4, <1>1, <1>2 DEF Within
  <2>9. \A x : x \in Covered(q) <=> x \in Covered(l) \/ x \in gs .. ge - 1
    <3>1. ASSUME NEW x, x \in Covered(q) PROVE x \in Covered(l) \/ x \in gs .. ge - 1
      <4>1. PICK i \in DOMAIN q : x \in q[i].s .. q[i].e - 1
        BY <3>1, CoveredIs
      <4>2. QED
        BY <4>1, <2>1, <2>4, CoveredIs
    <3>2. ASSUME NEW x, x \in Covered(l) PROVE x \in Covered(q)
      <4>1. PICK i \in DOMAIN l : x \in l[i].s .. l[i].e - 1
        BY <3>2, CoveredIs
      <4>2. i \in DOMAIN q /\ q[i] = l[i]
        BY <2>3, <1>1
      <4>3. QED
        BY <4>1, <4>2, CoveredIs
    <3>3. ASSUME NEW x, x \in gs .. ge - 1 PROVE x \in Covered(q)
      <4>1. N + 1 \in DOMAIN q /\ x \in q[N + 1].s .. q[N + 1].e - 1
        BY <3>3, <2>1, <2>3, <1>1
      <4>2. QED
        BY <4>1, CoveredIs
    <3>4. QED
      BY <3>1, <3>2, <3>3
  <2>10. r.good = GoodFor(q)
    <3>1. q # <<>> /\ GoodFor(q) = q[1].s
      BY <2>3, <1>1 DEF GoodFor
    <3>2. CASE l = <<>>
      <4>1. q[1] = g
        BY <3>2, <2>3, <1>1
      <4>2. QED
        BY <3>1, <3>2, <4>1, <2>1, <1>3, <1>h
    <3>3. CASE l # <<>>
      <4>1. q[1] = l[1]
        BY <3>3, <1>g, <2>3, <1>1
      <4>2. QED
        BY <3>1, <3>3, <4>1, <1>3, <1>g
    <3>4. QED
      BY <3>2, <3>3
  <2>11. QED
    BY <2>7, <2>8, <2>9, <2>10 DEF q
<1>4. CASE /\ N \in DOMAIN l /\ gs <= l[N].e
           /\ \A i \in DOMAIN l : i # N => l[i].e < gs
           /\ r.list = [l EXCEPT ![N] = Longer(l[N], ge)]
           /\ r.good = GoodFor(l) \/ r.good = IF gs < GoodFor(l) THEN gs ELSE GoodFor(l)
  <2> DEFINE g == Longer(l[N], ge)
  <2>1. /\ g \in GapRec /\ g.s = l[N].s /\ g.n = l[N].n
        /\ g.e = IF ge > l[N].e THEN ge ELSE l[N].e
    BY <1>1, <1>2, <1>4 DEF Longer, GapRec
  <2>2. q = [l EXCEPT ![N] = g]
    BY <1>4
  <2> HIDE DEF g, q
  <2>3. /\ q \in Seq(GapRec) /\ DOMAIN q = DOMAIN l
        /\ \A i \in DOMAIN l : q[i] = IF i = N THEN g ELSE l[i]
    BY <2>1, <2>2, <1>1, <1>4, ExceptSeq
  <2>4. \A i \in DOMAIN q : q[i].s = l[i].s /\ q[i].s < q[i].e
    BY <2>1, <2>3, <1>1, <1>2, <1>4
  <2>5. ASSUME NEW i \in DOMAIN q, NEW j \in DOMAIN q, i < j PROVE q[i].e < q[j].s
    <3>1. q[i] = l[i] /\ q[j].s = l[j].s /\ l[i].e < l[j].s
      <4>1. i # N
        BY <2>3, <2>5, <1>1
      <4>2. QED
        BY <4>1, <2>3, <2>4, <2>5 DEF Ordered
    <3>2. QED
      BY <3>1
  <2>6. Ordered(q)
    BY <2>3, <2>4, <2>5 DEF Ordered
  <2>7. Within(q, gs, MsgSize, b)
    BY <2>1, <2>3, <1>1, <1>2, <1>4 DEF Within
  <2>8. \A x : x \in g.s .. g.e - 1 <=> x \in l[N].s .. l[N].e - 1 \/ x \in gs .. ge - 1
    BY <2>1, <1>1, <1>2, <1>4
  <2>9. \A x : x \in Covered(q) <=> x \in Covered(l) \/ x \in gs .. ge - 1
    <3>1. ASSUME NEW x, x \in Covered(q) PROVE x \in Covered(l) \/ x \in gs .. ge - 1
      <4>1. PICK i \in DOMAIN q : x \in q[i].s .. q[i].e - 1
        BY <3>1, CoveredIs
      <4>2. x \in l[i].s .. l[i].e - 1 \/ x \in gs .. ge - 1
        BY <4>1, <2>3, <2>8
      <4>3. QED
        BY <4>2, <2>3, CoveredIs
    <3>2. ASSUME NEW x, x \in Covered(l) PROVE x \in Covered(q)
      <4>1. PICK i \in DOMAIN l : x \in l[i].s .. l[i].e - 1
        BY <3>2, CoveredIs
      <4>2. x \in q[i].s .. q[i].e - 1
        BY <4>1, <2>3, <2>8
      <4>3. QED
        BY <4>2, <2>3, CoveredIs
    <3>3. ASSUME NEW x, x \in gs .. ge - 1 PROVE x \in Covered(q)
      <4>1. N \in DOMAIN q /\ q[N] = g
        BY <2>3, <1>4
      <4>2. x \in q[N].s .. q[N].e - 1
        BY <4>1, <3>3, <2>8
      <4>3. QED
        BY <4>1, <4>2, CoveredIs
    <3>4. QED
      BY <3>1, <3>2, <3>3
  <2>10. r.good = GoodFor(q)
    <3>1. l # <<>> /\ q # <<>> /\ 1 \in DOMAIN q
      BY <2>3, <1>1, <1>4
    <3>2. GoodFor(q) = l[1].s
      BY <3>1, <2>4 DEF GoodFor
    <3>3. QED
      BY <3>1, <3>2, <1>4, <1>g
  <2>11. QED
    BY <2>6, <2>7, <2>9, <2>10 DEF q
<1>5. \A i \in DOMAIN l : l[i].s <= gs
  BY DEF Within
<1>6. QueuesAs(l, gs, ge, GoodFor(l), r)
  BY <1>1, <1>5, QueueGapList
<1>7. QED
  BY <1>3, <1>4, <1>6 DEF QueuesAs

-----------------------------------------------------------------------------
(* NAKGaps.  The function of the budget is what its definition says.        *)
Spend(l, eomcount, timedOut, huge, k, b) ==
  LET size == IF Sends(l[k], eomcount, timedOut) THEN SendNAK(l[k]) ELSE 0
  IN  IF size > b THEN huge ELSE b - size

IsBudget(m, l, eomcount, timedOut, budget, huge) ==
  /\ m[0] = budget
  /\ \A k \in 1 .. Len(l) : m[k] = Spend(l, eomcount, timedOut, huge, k, m[k - 1])

LEMMA LeftIs ==
  ASSUME NEW l \in Seq(GapRec), NEW eomcount, NEW timedOut, NEW budget, NEW huge
  PROVE  IsBudget(Left(l, eomcount, timedOut, budget, huge),
                  l, eomcount, timedOut, budget, huge)
<1> DEFINE N == Len(l)
           Step(k, b) == Spend(l, eomcount, timedOut, huge, k, b)
           Is(m, n) == m = [k \in 0 .. n |-> IF k = 0 THEN budget ELSE Step(k, m[k - 1])]
           T == {n \in Nat : \E m : Is(m, n)}
           left == CHOOSE m : Is(m, N)
<1>1. N \in Nat
  OBVIOUS
<1>2. 0 \in T
  <2>1. Is([k \in 0 .. 0 |-> budget], 0)
    OBVIOUS
  <2>2. QED
    BY <2>1
<1>3. ASSUME NEW n \in Nat, n \in T PROVE n + 1 \in T
  <2>1. PICK m : Is(m, n)
    BY <1>3
  <2> DEFINE h == [k \in 0 .. n + 1 |-> IF k = n + 1 THEN Step(n + 1, m[n]) ELSE m[k]]
  <2>2. ASSUME NEW k \in 0 .. n + 1
        PROVE  h[k] = IF k = 0 THEN budget ELSE Step(k, h[k - 1])
    <3> HIDE DEF Step
    <3>1. CASE k = n + 1
      <4>1. k # 0 /\ k - 1 = n /\ n \in 0 .. n + 1 /\ n # n + 1
        BY <3>1
      <4>2. h[k] = Step(n + 1, m[n]) /\ h[n] = m[n]
        BY <3>1, <4>1
      <4>3. QED
        BY <3>1, <4>1, <4>2
    <3>2. CASE k # n + 1
      <4>1. k \in 0 .. n /\ (k # 0 => k - 1 \in 0 .. n + 1 /\ k - 1 # n + 1)
        BY <3>2
      <4>2. h[k] = m[k] /\ (k # 0 => h[k - 1] = m[k - 1])
        BY <3>2, <4>1
      <4>3. m[k] = IF k = 0 THEN budget ELSE Step(k, m[k - 1])
        BY <2>1, <4>1
      <4>4. QED
        BY <4>2, <4>3
    <3>3. QED
      BY <3>1, <3>2
  <2>3. Is(h, n + 1)
    <3>1. h = [k \in 0 .. n + 1 |-> h[k]]
      OBVIOUS
    <3> HIDE DEF h, Step
    <3>2. QED
      BY <2>2, <3>1
  <2>4. \E g : Is(g, n + 1)
    <3> HIDE DEF h, Is
    <3> QED
      BY <2>3
  <2>5. QED
    BY <2>4
<1>4. Nat \subseteq T
  <2> HIDE DEF T
  <2> QED
    BY <1>2, <1>3, SetInduction
<1>5. \E m : Is(m, N)
  BY <1>1, <1>4
<1>6. Is(left, N)
  <2> HIDE DEF Is
  <2> QED
    BY <1>5
<1>7. Left(l, eomcount, timedOut, budget, huge) = left
  BY DEF Left, Spend
<1> HIDE DEF left, N, Step
<1>8. left = [k \in 0 .. N |-> IF k = 0 THEN budget ELSE Step(k, left[k - 1])]
  BY <1>6
<1>9. 0 \in 0 .. N /\ \A k \in 1 .. N : k \in 0 .. N /\ k # 0
  BY <1>1
<1>10. \A k \in 0 .. N : left[k] = IF k = 0 THEN budget ELSE Step(k, left[k - 1])
  BY <1>8, Zenon
<1>11. left[0] = budget /\ \A k \in 1 .. N : left[k] = Step(k, left[k - 1])
  BY <1>9, <1>10
<1>12. QED
  BY <1>7, <1>11 DEF IsBudget, N, Step

(* Two lists of the same gaps, however often NAKed.                         *)
Alike(q, l) ==
  /\ q \in Seq(GapRec) /\ DOMAIN q = DOMAIN l
  /\ \A i \in DOMAIN l : q[i].s = l[i].s /\ q[i].e = l[i].e

LEMMA AlikeLists ==
  ASSUME NEW l, Ordered(l), NEW q, Alike(q, l)
  PROVE  Ordered(q) /\ Covered(q) = Covered(l) /\ GoodFor(q) = GoodFor(l)
<1>1. Ordered(q)
  BY DEF Ordered, Alike
<1>2. Covered(q) = Covered(l)
  BY CoveredIs DEF Alike
<1>3. q = <<>> <=> l = <<>>
  BY DEF Alike, Ordered
<1>4. l # <<>> => 1 \in DOMAIN l
  BY DEF Ordered
<1>5. GoodFor(q) = GoodFor(l)
  BY <1>3, <1>4 DEF GoodFor, Alike
<1>6. QED
  BY <1>1, <1>2, <1>5

(* NAKGaps leaves the gaps what they are.  With a budget it visits the      *)
(* first one, if there is one.                                              *)
LEMMA NAKWalkRight ==
  ASSUME NEW l, Ordered(l), NEW eomcount \in Nat, NEW timedOut, NEW budget \in Nat,
         NEW r, r = NAKWalk(l, eomcount, timedOut, budget, Huge)
  PROVE  /\ Alike(r.list, l)
         /\ \A i \in DOMAIN l : r.list[i].n <= l[i].n \/ r.list[i].n <= eomcount
         /\ r.count \in Nat /\ (budget # 0 /\ r.count = 0 => l = <<>>)
         /\ r.sent \subseteq {l[k] : k \in DOMAIN l}
<1> DEFINE left == Left(l, eomcount, timedOut, budget, Huge)
           visited == {k \in DOMAIN l : \A j \in 0 .. k - 1 : left[j] > 0}
           Now(k) == IF k \in visited /\ Again(l[k], eomcount)
                     THEN [l[k] EXCEPT !.n = @ + 1] ELSE l[k]
<1>1. /\ l \in Seq(GapRec) /\ Len(l) \in Nat /\ DOMAIN l = 1 .. Len(l)
      /\ \A k \in DOMAIN l : l[k] \in GapRec
  BY OrderedFields DEF Ordered
<1>2. /\ r.list = [k \in DOMAIN l |-> Now(k)]
      /\ r.sent = {l[k] : k \in {v \in visited : Sends(l[v], eomcount, timedOut)}}
      /\ r.count = Cardinality(visited)
  BY DEF NAKWalk
<1>3. left[0] = budget
  BY <1>1, LeftIs DEF IsBudget
<1>4. ASSUME NEW k \in DOMAIN l
      PROVE  /\ Now(k) \in GapRec /\ Now(k).s = l[k].s /\ Now(k).e = l[k].e
             /\ Now(k).n <= l[k].n \/ Now(k).n <= eomcount
  <2>1. l[k] \in GapRec /\ l[k].n \in Nat
    BY OrderedFields
  <2> HIDE DEF visited
  <2>2. CASE k \in visited /\ Again(l[k], eomcount)
    <3>1. Now(k) = [l[k] EXCEPT !.n = @ + 1] /\ l[k].n < eomcount
      BY <2>2 DEF Again
    <3> HIDE DEF Now
    <3>2. QED
      BY <2>1, <3>1 DEF GapRec
  <2>3. CASE ~(k \in visited /\ Again(l[k], eomcount))
    <3>1. Now(k) = l[k]
      BY <2>3
    <3> HIDE DEF Now
    <3>2. QED
      BY <2>1, <3>1
  <2>4. QED
    BY <2>2, <2>3
<1> HIDE DEF left, Now
<1>5. r.list \in Seq(GapRec) /\ DOMAIN r.list = DOMAIN l /\ \A k \in DOMAIN l : r.list[k] = Now(k)
  <2> HIDE DEF visited
  <2>1. \A k \in 1 .. Len(l) : Now(k) \in GapRec
    BY <1>1, <1>4
  <2>2. [k \in 1 .. Len(l) |-> Now(k)] \in Seq(GapRec)
    BY <1>1, <2>1, IsASeq
  <2>3. QED
    BY <1>1, <1>2, <2>2
<1>6. visited \subseteq 1 .. Len(l) /\ IsFiniteSet(visited) /\ Cardinality(visited) \in Nat
  <2>1. visited \subseteq 1 .. Len(l)
    BY <1>1
  <2>2. IsFiniteSet(1 .. Len(l))
    BY <1>1, FS_Interval
  <2> HIDE DEF visited
  <2>3. QED
    BY <2>1, <2>2, FS_Subset, FS_CardinalityType
<1>7. budget # 0 /\ l # <<>> => 1 \in visited
  <2>1. SUFFICES ASSUME budget # 0, l # <<>> PROVE \A j \in 0 .. 1 - 1 : left[j] > 0
    BY <1>1
  <2>2. QED
    BY <1>3, <2>1
<1> HIDE DEF visited
<1>8. budget # 0 /\ Cardinality(visited) = 0 => l = <<>>
  BY <1>6, <1>7, FS_EmptySet
<1>9. r.sent \subseteq {l[k] : k \in DOMAIN l}
  BY <1>1, <1>2, <1>6
<1>10. QED
  BY <1>2, <1>4, <1>5, <1>6, <1>8, <1>9 DEF Alike

(* What SendNAK asks for of a gap is some of it.                            *)
LEMMA SendNAKBounds ==
  ASSUME NEW g \in GapRec, g.s < g.e
  PROVE  /\ SendNAK(g) \in Nat /\ 1 <= SendNAK(g) /\ SendNAK(g) <= g.e - g.s
         /\ Asked(g) \subseteq Addresses(g)
<1>1. MaxAsked \in Nat \ {0}
  BY DEF MaxAsked
<1>2. g.s \in Nat /\ g.e \in Nat /\ g.e - g.s \in Nat /\ 1 <= g.e - g.s
  BY DEF GapRec
<1>3. (SendNAK(g) = MaxAsked /\ MaxAsked < g.e - g.s) \/ SendNAK(g) = g.e - g.s
  BY <1>1, <1>2 DEF SendNAK
<1>4. SendNAK(g) \in Nat /\ 1 <= SendNAK(g) /\ SendNAK(g) <= g.e - g.s
  BY <1>1, <1>2, <1>3
<1>5. QED
  BY <1>2, <1>4 DEF Asked, Addresses

(* The budget that is left behind a gap is no less than what is left of it  *)
(* when all below the gap's end is taken off.  So one for more than the     *)
(* message is never used up, and every gap is visited.                      *)
LEMMA NAKsAll ==
  ASSUME NEW l, Ordered(l), NEW eomcount \in Nat, NEW timedOut,
         NEW budget \in Nat, budget > MsgSize,
         \A i \in DOMAIN l : l[i].e <= MsgSize /\ l[i].n < eomcount,
         NEW r, r = NAKWalk(l, eomcount, timedOut, budget, Huge)
  PROVE  r.sent = {l[k] : k \in DOMAIN l}
<1> DEFINE N == Len(l)
           left == Left(l, eomcount, timedOut, budget, Huge)
           End(k) == IF k = 0 THEN 0 ELSE l[k].e
           visited == {k \in DOMAIN l : \A j \in 0 .. k - 1 : left[j] > 0}
           S == {k \in 0 .. N : left[k] \in Nat /\ left[k] >= budget - End(k)}
<1>1. /\ l \in Seq(GapRec) /\ N \in Nat /\ DOMAIN l = 1 .. N
      /\ \A k \in DOMAIN l : /\ l[k].s \in Nat /\ l[k].e \in Nat /\ l[k].n \in Nat /\ l[k].s < l[k].e
                             /\ l[k].e <= MsgSize /\ l[k].n < eomcount
  BY OrderedFields DEF Ordered
<1>2. IsBudget(left, l, eomcount, timedOut, budget, Huge)
  BY <1>1, LeftIs
<1> HIDE DEF left
<1>3. /\ left[0] = budget
      /\ \A k \in 1 .. N : left[k] = Spend(l, eomcount, timedOut, Huge, k, left[k - 1])
  BY <1>2 DEF IsBudget
<1>4. 0 \in S
  BY <1>1, <1>3
<1>5. ASSUME NEW k \in 1 .. N, k - 1 \in S PROVE k \in S
  <2>1. left[k - 1] \in Nat /\ left[k - 1] >= budget - End(k - 1)
    BY <1>5
  <2>2. End(k - 1) \in Nat /\ End(k - 1) <= l[k].s
    <3>1. CASE k = 1
      BY <3>1, <1>1
    <3>2. CASE k # 1
      <4>1. k - 1 \in DOMAIN l /\ k - 1 < k /\ k \in DOMAIN l /\ k - 1 # 0
        BY <3>2, <1>1
      <4>2. l[k - 1].e < l[k].s
        BY <4>1 DEF Ordered
      <4>3. QED
        BY <4>1, <4>2, <1>1
    <3>3. QED
      BY <3>1, <3>2
  <2>3. left[k] = IF SendNAK(l[k]) > left[k - 1] THEN Huge ELSE left[k - 1] - SendNAK(l[k])
    <3>1. Sends(l[k], eomcount, timedOut)
      BY <1>1 DEF Sends, Again
    <3>2. QED
      BY <1>3, <3>1 DEF Spend
  <2> DEFINE s == l[k].s
             e == l[k].e
             before == left[k - 1]
             end == End(k - 1)
             size == SendNAK(l[k])
  <2>a. size \in Nat /\ size <= e - s
    BY <1>1, SendNAKBounds, OrderedFields
  <2>4. /\ s \in Nat /\ e \in Nat /\ s < e /\ e <= MsgSize /\ before \in Nat /\ end \in Nat
        /\ end <= s /\ before >= budget - end
    BY <1>1, <2>1, <2>2
  <2> HIDE DEF s, e, before, end, size
  <2>5. ~(size > before) /\ before - size \in Nat /\ before - size >= budget - e
    BY <2>4, <2>a
  <2>6. left[k] = before - size
    BY <2>3, <2>5 DEF size, before
  <2>7. left[k] \in Nat /\ left[k] >= budget - End(k) /\ k \in 0 .. N
    BY <1>1, <2>5, <2>6 DEF e
  <2>8. QED
    BY <2>7
<1>6. 0 .. N \subseteq S
  <2> HIDE DEF S, N
  <2> QED
    BY <1>1, <1>4, <1>5, BoundedInduction
<1>7. \A k \in 0 .. N : left[k] > 0
  <2>1. \A k \in 0 .. N : left[k] \in Nat /\ left[k] >= budget - End(k)
    BY <1>6
  <2>2. \A k \in 0 .. N : End(k) \in Nat /\ End(k) <= MsgSize
    BY <1>1
  <2> HIDE DEF End
  <2>3. QED
    BY <2>1, <2>2
<1>8. visited = DOMAIN l
  <2>1. \A k \in DOMAIN l : \A j \in 0 .. k - 1 : j \in 0 .. N
    BY <1>1
  <2>2. QED
    BY <2>1, <1>7
<1>9. r.sent = {l[k] : k \in {v \in visited : Sends(l[v], eomcount, timedOut)}}
  BY DEF NAKWalk, left
<1>10. \A v \in DOMAIN l : Sends(l[v], eomcount, timedOut)
  BY <1>1 DEF Sends, Again
<1>11. QED
  BY <1>8, <1>9, <1>10

(* What SendNAK asks for of all gaps of a list, said of the addresses the   *)
(* list covers.                                                             *)
LEMMA AskedIs ==
  ASSUME NEW l, Ordered(l), \A i \in DOMAIN l : l[i].e <= MsgSize
  PROVE  UNION {Asked(l[k]) : k \in DOMAIN l} = {x \in Covered(l) : WithinReach(Covered(l), x)}
<1> DEFINE S == Covered(l)
<1>m. MaxAsked \in Nat \ {0} /\ MsgSize \in Nat \ {0}
  BY DEF MaxAsked
<1>1. \A k \in DOMAIN l : /\ l[k] \in GapRec /\ l[k].s \in Nat /\ l[k].e \in Nat /\ l[k].s < l[k].e
                         /\ l[k].e <= MsgSize /\ k \in Nat
  BY OrderedFields DEF Ordered
<1>2. \A x : x \in S <=> \E k \in DOMAIN l : x \in Addresses(l[k])
  BY DEF Covered
<1> HIDE DEF S
<1>3. ASSUME NEW k \in DOMAIN l, NEW x \in Addresses(l[k])
      PROVE  x \in Asked(l[k]) <=> WithinReach(S, x)
  <2> DEFINE s == l[k].s
             e == l[k].e
  <2>1. s \in Nat /\ e \in Nat /\ s < e /\ e <= MsgSize /\ x \in Nat /\ s <= x /\ x < e /\ x \in s .. e - 1
    BY <1>1 DEF Addresses
  <2>2. \A y \in s .. e - 1 : y \in S
    BY <1>2 DEF Addresses
  <2>3. s - 1 \notin S
    <3>1. SUFFICES ASSUME NEW j \in DOMAIN l, s - 1 \in Addresses(l[j]) PROVE FALSE
      BY <1>2
    <3>2. l[j].s <= s - 1 /\ s - 1 < l[j].e
      BY <3>1, <1>1, <2>1 DEF Addresses
    <3>3. CASE j < k
      BY <3>2, <3>3, <1>1, <2>1 DEF Ordered
    <3>4. CASE k < j
      <4>1. e < l[j].s
        BY <3>4 DEF Ordered
      <4>2. QED
        BY <4>1, <3>2, <1>1, <2>1
    <3>5. CASE j = k
      BY <3>5, <3>2, <2>1
    <3>6. QED
      BY <3>3, <3>4, <3>5, <1>1
  <2>4. x \in Asked(l[k]) <=> x - s < SendNAK(l[k])
    <3>1. SendNAK(l[k]) \in Nat
      BY <1>1, SendNAKBounds
    <3>2. QED
      BY <3>1, <2>1 DEF Asked
  <2>5. S = 0 .. MsgSize - 1 <=> s = 0 /\ e = MsgSize
    <3>1. ASSUME s = 0, e = MsgSize PROVE S = 0 .. MsgSize - 1
      <4>1. \A y \in S : y \in 0 .. MsgSize - 1
        BY <1>1, <1>2, <1>m DEF Addresses
      <4>2. QED
        BY <4>1, <3>1, <2>2
    <3>2. ASSUME S = 0 .. MsgSize - 1 PROVE s = 0 /\ e = MsgSize
      <4>1. s = 0
        <5>1. s # 0 => s - 1 \in 0 .. MsgSize - 1
          BY <2>1, <1>m
        <5>2. QED
          BY <5>1, <2>3, <3>2
      <4>2. e = MsgSize
        <5>1. SUFFICES ASSUME e < MsgSize PROVE FALSE
          BY <2>1, <1>m
        <5>2. e \in S
          BY <3>2, <5>1, <2>1, <1>m
        <5>3. PICK j \in DOMAIN l : e \in Addresses(l[j])
          BY <5>2, <1>2
        <5>4. l[j].s <= e /\ e < l[j].e
          BY <5>3, <1>1, <2>1 DEF Addresses
        <5>5. CASE j < k
          <6>1. l[j].e < s
            BY <5>5 DEF Ordered
          <6>2. QED
            BY <6>1, <5>4, <1>1, <2>1
        <5>6. CASE k < j
          <6>1. e < l[j].s
            BY <5>6 DEF Ordered
          <6>2. QED
            BY <6>1, <5>4, <1>1, <2>1
        <5>7. CASE j = k
          BY <5>7, <5>4, <2>1
        <5>8. QED
          BY <5>5, <5>6, <5>7, <1>1
      <4>3. QED
        BY <4>1, <4>2
    <3>3. QED
      BY <3>1, <3>2
  <2>6. x - MaxAsked .. x \subseteq S <=> x - s >= MaxAsked
    <3>1. ASSUME x - s >= MaxAsked PROVE x - MaxAsked .. x \subseteq S
      <4>1. \A y \in x - MaxAsked .. x : y \in s .. e - 1
        BY <3>1, <2>1, <1>m
      <4>2. QED
        BY <4>1, <2>2
    <3>2. ASSUME ~(x - s >= MaxAsked) PROVE s - 1 \in x - MaxAsked .. x
      BY <3>2, <2>1, <1>m
    <3>3. QED
      BY <3>1, <3>2, <2>3
  <2>7. WithinReach(S, x) <=> (s = 0 /\ e = MsgSize) \/ x - s < MaxAsked
    <3>1. WithinReach(S, x) <=> (s = 0 /\ e = MsgSize) \/ ~(x - s >= MaxAsked)
      BY <2>5, <2>6 DEF WithinReach
    <3>2. QED
      BY <3>1, <2>1, <1>m
  <2>8. SendNAK(l[k]) = IF e - s > MaxAsked /\ ~(s = 0 /\ e - s >= MsgSize) THEN MaxAsked ELSE e - s
    BY DEF SendNAK
  <2> HIDE DEF s, e
  <2>9. x - s < SendNAK(l[k]) <=> (s = 0 /\ e = MsgSize) \/ x - s < MaxAsked
    BY <2>8, <2>1, <1>m
  <2>10. QED
    BY <2>4, <2>7, <2>9
<1>4. \A k \in DOMAIN l : Asked(l[k]) \subseteq Addresses(l[k])
  BY <1>1, SendNAKBounds
<1>5. \A x : x \in UNION {Asked(l[k]) : k \in DOMAIN l} <=> \E k \in DOMAIN l : x \in Asked(l[k])
  OBVIOUS
<1>6. \A x : (\E k \in DOMAIN l : x \in Asked(l[k])) <=> x \in S /\ WithinReach(S, x)
  BY <1>2, <1>3, <1>4
<1>7. QED
  BY <1>5, <1>6 DEF S

(* A call of NAKGaps.                                                       *)
LEMMA NAKGapsRight ==
  ASSUME NEW l, Ordered(l), NEW addr \in Nat, NEW b \in Nat, Within(l, addr, MsgSize, b),
         NEW eomcount \in Nat, eomcount <= b, NEW budget \in Nat, NEW end \in BOOLEAN,
         NAKGaps(l, eomcount, budget, end)
  PROVE  /\ Ordered(list') /\ Within(list', addr, MsgSize, b)
         /\ Covered(list') = Covered(l) /\ GoodFor(list') = GoodFor(l)
         /\ asked' \in [budget : Int, count : Nat, naks : SUBSET Int, ended : BOOLEAN]
         /\ asked'.ended /\ asked'.budget # 0 => l = <<>>
         /\ asked'.ended => end
         /\ asked'.budget = budget
         /\ budget > MsgSize /\ (\A i \in DOMAIN l : l[i].n < eomcount) =>
              asked'.naks = {x \in Covered(l) : WithinReach(Covered(l), x)}
<1>1. PICK timedOut : LET r == NAKWalk(l, eomcount, timedOut, budget, Huge)
                      IN  /\ list' = r.list
                          /\ asked' = [budget |-> budget, count |-> r.count,
                                       naks |-> UNION {Asked(g) : g \in r.sent},
                                       ended |-> end /\ r.count = 0]
  BY DEF NAKGaps
<1> DEFINE r == NAKWalk(l, eomcount, timedOut, budget, Huge)
<1>2. /\ list' = r.list
      /\ asked' = [budget |-> budget, count |-> r.count,
                   naks |-> UNION {Asked(g) : g \in r.sent}, ended |-> end /\ r.count = 0]
  BY <1>1
<1>3. /\ Alike(r.list, l)
      /\ \A i \in DOMAIN l : r.list[i].n <= l[i].n \/ r.list[i].n <= eomcount
      /\ r.count \in Nat /\ (budget # 0 /\ r.count = 0 => l = <<>>)
      /\ r.sent \subseteq {l[k] : k \in DOMAIN l}
  <2> HIDE DEF r
  <2>1. r = NAKWalk(l, eomcount, timedOut, budget, Huge)
    BY DEF r
  <2>2. QED
    BY <2>1, NAKWalkRight
<1>a. ASSUME budget > MsgSize, \A i \in DOMAIN l : l[i].n < eomcount
      PROVE  r.sent = {l[k] : k \in DOMAIN l}
  <2>1. \A i \in DOMAIN l : l[i].e <= MsgSize /\ l[i].n < eomcount
    BY <1>a DEF Within
  <2> HIDE DEF r
  <2>2. r = NAKWalk(l, eomcount, timedOut, budget, Huge)
    BY DEF r
  <2>3. QED
    BY <2>1, <2>2, <1>a, NAKsAll
<1> HIDE DEF r
<1>4. Ordered(r.list) /\ Covered(r.list) = Covered(l) /\ GoodFor(r.list) = GoodFor(l)
  BY <1>3, AlikeLists
<1>5. Within(r.list, addr, MsgSize, b)
  <2>1. ASSUME NEW i \in DOMAIN l
        PROVE  r.list[i].s <= addr /\ r.list[i].e <= MsgSize /\ r.list[i].n <= b
    <3>1. r.list[i].s = l[i].s /\ r.list[i].e = l[i].e /\ r.list[i].n \in Nat /\ l[i].n \in Nat
      BY <1>3, <1>4, OrderedFields DEF Alike
    <3>2. QED
      BY <3>1, <1>3 DEF Within
  <2>2. QED
    BY <2>1, <1>3 DEF Within, Alike
<1>6. UNION {Asked(g) : g \in r.sent} \in SUBSET Int
  <2>1. \A k \in DOMAIN l : Asked(l[k]) \in SUBSET Int
    BY DEF Asked
  <2>2. QED
    BY <2>1, <1>3
<1>7. UNION {Asked(l[k]) : k \in DOMAIN l} = {x \in Covered(l) : WithinReach(Covered(l), x)}
  <2>1. \A i \in DOMAIN l : l[i].e <= MsgSize
    BY DEF Within
  <2>2. QED
    BY <2>1, AskedIs
<1>8. asked' \in [budget : Int, count : Nat, naks : SUBSET Int, ended : BOOLEAN]
  BY <1>2, <1>3, <1>6
<1>9. budget > MsgSize /\ (\A i \in DOMAIN l : l[i].n < eomcount) =>
        asked'.naks = {x \in Covered(l) : WithinReach(Covered(l), x)}
  BY <1>2, <1>7, <1>a
<1>10. (asked'.ended /\ asked'.budget # 0 => l = <<>>) /\ (asked'.ended => end)
  BY <1>2, <1>3
<1>11. QED
  BY <1>2, <1>4, <1>5, <1>8, <1>9, <1>10

-----------------------------------------------------------------------------
(* The receiver's calls.                                                    *)
LEMMA QuietAsked ==
  ASSUME NEW ended \in BOOLEAN, asked' = [Quiet EXCEPT !.ended = ended]
  PROVE  /\ asked' \in [budget : Int, count : Nat, naks : SUBSET Int, ended : BOOLEAN]
         /\ asked'.ended = ended
  BY DEF Quiet

(* RecvData's look at old gaps, after the list became l.                    *)
LEMMA CheckpointRight ==
  ASSUME NEW l, Ordered(l), NEW addr \in Nat, Within(l, addr, MsgSize, Most), GapsTypes,
         Checkpoint(l)
  PROVE  /\ Ordered(list') /\ Within(list', addr, MsgSize, Most)
         /\ Covered(list') = Covered(l) /\ GoodFor(list') = GoodFor(l)
         /\ asked' \in [budget : Int, count : Nat, naks : SUBSET Int, ended : BOOLEAN]
         /\ ~asked'.ended
<1>1. CASE list' = l /\ asked' = Quiet
  BY <1>1 DEF Quiet
<1>2. CASE \E b \in Budgets : NAKGaps(l, eoms, b, FALSE)
  <2>1. PICK b \in Budgets : NAKGaps(l, eoms, b, FALSE)
    BY <1>2
  <2>2. b \in Nat /\ Most \in Nat /\ eoms \in Nat /\ eoms <= Most
    BY DEF Most, GapsTypes
  <2> HIDE DEF Most
  <2>3. QED
    BY <2>1, <2>2, NAKGapsRight
<1>3. QED
  BY <1>1, <1>2 DEF Checkpoint

(* What a handler has to show.                                              *)
LEMMA Keeps ==
  ASSUME IInv, NEW addr \in 0 .. MsgSize, msgaddr' = addr, eoms' \in Nat, ending' \in BOOLEAN,
         Ordered(list'), Within(list', addr, MsgSize, Most'), Covered(list') = missing',
         good' = GoodFor(list'),
         asked' \in [budget : Int, count : Nat, naks : SUBSET Int, ended : BOOLEAN],
         asked'.ended /\ asked'.budget # 0 => list' = <<>>
  PROVE  IInv'
<1>1. GoodFor(list') \in 0 .. MsgSize
  <2>1. CASE list' = <<>>
    BY <2>1 DEF GoodFor
  <2>2. CASE list' # <<>>
    <3>1. 1 \in DOMAIN list'
      BY <2>2 DEF Ordered
    <3>2. list'[1].s \in Nat /\ list'[1].s <= addr
      BY <3>1, OrderedFields DEF Within
    <3>3. QED
      BY <2>2, <3>2 DEF GoodFor
  <2>3. QED
    BY <2>1, <2>2
<1>2. GapsTypes'
  BY <1>1 DEF GapsTypes
<1>3. EndsWhole'
  <2>1. list' = <<>> => Covered(list') = {}
    BY CoveredIs
  <2>2. QED
    BY <2>1 DEF EndsWhole
<1>4. QED
  BY <1>2, <1>3 DEF IInv

LEMMA InitInv == Init => IInv
<1> SUFFICES ASSUME Init PROVE IInv
  OBVIOUS
<1>1. list = <<>> /\ list \in Seq(GapRec) /\ Len(list) = 0
  BY DEF Init
<1>2. DOMAIN list = {}
  BY <1>1
<1>3. Covered(list) = {}
  BY <1>2, CoveredIs
<1>4. /\ list = <<>> /\ good = MsgSize /\ msgaddr = 0 /\ eoms = 0 /\ ending = FALSE
      /\ missing = {} /\ asked = Quiet
  BY DEF Init
<1>5. asked \in [budget : Int, count : Nat, naks : SUBSET Int, ended : BOOLEAN] /\ ~asked.ended
  BY <1>4 DEF Quiet
<1>6. MsgSize \in Nat \ {0}
  OBVIOUS
<1>7. GapsTypes
  <2>1. good \in 0 .. MsgSize /\ msgaddr \in 0 .. MsgSize
    BY <1>4, <1>6
  <2>2. eoms \in Nat /\ ending \in BOOLEAN
    BY <1>4
  <2>3. QED
    BY <2>1, <2>2, <1>5 DEF GapsTypes
<1>8. Ordered(list) /\ Within(list, msgaddr, MsgSize, Most)
  BY <1>1, <1>2 DEF Ordered, Within
<1>9. GoodFor(list) = MsgSize
  BY <1>1 DEF GoodFor
<1>10. EndsWhole
  BY <1>4 DEF EndsWhole
<1>11. QED
  BY <1>3, <1>4, <1>5, <1>7, <1>8, <1>9, <1>10 DEF IInv

(* Data n long at a fills what it reaches.                                  *)
LEMMA FillGapRight ==
  ASSUME IInv, NEW a \in 0 .. MsgSize - 1, NEW n \in 1 .. MsgSize - a,
         NEW addr \in Nat, msgaddr <= addr, a + n <= addr, NEW r,
         r = FillGap(list, good, a, n, MsgSize)
  PROVE  /\ Ordered(r.list) /\ Within(r.list, addr, MsgSize, Most)
         /\ Covered(r.list) = missing \ (a .. a + n - 1)
         /\ r.good = GoodFor(r.list)
<1> DEFINE ge == a + n
<1>1. /\ a \in Nat /\ ge \in Nat /\ a < ge /\ MsgSize \in Nat /\ Most \in Nat
      /\ msgaddr \in Nat
  BY DEF IInv, GapsTypes, Most
<1>2. r = Filled(list, GoodFor(list), a, ge, MsgSize) /\ ge <= addr
  BY DEF FillGap, IInv
<1>3. Ordered(list) /\ Within(list, msgaddr, MsgSize, Most) /\ Covered(list) = missing
  BY DEF IInv
<1> HIDE DEF ge, Most
<1>4. /\ Ordered(r.list) /\ Within(r.list, addr, MsgSize, Most)
      /\ Covered(r.list) = Covered(list) \ (a .. ge - 1)
      /\ r.good = GoodFor(r.list)
  BY <1>1, <1>2, <1>3, FilledRight
<1>5. QED
  BY <1>3, <1>4 DEF ge

LEMMA DataBelowInv ==
  ASSUME IInv, NEW a \in 0 .. MsgSize - 1, NEW n \in 1 .. MsgSize - a, DataBelow(a, n)
  PROVE  IInv'
<1> DEFINE r == FillGap(list, good, a, n, MsgSize)
           addr == IF msgaddr < a + n THEN a + n ELSE msgaddr
           ended == ending /\ r.hit /\ r.list = <<>>
<1>1. /\ list' = r.list /\ good' = r.good /\ asked' = [Quiet EXCEPT !.ended = ended]
      /\ missing' = missing \ (a .. a + n - 1) /\ msgaddr' = addr
      /\ UNCHANGED <<eoms, ending>>
  BY DEF DataBelow
<1>2. /\ addr \in 0 .. MsgSize /\ addr \in Nat /\ msgaddr <= addr /\ a + n <= addr
  BY DEF IInv, GapsTypes
<1>e. ending \in BOOLEAN /\ eoms \in Nat
  BY DEF IInv, GapsTypes
<1>b. ended \in BOOLEAN
  BY <1>e DEF FillGap, Filled
<1> HIDE DEF addr
<1>3. /\ Ordered(r.list) /\ Within(r.list, addr, MsgSize, Most)
      /\ Covered(r.list) = missing \ (a .. a + n - 1) /\ r.good = GoodFor(r.list)
  <2> DEFINE q == r
  <2>1. q = FillGap(list, good, a, n, MsgSize)
    OBVIOUS
  <2> HIDE DEF q
  <2>2. /\ Ordered(q.list) /\ Within(q.list, addr, MsgSize, Most)
        /\ Covered(q.list) = missing \ (a .. a + n - 1) /\ q.good = GoodFor(q.list)
    BY <1>2, <2>1, FillGapRight
  <2>3. QED
    BY <2>2 DEF q
<1>4. ended => r.list = <<>>
  OBVIOUS
<1> HIDE DEF r, ended
<1>5. /\ asked' \in [budget : Int, count : Nat, naks : SUBSET Int, ended : BOOLEAN]
      /\ asked'.ended = ended
  BY <1>1, <1>b, QuietAsked
<1>6. Most' = Most
  BY <1>1 DEF Most
<1>7. QED
  BY <1>1, <1>2, <1>3, <1>4, <1>5, <1>6, <1>e, Keeps

LEMMA DataNextInv ==
  ASSUME IInv, NEW a \in 0 .. MsgSize - 1, NEW n \in 1 .. MsgSize - a, DataNext(a, n)
  PROVE  IInv'
<1> DEFINE r == FillGap(list, good, a, n, MsgSize)
<1>1. /\ a = msgaddr /\ good' = r.good /\ Checkpoint(r.list)
      /\ missing' = missing \ (a .. a + n - 1) /\ msgaddr' = a + n
      /\ UNCHANGED <<eoms, ending>>
  BY DEF DataNext
<1>2. a + n \in 0 .. MsgSize /\ a + n \in Nat /\ msgaddr <= a + n /\ a + n <= a + n
  BY <1>1 DEF IInv, GapsTypes
<1>e. ending \in BOOLEAN /\ eoms \in Nat /\ GapsTypes
  BY DEF IInv, GapsTypes
<1>r. r = FillGap(list, good, a, n, MsgSize)
  OBVIOUS
<1> HIDE DEF r
<1>3. /\ Ordered(r.list) /\ Within(r.list, a + n, MsgSize, Most)
      /\ Covered(r.list) = missing \ (a .. a + n - 1) /\ r.good = GoodFor(r.list)
  BY <1>2, <1>r, FillGapRight
<1>4. /\ Ordered(list') /\ Within(list', a + n, MsgSize, Most)
      /\ Covered(list') = Covered(r.list) /\ GoodFor(list') = GoodFor(r.list)
      /\ asked' \in [budget : Int, count : Nat, naks : SUBSET Int, ended : BOOLEAN]
      /\ ~asked'.ended
  BY <1>1, <1>2, <1>3, <1>e, CheckpointRight
<1>6. Most' = Most
  BY <1>1 DEF Most
<1>7. QED
  BY <1>1, <1>2, <1>3, <1>4, <1>6, <1>e, Keeps

(* What is missing from msgaddr up to ge is queued.                         *)
LEMMA QueueRight ==
  ASSUME IInv, NEW ge \in 0 .. MsgSize, msgaddr < ge, NEW r,
         r = QueueGap(list, good, msgaddr, ge)
  PROVE  /\ Ordered(r.list) /\ Within(r.list, msgaddr, MsgSize, Most)
         /\ Covered(r.list) = missing \cup (msgaddr .. ge - 1)
         /\ r.good = GoodFor(r.list)
<1>1. /\ msgaddr \in 0 .. MsgSize /\ Most \in Nat /\ 1 <= Most
      /\ Ordered(list) /\ Within(list, msgaddr, MsgSize, Most) /\ Covered(list) = missing
      /\ r = QueueGap(list, GoodFor(list), msgaddr, ge)
  BY DEF IInv, GapsTypes, Most
<1> HIDE DEF Most
<1>2. /\ Ordered(r.list) /\ Within(r.list, msgaddr, MsgSize, Most)
      /\ Covered(r.list) = Covered(list) \cup (msgaddr .. ge - 1)
      /\ r.good = GoodFor(r.list)
  BY <1>1, QueueGapRight
<1>3. QED
  BY <1>1, <1>2

(* Gaps that start below an address start below a later one.                *)
LEMMA WithinMore ==
  ASSUME NEW l, Ordered(l), NEW a \in Nat, NEW b \in Nat, a <= b, NEW t,
         NEW m \in Nat, NEW n \in Nat, m <= n, Within(l, a, t, m)
  PROVE  Within(l, b, t, n)
  BY OrderedFields DEF Within

LEMMA DataAheadInv ==
  ASSUME IInv, NEW a \in 0 .. MsgSize - 1, NEW n \in 1 .. MsgSize - a, DataAhead(a, n)
  PROVE  IInv'
<1> DEFINE r == QueueGap(list, good, msgaddr, a)
<1>1. /\ a > msgaddr /\ good' = r.good /\ Checkpoint(r.list)
      /\ missing' = missing \cup (msgaddr .. a - 1) /\ msgaddr' = a + n
      /\ UNCHANGED <<eoms, ending>>
  BY DEF DataAhead
<1>2. /\ a + n \in 0 .. MsgSize /\ a + n \in Nat /\ msgaddr < a /\ a \in 0 .. MsgSize
      /\ msgaddr \in Nat /\ msgaddr <= a + n
  BY <1>1 DEF IInv, GapsTypes
<1>e. ending \in BOOLEAN /\ eoms \in Nat /\ GapsTypes /\ Most \in Nat
  BY DEF IInv, GapsTypes, Most
<1>r. r = QueueGap(list, good, msgaddr, a)
  OBVIOUS
<1> HIDE DEF r
<1>3. /\ Ordered(r.list) /\ Within(r.list, msgaddr, MsgSize, Most)
      /\ Covered(r.list) = missing \cup (msgaddr .. a - 1) /\ r.good = GoodFor(r.list)
  BY <1>2, <1>r, QueueRight
<1>w. Within(r.list, a + n, MsgSize, Most)
  BY <1>2, <1>3, <1>e, WithinMore
<1>4. /\ Ordered(list') /\ Within(list', a + n, MsgSize, Most)
      /\ Covered(list') = Covered(r.list) /\ GoodFor(list') = GoodFor(r.list)
      /\ asked' \in [budget : Int, count : Nat, naks : SUBSET Int, ended : BOOLEAN]
      /\ ~asked'.ended
  BY <1>1, <1>2, <1>3, <1>w, <1>e, CheckpointRight
<1>6. Most' = Most
  BY <1>1 DEF Most
<1>7. QED
  BY <1>1, <1>2, <1>3, <1>4, <1>6, <1>e, Keeps

(* An EOM, of which SecondEOMAsks speaks.                                   *)
LEMMA EOMRight ==
  ASSUME IInv, EOM
  PROVE  /\ IInv'
         /\ eoms' >= 2 /\ asked'.budget > MsgSize =>
              asked'.naks = {x \in missing' : WithinReach(missing', x)}
<1> DEFINE r == QueueGap(list, good, msgaddr, MsgSize)
           l == IF msgaddr < MsgSize THEN r.list ELSE list
           addr == IF msgaddr > 0 THEN MsgSize ELSE 0
<1>1. /\ eoms' = eoms + 1 /\ good' = IF msgaddr < MsgSize THEN r.good ELSE good
      /\ \E b \in Budgets : NAKGaps(l, eoms', b, msgaddr > 0)
      /\ missing' = missing \cup (msgaddr .. MsgSize - 1) /\ msgaddr' = addr
      /\ ending' = (ending \/ msgaddr > 0)
  BY DEF EOM
<1>2. /\ msgaddr \in Nat /\ msgaddr \in 0 .. MsgSize /\ addr \in 0 .. MsgSize /\ addr \in Nat
      /\ msgaddr <= addr /\ MsgSize \in 0 .. MsgSize
  BY DEF IInv, GapsTypes
<1>e. /\ ending' \in BOOLEAN /\ eoms \in Nat /\ eoms' \in Nat /\ Most \in Nat /\ Most' \in Nat
      /\ Most <= Most' /\ eoms' <= Most' /\ (eoms' >= 2 => Most < eoms')
  BY <1>1 DEF IInv, GapsTypes, Most
<1>r. r = QueueGap(list, good, msgaddr, MsgSize)
  OBVIOUS
<1> HIDE DEF r, addr
<1>3. /\ Ordered(l) /\ Within(l, msgaddr, MsgSize, Most)
      /\ Covered(l) = missing' /\ good' = GoodFor(l)
  <2>1. CASE msgaddr < MsgSize
    <3>1. /\ Ordered(r.list) /\ Within(r.list, msgaddr, MsgSize, Most)
          /\ Covered(r.list) = missing \cup (msgaddr .. MsgSize - 1) /\ r.good = GoodFor(r.list)
      BY <1>2, <1>r, <2>1, QueueRight
    <3>2. QED
      BY <1>1, <2>1, <3>1
  <2>2. CASE ~(msgaddr < MsgSize)
    <3>1. missing' = missing
      BY <1>1, <1>2, <2>2
    <3>2. QED
      BY <1>1, <2>2, <3>1 DEF IInv
  <2>3. QED
    BY <2>1, <2>2
<1> HIDE DEF l
<1>4. Within(l, addr, MsgSize, Most')
  BY <1>2, <1>3, <1>e, WithinMore
<1>5. PICK b \in Budgets : NAKGaps(l, eoms', b, msgaddr > 0)
  BY <1>1
<1> DEFINE ec == eoms'
           mo == Most'
           end == msgaddr > 0
<1>6. b \in Nat /\ ec \in Nat /\ mo \in Nat /\ ec <= mo /\ end \in BOOLEAN
      /\ Within(l, addr, MsgSize, mo) /\ NAKGaps(l, ec, b, end)
  BY <1>4, <1>5, <1>e
<1> HIDE DEF ec, mo, end
<1>7. /\ Ordered(list') /\ Within(list', addr, MsgSize, mo)
      /\ Covered(list') = Covered(l) /\ GoodFor(list') = GoodFor(l)
      /\ asked' \in [budget : Int, count : Nat, naks : SUBSET Int, ended : BOOLEAN]
      /\ asked'.ended /\ asked'.budget # 0 => l = <<>>
      /\ asked'.budget = b
      /\ b > MsgSize /\ (\A i \in DOMAIN l : l[i].n < ec) =>
           asked'.naks = {x \in Covered(l) : WithinReach(Covered(l), x)}
  BY <1>2, <1>3, <1>6, NAKGapsRight
<1>8. asked'.ended /\ asked'.budget # 0 => list' = <<>>
  <2>1. SUFFICES ASSUME l = <<>>, list' # <<>> PROVE FALSE
    BY <1>7
  <2>2. 1 \in DOMAIN list' /\ DOMAIN l = {}
    BY <1>7, <2>1 DEF Ordered
  <2>3. list'[1].s \in list'[1].s .. list'[1].e - 1
    BY <2>2, <1>7, OrderedFields
  <2>4. list'[1].s \in Covered(list')
    BY <2>2, <2>3, CoveredIs
  <2>5. QED
    BY <2>2, <2>4, <1>7, CoveredIs
<1>9. IInv'
  BY <1>1, <1>2, <1>3, <1>7, <1>8, <1>e, Keeps DEF mo
<1>10. eoms' >= 2 /\ asked'.budget > MsgSize =>
         asked'.naks = {x \in missing' : WithinReach(missing', x)}
  <2>1. SUFFICES ASSUME eoms' >= 2, b > MsgSize
                 PROVE  asked'.naks = {x \in missing' : WithinReach(missing', x)}
    BY <1>7
  <2>2. \A i \in DOMAIN l : l[i].n < ec
    BY <2>1, <1>3, <1>e, OrderedFields DEF Within, ec
  <2>3. QED
    BY <2>1, <2>2, <1>3, <1>7
<1>11. QED
  BY <1>9, <1>10

LEMMA NextInv == IInv /\ [Next]_vars => IInv'
<1> SUFFICES ASSUME IInv, [Next]_vars PROVE IInv'
  OBVIOUS
<1>1. ASSUME NEW a \in 0 .. MsgSize - 1, NEW n \in 1 .. MsgSize - a,
             DataBelow(a, n) \/ DataNext(a, n) \/ DataAhead(a, n)
      PROVE  IInv'
  BY <1>1, DataBelowInv, DataNextInv, DataAheadInv
<1>2. CASE EOM
  BY <1>2, EOMRight
<1>3. CASE UNCHANGED vars
  BY <1>3 DEF vars, IInv, GapsTypes, Ordered, Within, Most, Covered, GoodFor, EndsWhole
<1>4. QED
  BY <1>1, <1>2, <1>3 DEF Next

(* However the data of a message arrives, and however often an EOM does,    *)
(* the gap list is ordered and its gaps start no later than at ch_msgaddr.  *)
THEOREM GapsInvariant == Spec => []IInv
<1>1. QED
  BY InitInv, NextInv, PTL DEF Spec

(* FillGap and QueueGap keep the list the maximal runs of what is missing,  *)
(* for a message of any size cut into data of any size in any order, and    *)
(* goodaddr where the first of them starts (gap.c:43-134, 200-308).         *)
THEOREM GapsListIsRuns == Spec => []ListIsRuns
<1>1. IInv => ListIsRuns
  <2> SUFFICES ASSUME IInv PROVE ListIsRuns
    OBVIOUS
  <2>1. Covered(list) = missing /\ (list # <<>> => good = list[1].s)
    BY DEF IInv, GoodFor
  <2>2. \A i \in DOMAIN list : list[i].s < list[i].e
    BY DEF IInv, Ordered
  <2>3. ASSUME NEW i \in 1 .. Len(list) - 1 PROVE list[i].e < list[i + 1].s
    <3>1. Ordered(list) /\ list \in Seq(GapRec)
      BY DEF IInv, Ordered
    <3>2. i \in DOMAIN list /\ i + 1 \in DOMAIN list /\ i < i + 1
      BY <3>1
    <3>3. QED
      BY <3>1, <3>2 DEF Ordered
  <2>4. QED
    BY <2>1, <2>2, <2>3 DEF ListIsRuns
<1>2. QED
  BY <1>1, GapsInvariant, PTL

(* ``queue gap < previous!'' is never logged: QueueGap is only asked for    *)
(* what begins at ch_msgaddr, and only the last gap can reach as far.       *)
THEOREM GapsNeverGrumbles == Spec => []NeverGrumbles
<1>1. IInv => NeverGrumbles
  <2> SUFFICES ASSUME IInv, NEW e \in msgaddr + 1 .. MsgSize
               PROVE  ~Grumbles(list, msgaddr, e)
    BY DEF NeverGrumbles
  <2>1. Ordered(list) /\ msgaddr \in Nat /\ \A i \in DOMAIN list : list[i].s <= msgaddr
    BY DEF IInv, GapsTypes, Within
  <2>2. list \in Seq(GapRec) /\ Len(list) \in Nat
    BY <2>1 DEF Ordered
  <2>3. StopsAt(list, msgaddr) = Len(list) + 1
        \/ (StopsAt(list, msgaddr) = Len(list) /\ Len(list) \in DOMAIN list)
    BY <2>1, StopsAtLast
  <2>4. CASE StopsAt(list, msgaddr) = Len(list) + 1
    BY <2>2, <2>4 DEF Grumbles
  <2>5. CASE StopsAt(list, msgaddr) = Len(list) /\ Len(list) \in DOMAIN list
    <3>1. list[Len(list)].s \in Nat /\ list[Len(list)].s <= msgaddr
      BY <2>1, <2>5, OrderedFields
    <3>2. QED
      BY <2>1, <2>2, <2>5, <3>1 DEF Grumbles
  <2>6. QED
    BY <2>3, <2>4, <2>5
<1>2. QED
  BY <1>1, GapsInvariant, PTL

(* Recv_EOM and FillGap end a message only when nothing of it is missing,   *)
(* but for a Recv_EOM whose budget is 0.                                    *)
THEOREM GapsEndWhole == Spec => []EndsWhole
<1>1. IInv => EndsWhole
  BY DEF IInv
<1>2. QED
  BY <1>1, GapsInvariant, PTL

(* Every EOM but the first, when its budget is larger than the message,     *)
(* asks again for all that is missing, as far as SendNAK's limits let it:   *)
(* NAKGaps' budget cannot run out, and no gap was NAKed on account of this  *)
(* EOM before.                                                              *)
THEOREM GapsSecondEOMAsks == Spec => SecondEOMAsks
<1>1. IInv /\ [Next]_vars =>
        [eoms' # eoms /\ eoms' >= 2 /\ asked'.budget > MsgSize =>
           asked'.naks = {x \in missing' : WithinReach(missing', x)}]_vars
  <2> SUFFICES ASSUME IInv, Next, eoms' # eoms, eoms' >= 2, asked'.budget > MsgSize
               PROVE  asked'.naks = {x \in missing' : WithinReach(missing', x)}
    OBVIOUS
  <2>1. ASSUME NEW a \in 0 .. MsgSize - 1, NEW n \in 1 .. MsgSize - a,
               DataBelow(a, n) \/ DataNext(a, n) \/ DataAhead(a, n)
        PROVE  FALSE
    BY <2>1 DEF DataBelow, DataNext, DataAhead
  <2>2. EOM
    BY <2>1 DEF Next
  <2>3. QED
    BY <2>2, EOMRight
<1>2. QED
  BY <1>1, GapsInvariant, PTL DEF Spec, SecondEOMAsks
=============================================================================
