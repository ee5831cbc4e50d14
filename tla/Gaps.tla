-------------------------------- MODULE Gaps --------------------------------
(***************************************************************************)
(* The gap list of an incoming message (VCdaemon/gap.c): which parts of    *)
(* the message file the receiver still has to ask for.                     *)
(*                                                                         *)
(* A list is a sequence of records [s, e, n]: the gap covers the addresses *)
(* s .. e-1 and n is send_gap, how often it was NAKed on account of an     *)
(* EOM.  The linked list and its free list become a sequence; time_gap     *)
(* becomes the set of starts of the gaps whose NAK has timed out.          *)
(*                                                                         *)
(* The loops are functions of how many gaps they have passed.  Nothing is  *)
(* assumed of the order of the list: that it is ordered is a property.     *)
(***************************************************************************)
EXTENDS Integers, Sequences, FiniteSets, FiniteSetsExt

CONSTANTS MsgSize,     (* bytes in the message                             *)
          MAXNAKSIZE,  (* most bytes one NAK asks for                      *)
          MaxNAKs      (* most NAKs that one call of SendNAK sends         *)

ASSUME NAKAssumption ==
  MsgSize \in Nat \ {0} /\ MAXNAKSIZE \in Nat \ {0} /\ MaxNAKs \in Nat \ {0}

Gap(s, e, n) == [s |-> s, e |-> e, n |-> n]

(* What a gap, and what a list, stands for: addresses.                     *)
Addresses(g) == g.s .. g.e - 1
Covered(list) == UNION {Addresses(list[i]) : i \in DOMAIN list}

Start(list, n) == SubSeq(list, 1, n)
Rest(list, n) == SubSeq(list, n, Len(list))

-----------------------------------------------------------------------------
(* The gaps, by number, that the bytes gs .. ge-1 reach.  FillGap's walk    *)
(* goes no further than a gap that ends no earlier than the data.           *)
Touched(list, gs, ge) ==
  {k \in DOMAIN list :
     /\ gs < list[k].e /\ ge > list[k].s
     /\ \A j \in 1 .. k - 1 : gs >= list[j].e \/ (ge > list[j].s /\ ge > list[j].e)}

(* What they leave of a gap g.                                              *)
Pieces(g, gs, ge) ==
  (IF gs > g.s THEN <<[g EXCEPT !.e = gs]>> ELSE <<>>)
    \o (IF ge < g.e THEN <<[g EXCEPT !.s = ge]>> ELSE <<>>)

(* The walk: what it has made of the first k gaps.                          *)
Fill(list, gs, ge) ==
  LET made[k \in 0 .. Len(list)] ==
        IF k = 0 THEN <<>>
        ELSE made[k - 1] \o (IF k \in Touched(list, gs, ge)
                             THEN Pieces(list[k], gs, ge) ELSE <<list[k]>>)
  IN  made[Len(list)]

(* A change of the list: with bytes up to ge, goodaddr is recomputed when   *)
(* the start of a gap was cut off; hit is what FillGap returns.             *)
Filled(list, good, gs, ge, msgsize) ==
  LET hits == Touched(list, gs, ge)
      left == Fill(list, gs, ge)
  IN [list |-> left,
      hit  |-> hits # {},
      good |-> IF \A k \in hits : gs > list[k].s THEN good
               ELSE IF left = <<>> THEN msgsize ELSE left[1].s]

(* Wrong: the end of the data is taken for its last byte.                  *)
FillGapInclusive(list, good, gs, size, msgsize) ==
  Filled(list, good, gs, gs + size - 1, msgsize)

FillGap(list, good, gs, size, msgsize) ==
  Filled(list, good, gs, gs + size, msgsize)

-----------------------------------------------------------------------------
(* QueueGap's walk stops at the first gap that ends at gs or beyond.       *)
StopsAt(list, gs) ==
  Min({k \in DOMAIN list : gs <= list[k].e} \cup {Len(list) + 1})

(* A gap that is made to end at ge swallows those behind it that it        *)
(* reaches: how far it gets with the ones from `from' to k, and the last   *)
(* it swallows.                                                            *)
Reach(list, ge, from, k) == Max({ge} \cup {list[i].e : i \in from .. k})
Swallows(list, ge, at) ==
  Min({k \in at .. Len(list) :
         k = Len(list) \/ Reach(list, ge, at + 1, k) < list[k + 1].s})

(* QueueGap: the data from gs up to ge is missing.  The gap at which the   *)
(* walk stops grows, or the new one goes before it.  A gap that was known  *)
(* is not NAKed again, and leaves goodaddr alone.                          *)
QueueGap(list, good, gs, ge) ==
  LET at    == StopsAt(list, gs)
      fresh == at > Len(list) \/ ge < list[at].s
      known == ~fresh /\ gs >= list[at].s /\ ge <= list[at].e
      upto  == IF ge > list[at].e THEN Swallows(list, ge, at) ELSE at
      grown == [list[at] EXCEPT
                  !.s = IF gs < @ THEN gs ELSE @,
                  !.e = IF ge > @ THEN Reach(list, ge, at + 1, upto) ELSE @]
  IN [list |-> IF fresh THEN Start(list, at - 1) \o <<Gap(gs, ge, 1)>> \o Rest(list, at)
               ELSE Start(list, at - 1) \o <<grown>> \o Rest(list, upto + 1),
      good |-> IF ~known /\ gs < good THEN gs ELSE good]

(* QueueGap grumbles ``queue gap < previous!'' when the gap list reaches    *)
(* beyond ch_msgaddr in a way it should not.                               *)
Grumbles(list, gs, ge) ==
  LET at == StopsAt(list, gs)
  IN  /\ at <= Len(list)
      /\ gs < list[at].s \/ (ge > list[at].e /\ at < Len(list))

-----------------------------------------------------------------------------
(* How many bytes SendNAK, called for gap g, asks for, and which: a gap too *)
(* large for the NAKs it may send is asked for up to where they reach; only *)
(* a whole message is asked for in one.                                    *)
MaxAsked == MAXNAKSIZE * MaxNAKs
SendNAK(g) ==
  LET length == g.e - g.s
  IN  IF length > MaxAsked /\ ~(g.s = 0 /\ length >= MsgSize) THEN MaxAsked ELSE length
Asked(g) == g.s .. g.s + SendNAK(g) - 1

(* NAKGaps: walk the list while the budget lasts, NAKing every gap not yet *)
(* NAKed for this EOM and every gap whose last NAK timed out.              *)
Again(g, eomcount) == g.n < eomcount
Sends(g, eomcount, timedOut) == Again(g, eomcount) \/ g.s \in timedOut

(* The budget that is left after k gaps.  It is an unsigned long: if more   *)
(* is asked for than is left, it wraps round to something huge.             *)
Left(list, eomcount, timedOut, budget, huge) ==
  LET left[k \in 0 .. Len(list)] ==
        IF k = 0 THEN budget
        ELSE LET b == left[k - 1]
                 size == IF Sends(list[k], eomcount, timedOut)
                         THEN SendNAK(list[k]) ELSE 0
             IN  IF size > b THEN huge ELSE b - size
  IN  left

(* sent are the gaps NAKed, count the number of gaps visited, which is what *)
(* the caller tests.                                                        *)
NAKWalk(list, eomcount, timedOut, budget, huge) ==
  LET left == Left(list, eomcount, timedOut, budget, huge)
      visited == {k \in DOMAIN list : \A j \in 0 .. k - 1 : left[j] > 0}
  IN [list  |-> [k \in DOMAIN list |->
                   IF k \in visited /\ Again(list[k], eomcount)
                   THEN [list[k] EXCEPT !.n = @ + 1] ELSE list[k]],
      sent  |-> {list[k] : k \in {v \in visited : Sends(list[v], eomcount, timedOut)}},
      count |-> Cardinality(visited)]
=============================================================================
