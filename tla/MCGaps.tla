------------------------------- MODULE MCGaps -------------------------------
(***************************************************************************)
(* The gap list of Gaps as RecvData and Recv_EOM (VCdaemon/receiver.c)     *)
(* drive it while one message arrives, beside the plain set of addresses   *)
(* it stands for.  VCReceiver works with that set; the properties here are *)
(* what makes that right.                                                  *)
(***************************************************************************)
EXTENDS Gaps

CONSTANTS Huge,     (* what the unsigned budget of NAKGaps wraps round to  *)
          Budgets,  (* budgets NAKGaps is called with                      *)
          MaxEOMs   (* bound: EOMs received                                *)

ASSUME GapsAssumption == Huge \in Nat /\ Budgets \subseteq Nat /\ MaxEOMs \in Nat

VARIABLES list,     (* ch_gaplist                                          *)
          good,     (* ch_goodaddr                                         *)
          msgaddr,  (* ch_msgaddr                                          *)
          eoms,     (* ch_eomcount                                         *)
          ending,   (* the state is CH_ENDING                              *)
          missing,  (* history: the addresses queued and not filled since  *)
          asked     (* what the last handler did: the budget it gave       *)
                    (* NAKGaps (-1: not called), the count it returned,    *)
                    (* the addresses it NAKed, and whether it ended the    *)
                    (* message                                             *)

vars == <<list, good, msgaddr, eoms, ending, missing, asked>>

Quiet == [budget |-> -1, count |-> 0, naks |-> {}, ended |-> FALSE]

Init ==
  /\ list = <<>> /\ good = MsgSize /\ msgaddr = 0 /\ eoms = 0 /\ ending = FALSE
  /\ missing = {} /\ asked = Quiet

(* Wrong: the EOM is counted only after the gaps are walked.               *)
NAKGapsBeforeCounting(l, eomcount, budget, end) ==
  \E timedOut \in SUBSET {l[i].s : i \in DOMAIN l} :
    LET r == NAKWalk(l, eomcount - 1, timedOut, budget, Huge)
    IN /\ list' = r.list
       /\ asked' = [budget |-> budget, count |-> r.count,
                    naks |-> UNION {Asked(g) : g \in r.sent},
                    ended |-> end /\ r.count = 0]

(* Wrong: only the gaps that were NAKed are counted.                       *)
NAKGapsCountingSent(l, eomcount, budget, end) ==
  \E timedOut \in SUBSET {l[i].s : i \in DOMAIN l} :
    LET r == NAKWalk(l, eomcount, timedOut, budget, Huge)
    IN /\ list' = r.list
       /\ asked' = [budget |-> budget, count |-> Cardinality(r.sent),
                    naks |-> UNION {Asked(g) : g \in r.sent},
                    ended |-> end /\ r.sent = {}]

(* A call of NAKGaps on list l; any of the NAKs may have timed out.        *)
NAKGaps(l, eomcount, budget, end) ==
  \E timedOut \in SUBSET {l[i].s : i \in DOMAIN l} :
    LET r == NAKWalk(l, eomcount, timedOut, budget, Huge)
    IN /\ list' = r.list
       /\ asked' = [budget |-> budget, count |-> r.count,
                    naks |-> UNION {Asked(g) : g \in r.sent},
                    ended |-> end /\ r.count = 0]

(* RecvData's check, at most once in NAK_TIMEOUT, of old gaps.             *)
Checkpoint(l) ==
  \/ list' = l /\ asked' = Quiet
  \/ l # <<>> /\ \E b \in Budgets : NAKGaps(l, eoms, b, FALSE)

(* Wrong: ch_msgaddr does not move with data that runs beyond it.          *)
DataBelowKeepsAddr(a, n) ==
  /\ a < msgaddr
  /\ LET r == FillGap(list, good, a, n, MsgSize) IN
       /\ list' = r.list /\ good' = r.good
       /\ asked' = [Quiet EXCEPT !.ended = ending /\ r.hit /\ r.list = <<>>]
  /\ missing' = missing \ (a .. a + n - 1)
  /\ UNCHANGED <<msgaddr, eoms, ending>>

DataBelow(a, n) ==
  /\ a < msgaddr
  /\ LET r == FillGap(list, good, a, n, MsgSize) IN
       /\ list' = r.list /\ good' = r.good
       /\ asked' = [Quiet EXCEPT !.ended = ending /\ r.hit /\ r.list = <<>>]
  /\ missing' = missing \ (a .. a + n - 1)
  /\ msgaddr' = IF msgaddr < a + n THEN a + n ELSE msgaddr
  /\ UNCHANGED <<eoms, ending>>

DataNext(a, n) ==
  /\ a = msgaddr
  /\ LET r == FillGap(list, good, a, n, MsgSize) IN good' = r.good /\ Checkpoint(r.list)
  /\ missing' = missing \ (a .. a + n - 1)
  /\ msgaddr' = a + n
  /\ UNCHANGED <<eoms, ending>>

DataAhead(a, n) ==
  /\ a > msgaddr
  /\ LET r == QueueGap(list, good, msgaddr, a) IN good' = r.good /\ Checkpoint(r.list)
  /\ missing' = missing \cup (msgaddr .. a - 1)
  /\ msgaddr' = a + n
  /\ UNCHANGED <<eoms, ending>>

(* Recv_EOM: what has not been seen yet is missing.                        *)
EOM ==
  /\ eoms < MaxEOMs
  /\ eoms' = eoms + 1
  /\ LET r == QueueGap(list, good, msgaddr, MsgSize)
         l == IF msgaddr < MsgSize THEN r.list ELSE list
     IN /\ good' = IF msgaddr < MsgSize THEN r.good ELSE good
        /\ \E b \in Budgets : NAKGaps(l, eoms', b, msgaddr > 0)
  /\ missing' = missing \cup (msgaddr .. MsgSize - 1)
  /\ msgaddr' = IF msgaddr > 0 THEN MsgSize ELSE 0
  /\ ending' = (ending \/ msgaddr > 0)

(* An ended message is passed on: nothing more happens to its gaps.        *)
Next ==
  /\ ~asked.ended
  /\ \/ \E a \in 0 .. MsgSize - 1 : \E n \in 1 .. MsgSize - a :
           DataBelow(a, n) \/ DataNext(a, n) \/ DataAhead(a, n)
     \/ EOM

Spec == Init /\ [][Next]_vars

-----------------------------------------------------------------------------
(* The list is, in order, the maximal runs of the addresses that are       *)
(* missing: no gap is empty, none overlaps or touches the next, and        *)
(* together they are neither more nor less than what was queued and has    *)
(* not arrived (gap.c:61-129, 206-290).  While anything is missing,        *)
(* goodaddr is where the first gap starts: a later life goes on neither    *)
(* beyond a hole nor earlier than it need.                                 *)
ListIsRuns ==
  /\ Covered(list) = missing
  /\ \A i \in DOMAIN list : list[i].s < list[i].e
  /\ \A i \in 1 .. Len(list) - 1 : list[i].e < list[i + 1].s
  /\ list # <<>> => good = list[1].s

(* The list never reaches beyond ch_msgaddr in the way QueueGap reports as *)
(* ``queue gap < previous!'' (gap.c:212).                                  *)
NeverGrumbles ==
  \A e \in msgaddr + 1 .. MsgSize : ~Grumbles(list, msgaddr, e)

(* A message ends only when nothing is missing: the count that Recv_EOM    *)
(* tests (receiver.c:435) is 0 only for an empty list, unless the budget   *)
(* is 0, which it is when the measured data rate is (receiver.c:411): then *)
(* the message ends with its holes.                                        *)
EndsWhole == asked.ended /\ asked.budget # 0 => missing = {}

(* Of a run of missing addresses SendNAK asks for the first ones only, as  *)
(* many as its NAKs take, unless all of the message is missing.            *)
WithinReach(S, x) == S = 0 .. MsgSize - 1 \/ ~(x - MaxAsked .. x \subseteq S)

(* From the second EOM on, one that can afford it asks again for all that  *)
(* is missing, of each run of it as much as SendNAK asks for at once,      *)
(* however often and in however many pieces it was asked for before: a     *)
(* lost NAK costs one round and no timeout.                                *)
SecondEOMAsks ==
  [][eoms' # eoms /\ eoms' >= 2 /\ asked'.budget > MsgSize =>
       asked'.naks = {x \in missing' : WithinReach(missing', x)}]_vars
=============================================================================
