--------------------------- MODULE Router_proofs ---------------------------
(***************************************************************************)
(* Proofs about Router, for any number of routers, messages, links,        *)
(* signals and deaths.                                                     *)
(*                                                                         *)
(* NothingLost needs to know what a copy of a broadcast that is dropped as *)
(* a duplicate may rely on: another copy that is firm, that is, one that   *)
(* will not be dropped itself.                                             *)
(*                                                                         *)
(* RepeatsMarked, the second half of the module, needs to know which       *)
(* router may give a message unmarked, and where it has not gone yet.      *)
(***************************************************************************)
EXTENDS Router, TLAPS

USE RouterAssumption

Handles == {"route", "lookup", "deliver", "rest", "spool", "cleanup"}

(* Message i has gone to place p, or to its sender. *)
Served(i, p) == given[i][p] # "no" \/ i \in returned
AllServed(i) == \A p \in Places(i) : Served(i, p)

(* Copy m is firm: it is kept for inspection, or its commands file says     *)
(* that it was routed in part, or a router is past the data-base with it.   *)
PastLookup(r, m) ==
  router[r].cmds /\ Mesg(r) = m /\ router[r].pc \in {"deliver", "rest", "spool"}

Firm(m) ==
  /\ m \in data
  /\ \/ m \in bad
     \/ /\ m \in queue
        /\ "RE_ROUTE" \in flags[m] \/ \E r \in Routers : PastLookup(r, m)

FirmCopy(i) == \E m \in Mesgs : Id[m] = i /\ Firm(m)

Present(m) == m \in coming \/ (m \in data /\ m \in queue \cup bad)

(* The broadcasts in the data-base, or in a router's buffer. *)
Noted == known \cup UNION {router[r].ids : r \in Routers}

(* What a router has at hand, by the step it is at. *)
AtHand == \A r \in Routers :
  /\ router[r].pc \in {"route", "lookup", "deliver"} =>
       router[r].cmds /\ router[r].cleanup /\ router[r].todo = Bound[HdrID(r)]
  /\ router[r].pc = "rest" => router[r].todo = Bound[HdrID(r)]
  /\ router[r].pc = "lookup" => MustBeNew(r)
  /\ router[r].cmds => router[r].flags = flags[Mesg(r)]

Unspoilt(r) == router[r].pc \in Handles /\ HdrID(r) \notin spoilt

(* Where the message at hand is: in the queue, or left there by leave_cmds; *)
(* and if its data files are not to be unlinked it is kept, or they were.   *)
Whereabouts == \A r \in Routers : Unspoilt(r) =>
  /\ router[r].cmds => Mesg(r) \in queue
  /\ ~router[r].cmds => ~router[r].cleanup /\ router[r].pc \in {"spool", "cleanup"}
  /\ router[r].cmds /\ ~router[r].cleanup =>
       Mesg(r) \in bad \/ (router[r].pc = "cleanup" /\ Mesg(r) \notin data)
  /\ router[r].pc \in {"lookup", "deliver"} => Mesg(r) \in data

(* Where it has gone, unless it was left or kept: what is unlinked has gone *)
(* everywhere, or is a duplicate of a firm copy and not firm itself.        *)
Progress == \A r \in Routers, m \in Mesgs :
  Unspoilt(r) /\ router[r].cleanup /\ m = Mesg(r) =>
    /\ router[r].pc \in {"rest", "spool"} =>
         \A p \in Places(Id[m]) \ router[r].todo : Served(Id[m], p)
    /\ router[r].pc = "cleanup" =>
         AllServed(Id[m]) \/ (Id[m] \in Broadcasts /\ ~Firm(m) /\ FirmCopy(Id[m]))

(* The flag DELIVERED is true. *)
FlagTrue == \A m \in Mesgs :
  Id[m] \notin spoilt /\ Id[m] \in Here /\ "DELIVERED" \in flags[m] => Served(Id[m], "here")

NotedIsFirm ==
  /\ Noted \subseteq Broadcasts
  /\ \A i \in Noted \ spoilt : AllServed(i) \/ FirmCopy(i)

(* A broadcast that is kept and still in the queue is at hand. *)
BadIsOver ==
  /\ coming \cap (queue \cup bad) = {}
  /\ \A m \in bad \cap queue :
       Id[m] \in Broadcasts \ spoilt /\ "RE_ROUTE" \notin flags[m] =>
         \E r \in Routers : router[r].cmds /\ Mesg(r) = m /\ ~router[r].cleanup

IsPresent == \A i \in Ids \ spoilt : AllServed(i) \/ \E m \in Mesgs : Id[m] = i /\ Present(m)

IInv == /\ RouterTypeOK /\ AtHand /\ Whereabouts /\ Progress
        /\ FlagTrue /\ NotedIsFirm /\ BadIsOver /\ IsPresent

-----------------------------------------------------------------------------
LEMMA IdFacts ==
  \A m \in Mesgs : /\ Id[m] \in Ids
                   /\ Bound[Id[m]] \subseteq Links /\ "here" \notin Bound[Id[m]]
                   /\ Places(Id[m]) \subseteq AllPlaces
BY DEF Ids, Links, Places, AllPlaces

LEMMA PlacesFact == \A i \in Ids : Places(i) \subseteq AllPlaces
BY DEF Links, Places, AllPlaces

LEMMA SetFacts ==
  ASSUME RouterTypeOK, NEW r \in Routers, NEW y \in RouterVars, Set(r, y)
  PROVE  /\ router' \in [Routers -> RouterVars] /\ router'[r] = y
         /\ \A q \in Routers : q # r => router'[q] = router[q]
BY DEF Set, RouterTypeOK

LEMMA FieldTypes ==
  \A x \in RouterVars :
    /\ x.cmds \in BOOLEAN /\ x.cleanup \in BOOLEAN /\ x.Finish \in BOOLEAN
    /\ x.list \subseteq Mesgs /\ x.flags \subseteq Flags /\ x.todo \subseteq Links /\ x.ids \subseteq Ids
BY DEF RouterVars

(* Places only come to be served. *)
Serves ==
  /\ given' \in [Ids -> [AllPlaces -> Marks]] /\ returned' \subseteq Ids
  /\ \A i \in Ids, p \in AllPlaces : Served(i, p) => Served(i, p)'

LEMMA GiveServes ==
  ASSUME RouterTypeOK, NEW i \in Ids, NEW p \in AllPlaces, NEW b \in BOOLEAN,
         Give(i, p, b), UNCHANGED returned
  PROVE  Serves /\ Served(i, p)'
<1>1. /\ given \in [Ids -> [AllPlaces -> Marks]] /\ returned \subseteq Ids
  BY DEF RouterTypeOK
<1>2. given' = [given EXCEPT ![i][p] = Given(given[i][p], b)]
  BY DEF Give
<1>3. \A g \in Marks : Given(g, b) \in Marks \ {"no"}
  BY DEF Given, Marks
<1>4. given[i][p] \in Marks
  BY <1>1
<1>5. Given(given[i][p], b) \in Marks \ {"no"}
  BY <1>3, <1>4
<1> DEFINE g == Given(given[i][p], b)
<1> HIDE DEF g
<1>6. g \in Marks \ {"no"} /\ given' = [given EXCEPT ![i][p] = g]
  BY <1>2, <1>5 DEF g
<1>7. given' \in [Ids -> [AllPlaces -> Marks]]
  BY <1>1, <1>6
<1>8. \A j \in Ids, q \in AllPlaces :
         given'[j][q] = IF j = i /\ q = p THEN g ELSE given[j][q]
  BY <1>1, <1>6
<1>9. QED
  BY <1>1, <1>6, <1>7, <1>8 DEF Serves, Served

(* What a router does not have at hand stays as it is. *)
LEMMA Holders ==
  ASSUME RouterTypeOK, NEW r \in Routers, NEW q \in Routers, q # r,
         router[r].cmds, router[q].cmds
  PROVE  Mesg(r) # Mesg(q)
<1>1. lock[Mesg(r)] = {r} /\ lock[Mesg(q)] = {q}
  BY DEF RouterTypeOK
<1>2. QED
  BY <1>1

(* Of the files only the commands file at hand is touched: flags are added, *)
(* it is given back, or kept.                                               *)
Touches(r, m) ==
  /\ UNCHANGED <<coming, queue, data>>
  /\ flags' \in [Mesgs -> SUBSET Flags] /\ lock' \in [Mesgs -> SUBSET Routers]
  /\ \A k \in Mesgs : k # m \/ ~router[r].cmds => flags'[k] = flags[k] /\ lock'[k] = lock[k]
  /\ flags[m] \subseteq flags'[m]
  /\ bad' = bad \/ (router[r].cmds /\ m \in queue /\ bad' = bad \cup {m})

(* The router's variables go from router[r] to y. *)
Goes(r, y) ==
  /\ y \in RouterVars /\ Set(r, y)
  /\ y.m = router[r].m /\ y.flags = router[r].flags
  /\ y.todo \subseteq router[r].todo
  /\ y.cmds => router[r].cmds
  /\ y.cleanup => router[r].cleanup
  /\ router[r].pc \in Handles \ {"cleanup"} /\ y.pc \in Handles \ {"route"}
  /\ y.pc \in {"lookup", "deliver"} => router[r].pc \in {"route", "lookup"}
  /\ y.pc = "rest" => router[r].pc = "deliver"
  /\ y.pc \in {"lookup", "deliver", "rest"} => y.todo = router[r].todo
  /\ y.pc \in {"lookup", "deliver"} => y.cmds = router[r].cmds /\ y.cleanup = router[r].cleanup

(* A step of route, deliver or spool, with the message at hand: what it has *)
(* to do for the invariant.                                                 *)
LEMMA HandleStep ==
  ASSUME IInv, NEW r \in Routers, NEW y, Goes(r, y),
         NEW m \in Mesgs, m = Mesg(r), NEW i \in Ids, i = HdrID(r),
         Touches(r, m), Serves,
         spoilt \subseteq spoilt', spoilt' \subseteq Ids, died' = died, known' \subseteq Ids,
         y.cmds => flags'[m] = flags[m] /\ lock'[m] = lock[m],
         bad' # bad => y.cmds /\ ~y.cleanup,
         y.pc = "lookup" => MustBeNew(r),
         "DELIVERED" \in flags'[m] \ flags[m] /\ i \in Here \ spoilt' => Served(i, "here")',
         i \notin spoilt' =>
           /\ y.pc \in {"lookup", "deliver"} => m \in data
           /\ ~y.cmds => ~y.cleanup /\ y.pc \in {"spool", "cleanup"}
           /\ y.cmds /\ ~y.cleanup => m \in bad',
         i \notin spoilt' /\ y.cleanup =>
           /\ y.pc \in {"rest", "spool"} =>
                \A p \in Places(i) \ y.todo : Served(i, p)'
           /\ y.pc = "cleanup" =>
                \/ AllServed(i)'
                \/ /\ i \in Broadcasts /\ router[r].pc = "lookup" /\ FirmCopy(i)
                   /\ y.cmds /\ bad' = bad,
         i \in Broadcasts \ spoilt' /\ router[r].cmds /\ ~y.cmds /\ router[r].pc # "route" =>
           "RE_ROUTE" \in flags'[m],
         \/ Noted' \subseteq Noted
         \/ Noted' \subseteq Noted \cup {i} /\ y.pc = "deliver" /\ i \in Broadcasts
  PROVE  IInv'
<1> DEFINE x == router[r]
<1>1. /\ router' \in [Routers -> RouterVars] /\ router'[r] = y
      /\ \A q \in Routers : q # r => router'[q] = router[q]
  BY SetFacts DEF IInv, Goes
<1>2. /\ x \in RouterVars /\ x.cmds \in BOOLEAN /\ x.cleanup \in BOOLEAN
      /\ y.cmds \in BOOLEAN /\ y.cleanup \in BOOLEAN
      /\ i = Id[m] /\ x.todo \subseteq Bound[i]
  BY FieldTypes, IdFacts DEF IInv, RouterTypeOK, HdrID, Mesg, Handles, At, Handling, Goes
<1>3. /\ coming' = coming /\ queue' = queue /\ data' = data /\ died' = died
      /\ bad \subseteq bad' /\ \A k \in Mesgs : flags[k] \subseteq flags'[k]
  BY DEF Touches
<1>4. /\ y.m = x.m /\ y.flags = x.flags /\ y.todo \subseteq x.todo
      /\ x.pc \in Handles \ {"cleanup"} /\ y.pc \in Handles \ {"route"}
      /\ (y.cmds => x.cmds) /\ (y.cleanup => x.cleanup)
  BY DEF Goes
<1>5. ASSUME NEW q \in Routers, q # r, router[q].cmds, NEW n \in Mesgs, n = Mesg(q)
      PROVE  /\ flags'[n] = flags[n] /\ lock'[n] = lock[n]
             /\ n \in bad' => n \in bad
             /\ x.cmds => n # m
  <2>1. x.cmds => n # m
    BY <1>5, Holders DEF IInv
  <2>2. QED
    BY <2>1 DEF Touches
<1>6. RouterTypeOK'
  <2>1. ASSUME NEW q \in Routers
        PROVE
          /\ ~(At(q, "down") \/ At(q, "list") \/ At(q, "scan"))' => Mesg(q)' \in Mesgs
          /\ Handling(q)' => router'[q].todo \subseteq Bound[HdrID(q)']
          /\ router'[q].cmds => Handling(q)' /\ lock'[Mesg(q)'] = {q}
    <3>1. CASE q = r
      BY <1>1, <1>2, <1>4, <3>1 DEF IInv, RouterTypeOK, HdrID, Mesg, Handles, At, Handling
    <3>2. CASE q # r
      <4>1. router'[q] = router[q]
        BY <1>1, <3>2
      <4>2. /\ ~(At(q, "down") \/ At(q, "list") \/ At(q, "scan")) => Mesg(q) \in Mesgs
            /\ Handling(q) => router[q].todo \subseteq Bound[HdrID(q)]
            /\ router[q].cmds => Handling(q) /\ lock[Mesg(q)] = {q}
        BY DEF IInv, RouterTypeOK
      <4>3. router[q].cmds => lock'[Mesg(q)] = {q}
        BY <4>2, <3>2, <1>5 DEF Handling, At
      <4>4. QED
        BY <4>1, <4>2, <4>3 DEF At, Mesg, HdrID, Handling
    <3>3. QED
      BY <3>1, <3>2
  <2>2. /\ coming' \cup queue' \cup data' \cup bad' \subseteq Mesgs
        /\ flags' \in [Mesgs -> SUBSET Flags] /\ lock' \in [Mesgs -> SUBSET Routers]
    BY DEF IInv, RouterTypeOK, Touches
  <2>3. given' \in [Ids -> [AllPlaces -> Marks]] /\ returned' \cup spoilt' \cup died' \cup known' \subseteq Ids
    BY DEF IInv, RouterTypeOK, Serves
  <2>4. QED
    BY <1>1, <2>1, <2>2, <2>3 DEF RouterTypeOK
<1>7. AtHand'
  <2> SUFFICES ASSUME NEW q \in Routers
      PROVE  /\ router'[q].pc \in {"route", "lookup", "deliver"} =>
                   router'[q].cmds /\ router'[q].cleanup /\ router'[q].todo = Bound[HdrID(q)']
             /\ router'[q].pc = "rest" => router'[q].todo = Bound[HdrID(q)']
             /\ router'[q].pc = "lookup" => MustBeNew(q)'
             /\ router'[q].cmds => router'[q].flags = flags'[Mesg(q)']
    BY DEF AtHand
  <2>1. CASE q = r
    BY <1>1, <1>2, <1>4, <2>1 DEF IInv, AtHand, HdrID, Mesg, MustBeNew, Handles, Goes
  <2>2. CASE q # r
    <3>1. router'[q] = router[q]
      BY <1>1, <2>2
    <3>2. router[q].cmds => flags'[Mesg(q)] = flags[Mesg(q)]
      BY <1>5, <2>2 DEF IInv, RouterTypeOK, At, Handling
    <3>3. QED
      BY <3>1, <3>2 DEF IInv, AtHand, HdrID, Mesg, MustBeNew
  <2>3. QED
    BY <2>1, <2>2
<1>8. Whereabouts'
  <2> SUFFICES ASSUME NEW q \in Routers, Unspoilt(q)'
      PROVE  /\ router'[q].cmds => Mesg(q)' \in queue'
             /\ ~router'[q].cmds => ~router'[q].cleanup /\ router'[q].pc \in {"spool", "cleanup"}
             /\ router'[q].cmds /\ ~router'[q].cleanup =>
                  Mesg(q)' \in bad' \/ (router'[q].pc = "cleanup" /\ Mesg(q)' \notin data')
             /\ router'[q].pc \in {"lookup", "deliver"} => Mesg(q)' \in data'
    BY DEF Whereabouts
  <2>1. CASE q = r
    <3>1. Mesg(q)' = m /\ i \notin spoilt' /\ router'[q] = y
      BY <1>1, <1>2, <1>4, <2>1 DEF Unspoilt, HdrID, Mesg
    <3>2. i \notin spoilt
      BY <3>1
    <3>3. x.cmds => m \in queue
      BY <3>2, <1>4 DEF IInv, Whereabouts, Unspoilt
    <3>4. QED
      BY <3>1, <3>3, <1>3, <1>4
  <2>2. CASE q # r
    BY <1>1, <1>3, <2>2 DEF IInv, Whereabouts, Unspoilt, HdrID, Mesg
  <2>3. QED
    BY <2>1, <2>2
<1>9. ASSUME NEW q \in Routers, NEW k \in Mesgs, PastLookup(q, k)'
      PROVE  PastLookup(q, k) \/ (q = r /\ k = m /\ y.cmds /\ y.pc \in {"deliver", "rest", "spool"})
  BY <1>1, <1>4, <1>9 DEF PastLookup, Mesg
<1>10. ASSUME NEW k \in Mesgs, Id[k] \in Broadcasts \ spoilt', Firm(k)
       PROVE  Firm(k)' \/ AllServed(Id[k])'
  <2>1. CASE k \in bad \/ "RE_ROUTE" \in flags[k]
    BY <1>3, <1>10, <2>1 DEF Firm
  <2>2. CASE \E q \in Routers : q # r /\ PastLookup(q, k)
    BY <1>1, <1>3, <1>10, <2>2 DEF Firm, PastLookup, Mesg
  <2>3. CASE PastLookup(r, k)
    <3>1. k = m /\ i = Id[k] /\ x.cmds /\ x.pc \in {"deliver", "rest", "spool"} /\ i \notin spoilt'
      BY <1>2, <1>10, <2>3 DEF PastLookup
    <3>2. CASE y.cmds /\ y.pc # "cleanup"
      <4>1. PastLookup(r, k)'
        BY <1>1, <1>4, <3>1, <3>2 DEF PastLookup, Mesg, Handles, Goes
      <4>2. QED
        BY <1>3, <1>10, <4>1 DEF Firm
    <3>3. CASE y.pc = "cleanup" /\ y.cleanup
      <4>1. AllServed(i)'
        BY <3>1, <3>3
      <4>2. QED
        BY <3>1, <4>1
    <3>4. CASE y.cmds /\ ~y.cleanup
      BY <1>3, <1>10, <3>1, <3>4 DEF Firm
    <3>5. CASE ~y.cmds
      BY <1>3, <1>10, <3>1, <3>5 DEF Firm
    <3>6. QED
      BY <3>2, <3>3, <3>4, <3>5, <1>2
  <2>4. QED
    BY <1>10, <2>1, <2>2, <2>3 DEF Firm
<1>11. \A j \in Ids : AllServed(j) => AllServed(j)'
  BY PlacesFact DEF AllServed, Serves
<1>12. \A j \in Broadcasts \ spoilt' : FirmCopy(j) => AllServed(j)' \/ FirmCopy(j)'
  BY <1>10 DEF FirmCopy
<1>13. Progress'
  <2> SUFFICES ASSUME NEW q \in Routers, NEW n \in Mesgs,
                      Unspoilt(q)', router'[q].cleanup, n = Mesg(q)'
               PROVE  /\ router'[q].pc \in {"rest", "spool"} =>
                           \A p \in Places(Id[n]) \ router'[q].todo : Served(Id[n], p)'
                      /\ router'[q].pc = "cleanup" =>
                           \/ AllServed(Id[n])'
                           \/ Id[n] \in Broadcasts /\ ~Firm(n)' /\ FirmCopy(Id[n])'
    BY DEF Progress
  <2>1. CASE q = r
    <3>1. n = m /\ Id[n] = i /\ i \notin spoilt' /\ y.cleanup /\ router'[q] = y
      BY <1>1, <1>2, <1>4, <2>1 DEF HdrID, Mesg, Unspoilt
    <3>2. ASSUME y.pc = "cleanup", ~AllServed(i)'
          PROVE  i \in Broadcasts /\ ~Firm(m)' /\ FirmCopy(i)'
      <4>1. /\ i \in Broadcasts /\ x.pc = "lookup" /\ FirmCopy(i)
            /\ y.cmds /\ bad' = bad /\ i \notin spoilt
        BY <3>1, <3>2
      <4>2. FirmCopy(i)'
        BY <1>12, <3>1, <3>2, <4>1
      <4>3. x.cmds /\ x.cleanup /\ "RE_ROUTE" \notin flags'[m]
        BY <4>1 DEF IInv, AtHand, MustBeNew
      <4>4. \A k \in Routers : ~PastLookup(k, m)'
        <5> SUFFICES ASSUME NEW k \in Routers, PastLookup(k, m)' PROVE FALSE
          OBVIOUS
        <5>1. PastLookup(k, m) /\ router[k].pc # "lookup"
          BY <1>9, <3>2 DEF PastLookup
        <5>2. k # r /\ router[k].cmds /\ Mesg(k) = m
          BY <5>1, <4>1 DEF PastLookup
        <5>3. QED
          BY <5>2, <4>3, Holders DEF IInv
      <4>5. m \in queue
        BY <4>1, <4>3 DEF IInv, Whereabouts, Unspoilt, Handles
      <4>6. m \notin bad
        <5> SUFFICES ASSUME m \in bad PROVE FALSE
          OBVIOUS
        <5>1. PICK k \in Routers : router[k].cmds /\ Mesg(k) = m /\ ~router[k].cleanup
          BY <4>1, <4>3, <4>5, <1>2 DEF IInv, BadIsOver
        <5>2. QED
          BY <5>1, <4>3, Holders DEF IInv
      <4>7. QED
        BY <4>1, <4>2, <4>3, <4>4, <4>6 DEF Firm
    <3>3. QED
      BY <3>1, <3>2
  <2>2. CASE q # r
    <3>1. router'[q] = router[q] /\ n = Mesg(q) /\ Unspoilt(q) /\ router[q].cleanup
      BY <1>1, <2>2 DEF Mesg, HdrID, Unspoilt
    <3>2. router[q].cmds /\ Id[n] \in Ids \ spoilt'
      BY <3>1, IdFacts DEF IInv, Whereabouts, Unspoilt, HdrID
    <3>3. ASSUME ~Firm(n) PROVE ~Firm(n)'
      <4>1. flags'[n] = flags[n] /\ (n \in bad' => n \in bad) /\ (x.cmds => n # m)
        BY <1>5, <2>2, <3>1, <3>2
      <4>2. ASSUME NEW k \in Routers, PastLookup(k, n)' PROVE PastLookup(k, n)
        BY <4>1, <4>2, <1>4, <1>9
      <4>3. QED
        BY <1>3, <3>3, <4>1, <4>2 DEF Firm
    <3>4. /\ router[q].pc \in {"rest", "spool"} =>
               \A p \in Places(Id[n]) \ router[q].todo : Served(Id[n], p)
          /\ router[q].pc = "cleanup" =>
               AllServed(Id[n]) \/ (Id[n] \in Broadcasts /\ ~Firm(n) /\ FirmCopy(Id[n]))
      BY <3>1 DEF IInv, Progress
    <3>5. \A p \in Places(Id[n]) : Served(Id[n], p) => Served(Id[n], p)'
      BY <3>2, PlacesFact DEF Serves
    <3>6. QED
      BY <3>1, <3>2, <3>3, <3>4, <3>5, <1>11, <1>12
  <2>3. QED
    BY <2>1, <2>2
<1>14. FlagTrue'
  <2> SUFFICES ASSUME NEW k \in Mesgs, Id[k] \notin spoilt', Id[k] \in Here, "DELIVERED" \in flags'[k]
               PROVE  Served(Id[k], "here")'
    BY DEF FlagTrue
  <2>1. CASE "DELIVERED" \in flags[k]
    BY <2>1, IdFacts DEF IInv, FlagTrue, Serves, AllPlaces
  <2>2. CASE "DELIVERED" \notin flags[k]
    <3>1. k = m
      BY <2>2 DEF Touches
    <3>2. Served(i, "here")'
      BY <2>2, <3>1, <1>2
    <3>3. QED
      BY <3>1, <3>2, <1>2
  <2>3. QED
    BY <2>1, <2>2
<1>15. NotedIsFirm'
  <2>1. ASSUME i \in Broadcasts, i \notin spoilt', y.pc = "deliver" PROVE FirmCopy(i)'
    <3>1. x.cmds /\ i \notin spoilt
      BY <2>1 DEF IInv, AtHand, Goes
    <3>2. PastLookup(r, m)'
      BY <1>1, <1>4, <2>1, <3>1 DEF PastLookup, Mesg, Goes
    <3>3. m \in queue /\ m \in data
      BY <3>1, <2>1, <1>4 DEF IInv, Whereabouts, Unspoilt
    <3>4. QED
      BY <3>2, <3>3, <1>2, <1>3 DEF Firm, FirmCopy
  <2>2. Noted' \subseteq Broadcasts
    BY DEF IInv, NotedIsFirm
  <2>3. Noted \subseteq Ids
    BY FieldTypes DEF IInv, RouterTypeOK, Noted
  <2>4. ASSUME NEW j \in Noted' \ spoilt' PROVE AllServed(j)' \/ FirmCopy(j)'
    BY <1>11, <1>12, <2>1, <2>2, <2>3 DEF IInv, NotedIsFirm
  <2>5. QED
    BY <2>2, <2>4 DEF NotedIsFirm
<1>16. BadIsOver'
  <2> SUFFICES ASSUME NEW k \in bad' \cap queue',
                      Id[k] \in Broadcasts \ spoilt', "RE_ROUTE" \notin flags'[k]
               PROVE  \E q \in Routers : router'[q].cmds /\ Mesg(q)' = k /\ ~router'[q].cleanup
    BY <1>3 DEF IInv, BadIsOver, Touches
  <2>1. k \in Mesgs /\ "RE_ROUTE" \notin flags[k]
    BY <1>3 DEF IInv, RouterTypeOK
  <2>2. CASE k \in bad
    <3>1. PICK q \in Routers : router[q].cmds /\ Mesg(q) = k /\ ~router[q].cleanup
      BY <2>1, <2>2, <1>3 DEF IInv, BadIsOver
    <3>2. CASE q = r
      <4>1. x.cmds /\ ~x.cleanup /\ k = m /\ Id[k] = i /\ x.pc # "route"
        BY <3>1, <3>2, <1>2 DEF IInv, AtHand
      <4>2. y.cmds
        BY <4>1, <1>2
      <4>3. QED
        BY <4>1, <4>2, <1>1, <1>4 DEF Mesg
    <3>3. CASE q # r
      BY <3>1, <3>3, <1>1 DEF Mesg
    <3>4. QED
      BY <3>2, <3>3
  <2>3. CASE k \notin bad
    <3>1. k = m /\ x.cmds /\ i = Id[k]
      BY <2>3, <1>2 DEF Touches
    <3>2. y.cmds /\ ~y.cleanup
      BY <2>3
    <3>3. QED
      BY <3>1, <3>2, <1>1, <1>4 DEF Mesg
  <2>4. QED
    BY <2>2, <2>3
<1>17. IsPresent'
  BY <1>3, <1>11 DEF IInv, IsPresent, Present
<1>18. QED
  BY <1>6, <1>7, <1>8, <1>13, <1>14, <1>15, <1>16, <1>17 DEF IInv

-----------------------------------------------------------------------------
LEMMA Unserved ==
  ASSUME RouterTypeOK, UNCHANGED <<given, returned>>
  PROVE  Serves
BY DEF RouterTypeOK, Serves, Served

LEMMA NotedGrows ==
  ASSUME RouterTypeOK, NEW r \in Routers, NEW y \in RouterVars, Set(r, y),
         NEW S, y.ids \subseteq router[r].ids \cup S, known' \subseteq known \cup router[r].ids
  PROVE  Noted' \subseteq Noted \cup S
<1>1. /\ router'[r] = y
      /\ \A q \in Routers : q # r => router'[q] = router[q]
  BY SetFacts
<1>2. QED
  BY <1>1 DEF Noted

(* The fields that most steps keep. *)
Keeps(x, y) ==
  /\ y \in RouterVars
  /\ y.m = x.m /\ y.cmds = x.cmds /\ y.flags = x.flags /\ y.cleanup = x.cleanup /\ y.ids = x.ids

(* A router that has a message at hand. *)
LEMMA Hand ==
  ASSUME IInv, NEW r \in Routers, router[r].pc \in Handles
  PROVE  /\ router[r] \in RouterVars
         /\ \E m \in Mesgs, i \in Ids : m = Mesg(r) /\ i = HdrID(r) /\ i = Id[m]
BY IdFacts DEF IInv, RouterTypeOK, HdrID, Mesg, Handles, At

(* A step that changes no file, and passes the message on or not. *)
LEMMA PlainStep ==
  ASSUME IInv, NEW r \in Routers, NEW y, Keeps(router[r], y), Set(r, y),
         NEW m \in Mesgs, m = Mesg(r), NEW i \in Ids, i = HdrID(r),
         router[r].pc \in Handles \ {"cleanup"}, y.pc \in Handles \ {"route"},
         y.pc \in {"lookup", "deliver"} => router[r].pc = "route" /\ m \in data,
         y.pc = "lookup" => MustBeNew(r),
         y.pc = "rest" => router[r].pc = "deliver",
         y.todo \subseteq router[r].todo,
         y.pc \in {"lookup", "deliver", "rest"} => y.todo = router[r].todo,
         UNCHANGED <<files, known, spoilt, died>>, Serves,
         i \notin spoilt /\ router[r].cleanup =>
           /\ y.pc \in {"rest", "spool"} =>
                \A p \in Places(i) \ y.todo : Served(i, p)'
           /\ y.pc = "cleanup" => AllServed(i)'
  PROVE  IInv'
<1>1. Goes(r, y)
  BY DEF Goes, Keeps
<1>2. /\ flags' = flags /\ lock' = lock /\ bad' = bad
      /\ spoilt' = spoilt /\ spoilt \subseteq Ids /\ died' = died /\ known' \subseteq Ids
  BY DEF files, IInv, RouterTypeOK
<1>3. Touches(r, m)
  BY DEF Touches, files, IInv, RouterTypeOK
<1>4. Noted' \subseteq Noted
  BY NotedGrows DEF Keeps, IInv
<1>5. i \notin spoilt =>
           /\ ~y.cmds => ~y.cleanup /\ y.pc \in {"spool", "cleanup"}
           /\ y.cmds /\ ~y.cleanup => m \in bad
  BY DEF IInv, AtHand, Whereabouts, Unspoilt, Keeps, Handles
<1>6. y.cmds = router[r].cmds /\ y.cleanup = router[r].cleanup
  BY DEF Keeps
<1>7. QED
  BY HandleStep, <1>1, <1>2, <1>3, <1>4, <1>5, <1>6

LEMMA AcceptStep ==
  ASSUME IInv, NEW r \in Routers, Accept(r)
  PROVE  IInv'
<1> DEFINE to == IF MustBeNew(r) THEN "lookup" ELSE "deliver"
           y == [router[r] EXCEPT !.pc = to]
<1>1. to \in {"lookup", "deliver"} /\ (to = "lookup" => MustBeNew(r))
  OBVIOUS
<1>2. Set(r, y) /\ router[r].pc = "route" /\ Mesg(r) \in data
  BY DEF Accept, Goto, At, NoHeader
<1>3. UNCHANGED <<files, known, spoilt, died, given, returned>>
  BY DEF Accept, hist
<1> HIDE DEF to
<1>4. PICK m \in Mesgs, i \in Ids : m = Mesg(r) /\ i = HdrID(r) /\ router[r] \in RouterVars
  BY <1>2, Hand DEF Handles
<1>5. Keeps(router[r], y) /\ y.todo = router[r].todo /\ y.pc = to
  BY <1>1, <1>4 DEF Keeps, RouterVars
<1> HIDE DEF y
<1>6. Serves
  BY <1>3, Unserved DEF IInv
<1>7. QED
  BY PlainStep, <1>1, <1>2, <1>3, <1>4, <1>5, <1>6 DEF Handles

LEMMA FilterStopsStep ==
  ASSUME IInv, NEW r \in Routers, FilterStops(r)
  PROVE  IInv'
<1> DEFINE y == [router[r] EXCEPT !.pc = "cleanup"]
<1>1. /\ Set(r, y) /\ router[r].pc = "route"
      /\ UNCHANGED <<files, known, spoilt, died>>
  BY DEF FilterStops, Goto, At
<1>2. PICK m \in Mesgs, i \in Ids : m = Mesg(r) /\ i = HdrID(r) /\ router[r] \in RouterVars
  BY <1>1, Hand DEF Handles
<1>3. Keeps(router[r], y) /\ y.todo = router[r].todo /\ y.pc = "cleanup"
  BY <1>2 DEF Keeps, RouterVars
<1> HIDE DEF y
<1>4. Serves /\ \A p \in AllPlaces : Served(i, p)'
  <2>1. given \in [Ids -> [AllPlaces -> Marks]] /\ returned \subseteq Ids
    BY DEF IInv, RouterTypeOK
  <2>2. CASE given' = [given EXCEPT ![i] = [p \in AllPlaces |-> Dropped(given[i][p])]]
             /\ UNCHANGED returned
    <3>1. \A g \in Marks : Dropped(g) \in Marks \ {"no"}
      BY DEF Dropped, Marks
    <3>2. /\ given' \in [Ids -> [AllPlaces -> Marks]]
          /\ \A p \in AllPlaces : given'[i][p] # "no"
          /\ \A j \in Ids : j # i => given'[j] = given[j]
      BY <2>1, <2>2, <3>1
    <3>3. QED
      BY <2>1, <2>2, <3>2 DEF Serves, Served
  <2>3. CASE returned' = returned \cup {i} /\ UNCHANGED given
    BY <2>1, <2>3 DEF Serves, Served
  <2>4. QED
    BY <1>2, <2>2, <2>3 DEF FilterStops
<1>5. AllServed(i)'
  BY <1>4, PlacesFact DEF AllServed
<1>6. QED
  BY PlainStep, <1>1, <1>2, <1>3, <1>4, <1>5 DEF Handles

(* LookupMsgsDB finds the broadcast only if there is a firm copy of it, or  *)
(* it has gone everywhere; and the copy it drops is not that one.           *)
LEMMA LookupStep ==
  ASSUME IInv, NEW r \in Routers, Lookup(r)
  PROVE  IInv'
<1> DEFINE x == router[r]
<1>1. router[r].pc = "lookup"
  BY DEF Lookup, At
<1>2. PICK m \in Mesgs, i \in Ids : m = Mesg(r) /\ i = HdrID(r) /\ router[r] \in RouterVars
  BY <1>1, Hand DEF Handles
<1> DEFINE new == i \notin known \cup x.ids
<1>3. PICK ids \in {x.ids, {}} :
        /\ known' = known \cup (x.ids \ ids)
        /\ Set(r, [x EXCEPT !.open = TRUE, !.ids = IF new THEN ids \cup {i} ELSE ids,
                            !.pc = IF new THEN "deliver" ELSE "cleanup"])
  BY <1>2 DEF Lookup
<1>4. UNCHANGED <<files, given, returned, spoilt, died>>
  BY DEF Lookup, hist
<1> DEFINE nids == IF new THEN ids \cup {i} ELSE ids
           to == IF new THEN "deliver" ELSE "cleanup"
           y == [x EXCEPT !.open = TRUE, !.ids = nids, !.pc = to]
<1>5. Set(r, y)
  BY <1>3
<1>6. x.ids \subseteq Ids /\ nids \subseteq Ids /\ known \subseteq Ids
  BY <1>2, FieldTypes DEF IInv, RouterTypeOK
<1>7. new \in BOOLEAN /\ to = (IF new THEN "deliver" ELSE "cleanup")
  OBVIOUS
<1>8. nids \subseteq x.ids \cup {i} /\ (~new => nids \subseteq x.ids)
  OBVIOUS
<1> HIDE DEF nids, to
<1>9. /\ y \in RouterVars /\ y.m = x.m /\ y.cmds = x.cmds /\ y.flags = x.flags
      /\ y.cleanup = x.cleanup /\ y.todo = x.todo /\ y.pc = to /\ y.ids = nids
  BY <1>2, <1>6, <1>7 DEF RouterVars
<1> HIDE DEF y
<1>10. x.cmds /\ x.cleanup /\ MustBeNew(r) /\ i \in Broadcasts
  BY <1>1, <1>2 DEF IInv, AtHand, MustBeNew
<1>11. Serves /\ spoilt' = spoilt /\ spoilt \subseteq Ids /\ died' = died /\ known' \subseteq Ids
  BY <1>3, <1>4, <1>6, Unserved DEF IInv, RouterTypeOK
<1>12. Goes(r, y)
  BY <1>1, <1>5, <1>7, <1>9 DEF Goes, Handles
<1>13. Touches(r, m) /\ flags' = flags /\ lock' = lock /\ bad' = bad
  BY <1>4 DEF Touches, files, IInv, RouterTypeOK
<1>14. \/ Noted' \subseteq Noted
       \/ Noted' \subseteq Noted \cup {i} /\ y.pc = "deliver"
  <2>1. known' \subseteq known \cup x.ids
    BY <1>3
  <2>2. CASE new
    BY <1>5, <1>7, <1>8, <1>9, <2>1, <2>2, NotedGrows DEF IInv
  <2>3. CASE ~new
    <3>1. y.ids \subseteq x.ids \cup {}
      BY <1>8, <1>9, <2>3
    <3>2. Noted' \subseteq Noted \cup {}
      BY <1>5, <1>9, <2>1, <3>1, NotedGrows DEF IInv
    <3>3. QED
      BY <3>2
  <2>4. QED
    BY <2>2, <2>3
<1>15. i \notin spoilt /\ y.pc = "cleanup" => AllServed(i)' \/ FirmCopy(i)
  <2>1. y.pc = "cleanup" => i \in Noted
    BY <1>7, <1>9 DEF Noted
  <2>2. AllServed(i) => AllServed(i)'
    BY <1>11, PlacesFact DEF AllServed, Serves
  <2>3. QED
    BY <2>1, <2>2 DEF IInv, NotedIsFirm
<1>16. i \notin spoilt => m \in data
  BY <1>1, <1>2 DEF IInv, Whereabouts, Unspoilt, Handles
<1>17. y.pc \in {"deliver", "cleanup"} /\ y.cmds /\ y.cleanup
  BY <1>7, <1>9, <1>10
<1>18. QED
  BY HandleStep, <1>1, <1>2, <1>10, <1>11, <1>12, <1>13, <1>14, <1>15, <1>16, <1>17

(* With nothing left to do after the delivery, the message is finished. *)
LEMMA AfterDelivery ==
  ASSUME IInv, NEW r \in Routers, NEW m \in Mesgs, m = Mesg(r), NEW i \in Ids, i = HdrID(r),
         router[r].pc = "deliver", Serves, i \in Here => Served(i, "here")'
  PROVE  /\ \A p \in Places(i) \ router[r].todo : Served(i, p)'
         /\ Done(r) => AllServed(i)'
         /\ Next_pc(r) \in {"rest", "cleanup"} /\ (Next_pc(r) = "cleanup" <=> Done(r))
<1>1. router[r].todo = Bound[i]
  BY DEF IInv, AtHand
<1>2. QED
  BY <1>1 DEF Next_pc, Done, Places, AllServed

LEMMA NoDeliveryStep ==
  ASSUME IInv, NEW r \in Routers, NoDelivery(r)
  PROVE  IInv'
<1> DEFINE y == [router[r] EXCEPT !.pc = Next_pc(r)]
<1>1. /\ Set(r, y) /\ router[r].pc = "deliver"
      /\ UNCHANGED <<files, known, spoilt, died, given, returned>>
      /\ HdrID(r) \in Here => "DELIVERED" \in router[r].flags
  BY DEF NoDelivery, Goto, At, hist
<1>2. PICK m \in Mesgs, i \in Ids : /\ m = Mesg(r) /\ i = HdrID(r) /\ i = Id[m]
                                    /\ router[r] \in RouterVars
  BY <1>1, Hand DEF Handles
<1>3. Serves
  BY <1>1, Unserved DEF IInv
<1>4. CASE i \in spoilt
  <2>1. Next_pc(r) \in {"rest", "cleanup"}
    BY DEF Next_pc
  <2>2. Keeps(router[r], y) /\ y.todo = router[r].todo /\ y.pc = Next_pc(r)
    BY <1>2, <2>1 DEF Keeps, RouterVars
  <2> HIDE DEF y
  <2>3. QED
    BY PlainStep, <1>1, <1>2, <1>3, <1>4, <2>1, <2>2 DEF Handles
<1>5. CASE i \notin spoilt
  <2>1. i \in Here => Served(i, "here")
    BY <1>1, <1>2, <1>5 DEF IInv, AtHand, FlagTrue
  <2>2. i \in Here => Served(i, "here")'
    BY <1>3, <2>1 DEF Serves, AllPlaces
  <2>3. /\ \A p \in Places(i) \ router[r].todo : Served(i, p)'
        /\ Done(r) => AllServed(i)'
        /\ Next_pc(r) \in {"rest", "cleanup"} /\ (Next_pc(r) = "cleanup" <=> Done(r))
    BY <1>1, <1>2, <1>3, <2>2, AfterDelivery
  <2>4. Keeps(router[r], y) /\ y.todo = router[r].todo /\ y.pc = Next_pc(r)
    BY <1>2, <2>3 DEF Keeps, RouterVars
  <2> HIDE DEF y
  <2>5. QED
    BY PlainStep, <1>1, <1>2, <1>3, <2>3, <2>4 DEF Handles
<1>6. QED
  BY <1>4, <1>5

LEMMA DeliveredStep ==
  ASSUME IInv, NEW r \in Routers, Delivered(r)
  PROVE  IInv'
<1> DEFINE y == [router[r] EXCEPT !.pc = Next_pc(r)]
           b == "MESG_DUP" \in router[r].flags
<1>1. /\ Set(r, y) /\ router[r].pc = "deliver"
      /\ UNCHANGED <<files, known, spoilt, died, returned>>
      /\ Give(HdrID(r), "here", b)
  BY DEF Delivered, Deliver, Goto, At
<1>2. PICK m \in Mesgs, i \in Ids : m = Mesg(r) /\ i = HdrID(r) /\ router[r] \in RouterVars
  BY <1>1, Hand DEF Handles
<1>3. b \in BOOLEAN
  OBVIOUS
<1> HIDE DEF b
<1>4. Serves /\ Served(i, "here")'
  BY <1>1, <1>2, <1>3, GiveServes DEF IInv, AllPlaces
<1>5. /\ \A p \in Places(i) \ router[r].todo : Served(i, p)'
      /\ Done(r) => AllServed(i)'
      /\ Next_pc(r) \in {"rest", "cleanup"} /\ (Next_pc(r) = "cleanup" <=> Done(r))
  BY <1>1, <1>2, <1>4, AfterDelivery
<1>6. Keeps(router[r], y) /\ y.todo = router[r].todo /\ y.pc = Next_pc(r)
  BY <1>2, <1>5 DEF Keeps, RouterVars
<1> HIDE DEF y
<1>7. QED
  BY PlainStep, <1>1, <1>2, <1>4, <1>5, <1>6 DEF Handles

LEMMA DoRouteStep ==
  ASSUME IInv, NEW r \in Routers, DoRoute(r)
  PROVE  IInv'
<1> DEFINE y == [router[r] EXCEPT !.pc = "spool"]
<1>1. /\ Set(r, y) /\ router[r].pc = "rest"
      /\ UNCHANGED <<files, known, spoilt, died, given, returned>>
  BY DEF DoRoute, Goto, At, hist
<1>2. PICK m \in Mesgs, i \in Ids : /\ m = Mesg(r) /\ i = HdrID(r) /\ i = Id[m]
                                    /\ router[r] \in RouterVars
  BY <1>1, Hand DEF Handles
<1>3. Keeps(router[r], y) /\ y.todo = router[r].todo /\ y.pc = "spool"
  BY <1>2 DEF Keeps, RouterVars
<1> HIDE DEF y
<1>4. Serves
  BY <1>1, Unserved DEF IInv
<1>5. i \notin spoilt /\ router[r].cleanup => \A p \in Places(i) \ y.todo : Served(i, p)'
  <2>1. i \notin spoilt /\ router[r].cleanup =>
          \A p \in Places(i) \ router[r].todo : Served(i, p)
    BY <1>1, <1>2 DEF IInv, Progress, Unspoilt, Handles
  <2>2. QED
    BY <1>3, <1>4, <2>1, PlacesFact DEF Serves
<1>6. QED
  BY PlainStep, <1>1, <1>2, <1>3, <1>4, <1>5 DEF Handles

LEMMA SpooledStep ==
  ASSUME IInv, NEW r \in Routers, NEW l \in router[r].todo, router[r].pc = "spool",
         Set(r, Spooled(r, l)), UNCHANGED <<files, known, spoilt, died>>, Serves,
         NEW m \in Mesgs, m = Mesg(r), NEW i \in Ids, i = HdrID(r), Served(i, l)'
  PROVE  IInv'
<1> DEFINE x == router[r]
           to == IF x.todo = {l} THEN "cleanup" ELSE "spool"
           left == x.todo \ {l}
           y == [x EXCEPT !.todo = left, !.pc = to]
<1>1. Set(r, y)
  BY DEF Spooled
<1>2. x \in RouterVars /\ x.todo \subseteq Links
  BY Hand, FieldTypes DEF Handles
<1>3. to \in {"cleanup", "spool"} /\ (to = "cleanup" => left = {})
  OBVIOUS
<1>4. left \subseteq Links /\ left \subseteq x.todo
  BY <1>2
<1>5. \A p \in AllPlaces : p \notin left => p \notin x.todo \/ p = l
  OBVIOUS
<1> HIDE DEF to, left
<1>6. Keeps(x, y) /\ y.todo = left /\ y.pc = to
  BY <1>2, <1>3, <1>4 DEF Keeps, RouterVars
<1> HIDE DEF y
<1>7. i \notin spoilt /\ x.cleanup => \A p \in Places(i) \ left : Served(i, p)'
  <2>1. i \notin spoilt /\ x.cleanup => \A p \in Places(i) \ x.todo : Served(i, p)
    BY Hand DEF IInv, Progress, Unspoilt, Handles
  <2>2. QED
    BY <1>5, <2>1, PlacesFact DEF Serves
<1>8. i \notin spoilt /\ x.cleanup /\ to = "cleanup" => AllServed(i)'
  BY <1>3, <1>7 DEF AllServed
<1>9. QED
  BY PlainStep, <1>1, <1>3, <1>4, <1>6, <1>7, <1>8 DEF Handles

LEMMA SpoolStep ==
  ASSUME IInv, NEW r \in Routers, NEW l \in Links, Spool(r, l)
  PROVE  IInv'
<1> DEFINE b == "MESG_DUP" \in router[r].flags
<1>1. /\ router[r].pc = "spool" /\ l \in router[r].todo
      /\ Set(r, Spooled(r, l)) /\ UNCHANGED <<files, known, spoilt, died, returned>>
      /\ Give(HdrID(r), l, b)
  BY DEF Spool, At
<1>2. PICK m \in Mesgs, i \in Ids : m = Mesg(r) /\ i = HdrID(r)
  BY <1>1, Hand DEF Handles
<1>3. b \in BOOLEAN
  OBVIOUS
<1> HIDE DEF b
<1>4. Serves /\ Served(i, l)'
  BY <1>1, <1>2, <1>3, GiveServes DEF IInv, AllPlaces
<1>5. QED
  BY <1>1, <1>2, <1>4, SpooledStep

(* leave_cmds: a message that may have been noted is marked as routed.      *)
LEMMA LeaveStep ==
  ASSUME IInv, NEW r \in Routers, NEW y \in RouterVars, Set(r, y),
         NEW m \in Mesgs, m = Mesg(r), NEW i \in Ids, i = HdrID(r),
         router[r].pc \in Handles \ {"cleanup"}, y.pc \in {"spool", "cleanup"},
         y.m = router[r].m, y.flags = router[r].flags, y.ids = router[r].ids,
         y.todo \subseteq router[r].todo, ~y.cmds, ~y.cleanup,
         NEW add \in SUBSET Flags, leave_cmds(r, add),
         UNCHANGED <<coming, queue, data, bad, known, died>>, Serves,
         spoilt \subseteq spoilt', spoilt' \subseteq Ids,
         "DELIVERED" \in add /\ router[r].cmds /\ i \in Here \ spoilt' => Served(i, "here")',
         i \in Broadcasts \ spoilt' /\ router[r].cmds /\ router[r].pc # "route" =>
           "RE_ROUTE" \in flags[m] \cup add
  PROVE  IInv'
<1>1. Goes(r, y)
  BY DEF Goes, Handles
<1>2. Noted' \subseteq Noted
  BY NotedGrows DEF IInv
<1>3. /\ flags \in [Mesgs -> SUBSET Flags] /\ lock \in [Mesgs -> SUBSET Routers]
      /\ known' \subseteq Ids
  BY DEF IInv, RouterTypeOK
<1>4. CASE router[r].cmds
  <2>1. /\ flags' = [flags EXCEPT ![m] = flags[m] \cup add]
        /\ lock' = [lock EXCEPT ![m] = lock[m] \ {r}]
    BY <1>4 DEF leave_cmds
  <2>2. /\ flags' \in [Mesgs -> SUBSET Flags] /\ flags'[m] = flags[m] \cup add
        /\ \A k \in Mesgs : k # m => flags'[k] = flags[k]
    BY <1>3, <2>1
  <2>3. /\ lock' \in [Mesgs -> SUBSET Routers]
        /\ \A k \in Mesgs : k # m => lock'[k] = lock[k]
    BY <1>3, <2>1
  <2>4. Touches(r, m)
    BY <1>4, <2>2, <2>3 DEF Touches
  <2>5. QED
    BY HandleStep, <1>1, <1>2, <1>3, <1>4, <2>2, <2>4
<1>5. CASE ~router[r].cmds
  <2>1. flags' = flags /\ lock' = lock
    BY <1>5 DEF leave_cmds
  <2>2. Touches(r, m)
    BY <1>3, <2>1 DEF Touches
  <2>3. QED
    BY HandleStep, <1>1, <1>2, <1>3, <1>5, <2>1, <2>2
<1>6. QED
  BY <1>4, <1>5

(* handlebad: a message is kept with its data files.                        *)
LEMMA BadStep ==
  ASSUME IInv, NEW r \in Routers, NEW y \in RouterVars, Set(r, y),
         NEW m \in Mesgs, m = Mesg(r), NEW i \in Ids, i = HdrID(r),
         router[r].pc \in Handles \ {"cleanup"}, y.pc \in {"rest", "cleanup"},
         y.pc = "rest" => router[r].pc = "deliver",
         y.m = router[r].m, y.flags = router[r].flags, y.ids = router[r].ids,
         y.todo = router[r].todo,
         y.cmds <=> router[r].cmds /\ m \in queue,
         y.cleanup <=> router[r].cleanup /\ ~(router[r].cmds /\ m \in queue),
         handlebad(r),
         UNCHANGED <<coming, queue, data, flags, known, spoilt, died>>, Serves
  PROVE  IInv'
<1> DEFINE x == router[r]
<1>1. x \in RouterVars /\ x.cmds \in BOOLEAN /\ x.cleanup \in BOOLEAN /\ y.cmds \in BOOLEAN
      /\ y.cleanup \in BOOLEAN
  BY FieldTypes DEF IInv, RouterTypeOK
<1>2. Goes(r, y)
  BY <1>1 DEF Goes, Handles
<1>3. Noted' \subseteq Noted
  BY NotedGrows DEF IInv
<1>4. /\ flags \in [Mesgs -> SUBSET Flags] /\ lock \in [Mesgs -> SUBSET Routers]
      /\ known' \subseteq Ids /\ spoilt \subseteq Ids
  BY DEF IInv, RouterTypeOK
<1>5. /\ bad' = IF x.cmds /\ m \in queue THEN bad \cup {m} ELSE bad
      /\ lock' = IF x.cmds /\ m \notin queue THEN [lock EXCEPT ![m] = lock[m] \ {r}] ELSE lock
  BY DEF handlebad
<1>6. Touches(r, m) /\ (y.cmds => lock'[m] = lock[m])
  BY <1>4, <1>5 DEF Touches
<1>7. bad' # bad => y.cmds /\ ~y.cleanup
  BY <1>1, <1>5
<1>8. ASSUME i \notin spoilt
      PROVE  /\ x.cmds => m \in queue
             /\ ~x.cmds => ~x.cleanup /\ x.pc # "deliver"
  BY <1>8 DEF IInv, AtHand, Whereabouts, Unspoilt
<1>9. /\ i \notin spoilt /\ ~y.cmds => ~y.cleanup /\ y.pc \in {"spool", "cleanup"}
      /\ i \notin spoilt => ~y.cleanup
      /\ i \notin spoilt /\ x.cmds => y.cmds
  BY <1>1, <1>8
<1>10. y.cmds /\ ~y.cleanup => m \in bad'
  BY <1>1, <1>5
<1>11. QED
  BY HandleStep, <1>1, <1>2, <1>3, <1>4, <1>6, <1>7, <1>9, <1>10

LEMMA LeaveUnroutedStep ==
  ASSUME IInv, NEW r \in Routers, LeaveUnrouted(r)
  PROVE  IInv'
<1> DEFINE y == [router[r] EXCEPT !.cmds = FALSE, !.cleanup = FALSE, !.pc = "cleanup"]
<1>1. /\ Set(r, y) /\ router[r].pc = "route" /\ leave_cmds(r, {})
      /\ UNCHANGED <<coming, queue, data, known, bad, given, returned, spoilt, died>>
  BY DEF LeaveUnrouted, Left, At, hist
<1>2. PICK m \in Mesgs, i \in Ids : m = Mesg(r) /\ i = HdrID(r) /\ router[r] \in RouterVars
  BY <1>1, Hand DEF Handles
<1>3. /\ y \in RouterVars /\ y.m = router[r].m /\ y.flags = router[r].flags /\ y.ids = router[r].ids
      /\ y.todo = router[r].todo /\ ~y.cmds /\ ~y.cleanup /\ y.pc = "cleanup"
  BY <1>2 DEF RouterVars
<1> HIDE DEF y
<1>4. Serves /\ spoilt \subseteq Ids
  BY <1>1, Unserved DEF IInv, RouterTypeOK
<1>5. QED
  BY LeaveStep, <1>1, <1>2, <1>3, <1>4 DEF Handles

LEMMA RouteFailsStep ==
  ASSUME IInv, NEW r \in Routers, RouteFails(r)
  PROVE  IInv'
<1> DEFINE y == [Bad(r) EXCEPT !.pc = "cleanup"]
<1>1. /\ Set(r, y) /\ router[r].pc = "route" /\ handlebad(r)
      /\ UNCHANGED <<coming, queue, data, flags, known, given, returned, spoilt, died>>
  BY DEF RouteFails, At, hist
<1>2. PICK m \in Mesgs, i \in Ids : m = Mesg(r) /\ i = HdrID(r) /\ router[r] \in RouterVars
  BY <1>1, Hand DEF Handles
<1>3. /\ y \in RouterVars /\ y.m = router[r].m /\ y.flags = router[r].flags /\ y.ids = router[r].ids
      /\ y.todo = router[r].todo /\ y.pc = "cleanup"
      /\ y.cmds <=> router[r].cmds /\ m \in queue
      /\ y.cleanup <=> router[r].cleanup /\ ~(router[r].cmds /\ m \in queue)
  <2>1. CASE ~router[r].cmds
    BY <1>2, <2>1 DEF RouterVars, Bad
  <2>2. CASE router[r].cmds /\ Mesg(r) \in queue
    BY <1>2, <2>2 DEF RouterVars, Bad
  <2>3. CASE router[r].cmds /\ Mesg(r) \notin queue
    BY <1>2, <2>3 DEF RouterVars, Bad
  <2>4. QED
    BY <2>1, <2>2, <2>3
<1> HIDE DEF y
<1>4. Serves
  BY <1>1, Unserved DEF IInv
<1>5. QED
  BY BadStep, <1>1, <1>2, <1>3, <1>4 DEF Handles

LEMMA LeaveLinksStep ==
  ASSUME IInv, NEW r \in Routers, LeaveLinks(r)
  PROVE  IInv'
<1> DEFINE y == [router[r] EXCEPT !.cmds = FALSE, !.cleanup = FALSE, !.pc = "cleanup"]
<1>1. /\ Set(r, y) /\ router[r].pc = "rest" /\ leave_cmds(r, {"RE_ROUTE", "DELIVERED"})
      /\ UNCHANGED <<coming, queue, data, known, bad, given, returned, died>>
      /\ spoilt' = IF Mesg(r) \in bad THEN spoilt \cup {HdrID(r)} ELSE spoilt
  BY DEF LeaveLinks, Left, At
<1>2. PICK m \in Mesgs, i \in Ids : /\ m = Mesg(r) /\ i = HdrID(r) /\ i = Id[m]
                                    /\ router[r] \in RouterVars
  BY <1>1, Hand DEF Handles
<1>3. /\ y \in RouterVars /\ y.m = router[r].m /\ y.flags = router[r].flags /\ y.ids = router[r].ids
      /\ y.todo = router[r].todo /\ ~y.cmds /\ ~y.cleanup /\ y.pc = "cleanup"
  BY <1>2 DEF RouterVars
<1> HIDE DEF y
<1>4. /\ Serves /\ spoilt \subseteq spoilt' /\ spoilt' \subseteq Ids
      /\ {"RE_ROUTE", "DELIVERED"} \in SUBSET Flags
  BY <1>1, <1>2, Unserved DEF IInv, RouterTypeOK, Flags
<1>5. router[r].cmds /\ i \in Here \ spoilt' => Served(i, "here")'
  <2> SUFFICES ASSUME router[r].cmds, i \in Here \ spoilt' PROVE Served(i, "here")'
    OBVIOUS
  <2>1. i \notin spoilt /\ m \notin bad
    BY <1>1, <1>2
  <2>2. router[r].cleanup
    BY <2>1, <1>1, <1>2 DEF IInv, Whereabouts, Unspoilt, Handles
  <2>3. "here" \in Places(i) \ router[r].todo
    BY <1>1, <1>2, IdFacts DEF IInv, AtHand, Places
  <2>4. Served(i, "here")
    BY <2>1, <2>2, <2>3, <1>1, <1>2 DEF IInv, Progress, Unspoilt, Handles
  <2>5. QED
    BY <2>4, <1>2, <1>4 DEF Serves, AllPlaces
<1>6. QED
  BY LeaveStep, <1>1, <1>2, <1>3, <1>4, <1>5 DEF Handles

(* A broadcast that was broken off after LookupMsgsDB is not accounted for. *)
LEMMA HandlerFailsStep ==
  ASSUME IInv, NEW r \in Routers, HandlerFails(r)
  PROVE  IInv'
<1> DEFINE x == router[r]
           b == "MESG_DUP" \in x.flags
<1>1. /\ x.pc = "deliver"
      /\ UNCHANGED <<coming, queue, data, known, died>>
      /\ Give(HdrID(r), "here", b) \/ UNCHANGED given
  BY DEF HandlerFails, Deliver, At
<1>2. PICK m \in Mesgs, i \in Ids : /\ m = Mesg(r) /\ i = HdrID(r) /\ i = Id[m]
                                    /\ x \in RouterVars
  BY <1>1, Hand DEF Handles
<1>3. /\ given' \in [Ids -> [AllPlaces -> Marks]]
      /\ \A j \in Ids, p \in AllPlaces : given[j][p] # "no" => given'[j][p] # "no"
  <2>1. given \in [Ids -> [AllPlaces -> Marks]] /\ returned \subseteq Ids
    BY DEF IInv, RouterTypeOK
  <2>2. CASE UNCHANGED given
    BY <2>1, <2>2
  <2>3. CASE Give(i, "here", b)
    <3>1. \A g \in Marks : Given(g, b) \in Marks \ {"no"}
      BY DEF Given, Marks
    <3>2. given[i]["here"] \in Marks
      BY <2>1, <1>2 DEF AllPlaces
    <3> DEFINE g == Given(given[i]["here"], b)
    <3>3. given' = [given EXCEPT ![i]["here"] = g]
      BY <2>3 DEF Give
    <3>4. g \in Marks \ {"no"}
      BY <3>1, <3>2
    <3> HIDE DEF g
    <3>5. QED
      BY <2>1, <3>3, <3>4
  <2>4. QED
    BY <1>1, <1>2, <2>2, <2>3
<1> HIDE DEF b
<1>4. returned' \subseteq Ids /\ returned \subseteq returned' => Serves
  BY <1>3 DEF Serves, Served
<1>5. returned \subseteq Ids /\ spoilt \subseteq Ids
  BY DEF IInv, RouterTypeOK
<1>6. x.cmds /\ x.cleanup /\ x.flags = flags[m] /\ Next_pc(r) \in {"rest", "cleanup"}
  BY <1>1, <1>2 DEF IInv, AtHand, Next_pc
<1>7. CASE /\ x.Finish /\ leave_cmds(r, {"MESG_DUP"})
           /\ spoilt' = IF MustBeNew(r) THEN spoilt \cup {HdrID(r)} ELSE spoilt
           /\ Set(r, [Left(r) EXCEPT !.pc = "cleanup"])
           /\ UNCHANGED <<bad, returned>>
  <2> DEFINE y == [x EXCEPT !.cmds = FALSE, !.cleanup = FALSE, !.pc = "cleanup"]
  <2>1. Set(r, y)
    BY <1>7 DEF Left
  <2>2. /\ y \in RouterVars /\ y.m = x.m /\ y.flags = x.flags /\ y.ids = x.ids
        /\ y.todo = x.todo /\ ~y.cmds /\ ~y.cleanup /\ y.pc = "cleanup"
    BY <1>2 DEF RouterVars
  <2> HIDE DEF y
  <2>3. /\ Serves /\ spoilt \subseteq spoilt' /\ spoilt' \subseteq Ids
        /\ {"MESG_DUP"} \in SUBSET Flags /\ "DELIVERED" \notin {"MESG_DUP"}
    BY <1>2, <1>4, <1>5, <1>7 DEF Flags
  <2>4. i \in Broadcasts \ spoilt' => "RE_ROUTE" \in flags[m]
    BY <1>2, <1>6, <1>7 DEF MustBeNew
  <2>5. QED
    BY LeaveStep, <1>1, <1>2, <1>7, <2>1, <2>2, <2>3, <2>4 DEF Handles
<1>8. CASE /\ returned' = returned \cup {HdrID(r)}
           /\ Goto(r, Next_pc(r))
           /\ UNCHANGED <<bad, flags, lock, spoilt>>
  <2> DEFINE y == [x EXCEPT !.pc = Next_pc(r)]
  <2>1. Set(r, y)
    BY <1>8 DEF Goto
  <2>2. Serves /\ Served(i, "here")'
    BY <1>2, <1>4, <1>5, <1>8 DEF Served
  <2>3. /\ \A p \in Places(i) \ x.todo : Served(i, p)'
        /\ Done(r) => AllServed(i)'
        /\ Next_pc(r) \in {"rest", "cleanup"} /\ (Next_pc(r) = "cleanup" <=> Done(r))
    BY <1>1, <1>2, <2>2, AfterDelivery
  <2>4. Keeps(x, y) /\ y.todo = x.todo /\ y.pc = Next_pc(r)
    BY <1>2, <2>3 DEF Keeps, RouterVars
  <2> HIDE DEF y
  <2>5. UNCHANGED <<files, known, spoilt, died>>
    BY <1>1, <1>8 DEF files
  <2>6. QED
    BY PlainStep, <1>1, <1>2, <2>1, <2>2, <2>3, <2>4, <2>5 DEF Handles
<1>9. CASE /\ handlebad(r)
           /\ Set(r, [Bad(r) EXCEPT !.pc = Next_pc(r)])
           /\ UNCHANGED <<flags, spoilt, returned>>
  <2> DEFINE to == Next_pc(r)
  <2>1. to \in {"rest", "cleanup"}
    BY <1>6
  <2> HIDE DEF to
  <2> DEFINE y == [Bad(r) EXCEPT !.pc = to]
  <2>2. Set(r, y)
    BY <1>9 DEF to
  <2>3. /\ y \in RouterVars /\ y.m = x.m /\ y.flags = x.flags /\ y.ids = x.ids
        /\ y.todo = x.todo /\ y.pc = to
        /\ y.cmds <=> x.cmds /\ m \in queue
        /\ y.cleanup <=> x.cleanup /\ ~(x.cmds /\ m \in queue)
    <3>1. CASE Mesg(r) \in queue
      BY <1>2, <1>6, <2>1, <3>1 DEF RouterVars, Bad
    <3>2. CASE Mesg(r) \notin queue
      BY <1>2, <1>6, <2>1, <3>2 DEF RouterVars, Bad
    <3>3. QED
      BY <3>1, <3>2
  <2> HIDE DEF y
  <2>4. Serves
    BY <1>4, <1>5, <1>9
  <2>5. QED
    BY BadStep, <1>1, <1>2, <1>9, <2>1, <2>2, <2>3, <2>4 DEF Handles
<1>10. QED
  BY <1>7, <1>8, <1>9 DEF HandlerFails

LEMMA FilterOutStep ==
  ASSUME IInv, NEW r \in Routers, NEW l \in Links, FilterOut(r, l)
  PROVE  IInv'
<1> DEFINE x == router[r]
<1>1. /\ x.pc = "spool" /\ l \in x.todo
      /\ UNCHANGED <<coming, queue, data, known, spoilt, died>>
  BY DEF FilterOut, At
<1>2. PICK m \in Mesgs, i \in Ids : /\ m = Mesg(r) /\ i = HdrID(r) /\ i = Id[m]
                                    /\ x \in RouterVars
  BY <1>1, Hand DEF Handles
<1>3. /\ given \in [Ids -> [AllPlaces -> Marks]] /\ returned \subseteq Ids /\ spoilt \subseteq Ids
      /\ x.todo \subseteq Links
  BY <1>2, FieldTypes DEF IInv, RouterTypeOK
<1>4. CASE /\ given' = [given EXCEPT ![HdrID(r)][l] = Dropped(@)]
           /\ Set(r, Spooled(r, l))
           /\ UNCHANGED <<bad, flags, lock, returned>>
  <2> DEFINE g == Dropped(given[i][l])
  <2>1. given' = [given EXCEPT ![i][l] = g]
    BY <1>2, <1>4
  <2>2. g \in Marks \ {"no"}
    BY <1>2, <1>3 DEF Dropped, Marks, AllPlaces
  <2> HIDE DEF g
  <2>3. l \in AllPlaces
    BY DEF AllPlaces
  <2>4. /\ given' \in [Ids -> [AllPlaces -> Marks]] /\ given'[i][l] # "no"
        /\ \A j \in Ids, p \in AllPlaces : given[j][p] # "no" => given'[j][p] # "no"
    BY <1>2, <1>3, <2>1, <2>2, <2>3
  <2>5. Serves /\ Served(i, l)'
    BY <1>3, <1>4, <2>4 DEF Serves, Served
  <2>6. UNCHANGED <<files, known, spoilt, died>>
    BY <1>1, <1>4 DEF files
  <2>7. QED
    BY SpooledStep, <1>1, <1>2, <1>4, <2>5, <2>6
<1>5. CASE /\ returned' = returned \cup {HdrID(r)}
           /\ Set(r, Spooled(r, l))
           /\ UNCHANGED <<bad, flags, lock, given>>
  <2>1. Serves /\ Served(i, l)'
    BY <1>2, <1>3, <1>5 DEF Serves, Served
  <2>2. UNCHANGED <<files, known, spoilt, died>>
    BY <1>1, <1>5 DEF files
  <2>3. QED
    BY SpooledStep, <1>1, <1>2, <1>5, <2>1, <2>2
<1>6. CASE /\ leave_cmds(r, {"MESG_DUP", "RE_ROUTE"})
           /\ Set(r, [Spooled(r, l) EXCEPT !.cmds = FALSE, !.cleanup = FALSE])
           /\ UNCHANGED <<bad, given, returned>>
  <2> DEFINE to == IF x.todo = {l} THEN "cleanup" ELSE "spool"
             left == x.todo \ {l}
             y == [x EXCEPT !.todo = left, !.pc = to, !.cmds = FALSE, !.cleanup = FALSE]
  <2>1. Set(r, y)
    BY <1>6 DEF Spooled
  <2>2. to \in {"cleanup", "spool"} /\ left \subseteq Links /\ left \subseteq x.todo
    BY <1>3
  <2> HIDE DEF to, left
  <2>3. /\ y \in RouterVars /\ y.m = x.m /\ y.flags = x.flags /\ y.ids = x.ids
        /\ y.todo = left /\ ~y.cmds /\ ~y.cleanup /\ y.pc = to
    BY <1>2, <2>2 DEF RouterVars
  <2> HIDE DEF y
  <2>4. /\ Serves /\ {"MESG_DUP", "RE_ROUTE"} \in SUBSET Flags
        /\ "DELIVERED" \notin {"MESG_DUP", "RE_ROUTE"}
    BY <1>6, Unserved DEF IInv, Flags
  <2>5. QED
    BY LeaveStep, <1>1, <1>2, <1>3, <1>6, <2>1, <2>2, <2>3, <2>4 DEF Handles
<1>7. CASE /\ handlebad(r)
           /\ Set(r, [Bad(r) EXCEPT !.pc = "cleanup", !.exit = TRUE])
           /\ UNCHANGED <<flags, given, returned>>
  <2> DEFINE y == [Bad(r) EXCEPT !.pc = "cleanup", !.exit = TRUE]
  <2>1. Set(r, y)
    BY <1>7
  <2>2. /\ y \in RouterVars /\ y.m = x.m /\ y.flags = x.flags /\ y.ids = x.ids
        /\ y.todo = x.todo /\ y.pc = "cleanup"
        /\ y.cmds <=> x.cmds /\ m \in queue
        /\ y.cleanup <=> x.cleanup /\ ~(x.cmds /\ m \in queue)
    <3>1. CASE ~x.cmds
      BY <1>2, <3>1 DEF RouterVars, Bad
    <3>2. CASE x.cmds /\ Mesg(r) \in queue
      BY <1>2, <3>2 DEF RouterVars, Bad
    <3>3. CASE x.cmds /\ Mesg(r) \notin queue
      BY <1>2, <3>3 DEF RouterVars, Bad
    <3>4. QED
      BY <3>1, <3>2, <3>3
  <2> HIDE DEF y
  <2>3. Serves
    BY <1>7, Unserved DEF IInv
  <2>4. QED
    BY BadStep, <1>1, <1>2, <1>7, <2>1, <2>2, <2>3 DEF Handles
<1>8. QED
  BY <1>4, <1>5, <1>6, <1>7 DEF FilterOut

-----------------------------------------------------------------------------
(* The steps before a message is at hand, and after it is dealt with: what  *)
(* has to be shown of them.                                                 *)
LEMMA OtherStep ==
  ASSUME IInv, RouterTypeOK', AtHand', Whereabouts', IsPresent',
         UNCHANGED <<flags, bad, given, returned>>, spoilt \subseteq spoilt',
         coming' \cap (queue' \cup bad') = {}, Noted' \subseteq Noted,
         \A k \in Mesgs : Id[k] \in Broadcasts \ spoilt' /\ Firm(k) => Firm(k)' \/ AllServed(Id[k]),
         \A q \in Routers, n \in Mesgs :
            Unspoilt(q)' /\ router'[q].cleanup /\ n = Mesg(q)'
              /\ router'[q].pc \in {"rest", "spool", "cleanup"} =>
            /\ Unspoilt(q) /\ router[q].cleanup /\ n = Mesg(q)
            /\ router[q].pc = router'[q].pc /\ router[q].todo = router'[q].todo
            /\ ~Firm(n) => ~Firm(n)',
         bad \cap queue' \subseteq queue,
         \A k \in bad \cap queue', q \in Routers :
            Id[k] \in Broadcasts \ spoilt' /\ "RE_ROUTE" \notin flags[k]
              /\ router[q].cmds /\ Mesg(q) = k /\ ~router[q].cleanup =>
            router'[q].cmds /\ Mesg(q)' = k /\ ~router'[q].cleanup
  PROVE  IInv'
<1>1. \A j \in Ids : (AllServed(j) <=> AllServed(j)') /\ \A p \in Places(j) : Served(j, p) <=> Served(j, p)'
  BY DEF AllServed, Served
<1>2. \A j \in Broadcasts \ spoilt' : FirmCopy(j) => FirmCopy(j)' \/ AllServed(j)
  BY DEF FirmCopy
<1>3. Progress'
  <2> SUFFICES ASSUME NEW q \in Routers, NEW n \in Mesgs,
                      Unspoilt(q)', router'[q].cleanup, n = Mesg(q)'
               PROVE  /\ router'[q].pc \in {"rest", "spool"} =>
                           \A p \in Places(Id[n]) \ router'[q].todo : Served(Id[n], p)'
                      /\ router'[q].pc = "cleanup" =>
                           \/ AllServed(Id[n])'
                           \/ Id[n] \in Broadcasts /\ ~Firm(n)' /\ FirmCopy(Id[n])'
    BY DEF Progress
  <2>1. CASE router'[q].pc \in {"rest", "spool", "cleanup"}
    <3>1. /\ Unspoilt(q) /\ router[q].cleanup /\ n = Mesg(q)
          /\ router[q].pc = router'[q].pc /\ router[q].todo = router'[q].todo
          /\ ~Firm(n) => ~Firm(n)'
      BY <2>1
    <3>2. /\ router[q].pc \in {"rest", "spool"} =>
               \A p \in Places(Id[n]) \ router[q].todo : Served(Id[n], p)
          /\ router[q].pc = "cleanup" =>
               AllServed(Id[n]) \/ (Id[n] \in Broadcasts /\ ~Firm(n) /\ FirmCopy(Id[n]))
      BY <3>1 DEF IInv, Progress
    <3>3. Id[n] \in Ids /\ Id[n] \notin spoilt'
      BY IdFacts DEF Unspoilt, HdrID, Mesg
    <3>4. QED
      BY <1>1, <1>2, <3>1, <3>2, <3>3
  <2>2. QED
    BY <2>1
<1>4. FlagTrue'
  BY IdFacts DEF IInv, FlagTrue, Served
<1>5. NotedIsFirm'
  <2>1. Noted' \subseteq Broadcasts /\ Broadcasts \subseteq Ids
    BY DEF IInv, NotedIsFirm
  <2>2. ASSUME NEW j \in Noted' \ spoilt' PROVE AllServed(j)' \/ FirmCopy(j)'
    BY <1>1, <1>2, <2>1 DEF IInv, NotedIsFirm
  <2>3. QED
    BY <2>1, <2>2 DEF NotedIsFirm
<1>6. BadIsOver'
  <2> SUFFICES ASSUME NEW k \in bad' \cap queue',
                      Id[k] \in Broadcasts \ spoilt', "RE_ROUTE" \notin flags'[k]
               PROVE  \E q \in Routers : router'[q].cmds /\ Mesg(q)' = k /\ ~router'[q].cleanup
    BY DEF BadIsOver
  <2>1. k \in bad \cap queue' /\ "RE_ROUTE" \notin flags[k]
    OBVIOUS
  <2>2. PICK q \in Routers : router[q].cmds /\ Mesg(q) = k /\ ~router[q].cleanup
    BY <2>1 DEF IInv, BadIsOver
  <2>3. QED
    BY <2>1, <2>2
<1>7. QED
  BY <1>3, <1>4, <1>5, <1>6 DEF IInv

LEMMA Handled ==
  ASSUME RouterTypeOK, NEW r \in Routers
  PROVE  /\ Handling(r) <=> router[r].pc \in Handles
         /\ router[r].cmds => router[r].pc \in Handles
BY DEF RouterTypeOK, RouterVars, Handling, Handles

(* Steps that change no file, and do not take up a message or drop it.      *)
LEMMA QuietStep ==
  ASSUME IInv, NEW r \in Routers, NEW y \in RouterVars, Set(r, y),
         UNCHANGED <<files, hist>>, Noted' \subseteq Noted, known' \subseteq Ids,
         \/ /\ router[r].pc \notin Handles /\ y.pc \notin Handles /\ ~y.cmds
            /\ y.pc = "open" => y.m \in Mesgs
         \/ /\ y.pc = router[r].pc /\ y.m = router[r].m /\ y.cmds = router[r].cmds
            /\ y.flags = router[r].flags /\ y.cleanup = router[r].cleanup
            /\ y.todo = router[r].todo
  PROVE  IInv'
<1> DEFINE x == router[r]
<1>1. /\ router' \in [Routers -> RouterVars] /\ router'[r] = y
      /\ \A q \in Routers : q # r => router'[q] = router[q]
  BY SetFacts DEF IInv
<1>2. UNCHANGED <<coming, queue, flags, data, lock, bad, given, returned, spoilt, died>>
  BY DEF files, hist
<1>3. x.cmds => x.pc \in Handles
  BY Handled DEF IInv
<1>4. ASSUME NEW q \in Routers, router'[q].pc \in Handles \/ router'[q].cmds
      PROVE  /\ router'[q].pc = router[q].pc /\ Mesg(q)' = Mesg(q)
             /\ router'[q].cmds = router[q].cmds /\ router'[q].flags = router[q].flags
             /\ router'[q].cleanup = router[q].cleanup /\ router'[q].todo = router[q].todo
             /\ HdrID(q)' = HdrID(q)
  BY <1>1, <1>4 DEF Mesg, HdrID
<1>5. RouterTypeOK'
  <2>1. ASSUME NEW q \in Routers
        PROVE
          /\ ~(At(q, "down") \/ At(q, "list") \/ At(q, "scan"))' => Mesg(q)' \in Mesgs
          /\ Handling(q)' => router'[q].todo \subseteq Bound[HdrID(q)']
          /\ router'[q].cmds => Handling(q)' /\ lock'[Mesg(q)'] = {q}
    <3>1. CASE router'[q].pc \in Handles \/ router'[q].cmds
      BY <1>2, <1>4, <3>1 DEF IInv, RouterTypeOK, At, Handling
    <3>2. CASE ~(router'[q].pc \in Handles \/ router'[q].cmds)
      <4>1. ~Handling(q)'
        BY <1>1, <3>2 DEF RouterVars, Handling, Handles
      <4>2. At(q, "open")' => Mesg(q)' \in Mesgs
        BY <1>1, <3>2 DEF IInv, RouterTypeOK, At, Mesg, Handles
      <4>3. QED
        BY <3>2, <4>1, <4>2 DEF Handling, At
    <3>3. QED
      BY <3>1, <3>2
  <2>2. QED
    BY <1>1, <1>2, <2>1 DEF IInv, RouterTypeOK
<1>6. AtHand'
  BY <1>2, <1>4 DEF IInv, AtHand, MustBeNew, Handles
<1>7. Whereabouts'
  BY <1>2, <1>4 DEF IInv, Whereabouts, Unspoilt
<1>8. ASSUME NEW q \in Routers, NEW k \in Mesgs
      PROVE  PastLookup(q, k)' <=> PastLookup(q, k)
  BY <1>1, <1>3, <1>4 DEF PastLookup, Mesg, Handles
<1>9. \A k \in Mesgs : Firm(k)' <=> Firm(k)
  BY <1>2, <1>8 DEF Firm
<1>10. IsPresent'
  BY <1>2 DEF IInv, IsPresent, Present, AllServed, Served
<1>11. coming' \cap (queue' \cup bad') = {} /\ bad \cap queue' \subseteq queue
  BY <1>2 DEF IInv, BadIsOver
<1>12. \A q \in Routers, n \in Mesgs :
            Unspoilt(q)' /\ router'[q].cleanup /\ n = Mesg(q)' =>
            /\ Unspoilt(q) /\ router[q].cleanup /\ n = Mesg(q)
            /\ router[q].pc = router'[q].pc /\ router[q].todo = router'[q].todo
  BY <1>2, <1>4 DEF Unspoilt
<1>13. \A q \in Routers : router[q].cmds =>
         /\ router'[q].cmds /\ Mesg(q)' = Mesg(q) /\ router'[q].cleanup = router[q].cleanup
  BY <1>1, <1>3 DEF Mesg
<1>14. QED
  BY OtherStep, <1>2, <1>5, <1>6, <1>7, <1>9, <1>10, <1>11, <1>12, <1>13

LEMMA QuietSteps ==
  ASSUME IInv, NEW r \in Routers,
         \/ ListBuild(r) \/ EndPass(r) \/ Finished(r) \/ Open(r) \/ Locked(r)
         \/ Term(r) \/ Start(r)
  PROVE  IInv'
<1> DEFINE x == router[r]
<1>1. x \in RouterVars /\ queue \subseteq Mesgs /\ known \subseteq Ids
  BY DEF IInv, RouterTypeOK
<1>2. x.list \subseteq Mesgs /\ x.locked \subseteq Mesgs /\ x.ids \subseteq Ids
  BY <1>1 DEF RouterVars
<1>3. ASSUME NEW y \in RouterVars, Set(r, y), y.ids \subseteq x.ids,
             known' \subseteq known \cup x.ids
      PROVE  Noted' \subseteq Noted /\ known' \subseteq Ids
  <2>1. Noted' \subseteq Noted \cup {}
    BY <1>3, NotedGrows DEF IInv
  <2>2. QED
    BY <2>1, <1>1, <1>2, <1>3
<1>4. ASSUME ListBuild(r) PROVE IInv'
  <2> DEFINE new == queue \ x.locked
             old == x.locked \cap queue
             y == [x EXCEPT !.pc = "scan", !.list = new, !.locked = old]
  <2>1. Set(r, y) /\ x.pc = "list" /\ UNCHANGED <<files, hist, known>>
    BY <1>4 DEF ListBuild, At
  <2>2. new \subseteq Mesgs /\ old \subseteq Mesgs
    BY <1>1
  <2> HIDE DEF new, old
  <2>3. y \in RouterVars /\ y.pc = "scan" /\ y.cmds = x.cmds /\ y.ids = x.ids
    BY <1>1, <2>2 DEF RouterVars
  <2> HIDE DEF y
  <2>4. x.pc \notin Handles /\ y.pc \notin Handles /\ ~x.cmds
    BY <2>1, <2>3, Handled DEF IInv, Handles
  <2>5. QED
    BY QuietStep, <1>3, <2>1, <2>3, <2>4
<1>5. ASSUME EndPass(r) PROVE IInv'
  <2> DEFINE y == IF x.did THEN [x EXCEPT !.pc = "list", !.did = FALSE]
                  ELSE [x EXCEPT !.pc = "list", !.open = FALSE, !.ids = {}]
  <2>1. /\ Set(r, y) /\ x.pc = "scan" /\ UNCHANGED <<files, hist>>
        /\ known' \subseteq known \cup x.ids
    BY <1>5 DEF EndPass, At
  <2>2. y \in RouterVars /\ y.pc = "list" /\ y.cmds = x.cmds /\ y.ids \subseteq x.ids
    <3>1. CASE x.did
      BY <1>1, <3>1 DEF RouterVars
    <3>2. CASE ~x.did
      BY <1>1, <3>2 DEF RouterVars
    <3>3. QED
      BY <3>1, <3>2
  <2> HIDE DEF y
  <2>3. x.pc \notin Handles /\ y.pc \notin Handles /\ ~x.cmds
    BY <2>1, <2>2, Handled DEF IInv, Handles
  <2>4. QED
    BY QuietStep, <1>3, <2>1, <2>2, <2>3
<1>6. ASSUME Finished(r) PROVE IInv'
  <2> DEFINE y == Fresh("down", FALSE)
  <2>1. /\ Set(r, y) /\ x.pc = "scan" /\ UNCHANGED <<files, hist>>
        /\ known' \subseteq known \cup x.ids
    BY <1>6 DEF Finished, finish, At
  <2>2. y \in RouterVars /\ y.pc = "down" /\ ~y.cmds /\ y.ids = {}
    BY DEF RouterVars, Fresh
  <2> HIDE DEF y
  <2>3. x.pc \notin Handles /\ y.pc \notin Handles
    BY <2>1, <2>2 DEF Handles
  <2>4. QED
    BY QuietStep, <1>3, <2>1, <2>2, <2>3
<1>7. ASSUME Open(r) PROVE IInv'
  <2>1. PICK m \in x.list :
          Set(r, [x EXCEPT !.list = @ \ {m}, !.m = m, !.pc = IF m \in queue THEN "open" ELSE "scan"])
    BY <1>7 DEF Open
  <2> DEFINE to == IF m \in queue THEN "open" ELSE "scan"
             rest == x.list \ {m}
             y == [x EXCEPT !.list = rest, !.m = m, !.pc = to]
  <2>2. Set(r, y) /\ x.pc = "scan" /\ UNCHANGED <<files, hist, known>>
    BY <1>7, <2>1 DEF Open, At
  <2>3. rest \subseteq Mesgs /\ m \in Mesgs /\ to \in {"open", "scan"}
    BY <1>2
  <2> HIDE DEF to, rest
  <2>4. y \in RouterVars /\ y.pc = to /\ y.m = m /\ y.cmds = x.cmds /\ y.ids = x.ids
    BY <1>1, <2>3 DEF RouterVars
  <2> HIDE DEF y
  <2>5. x.pc \notin Handles /\ y.pc \notin Handles /\ ~x.cmds
    BY <2>2, <2>3, <2>4, Handled DEF IInv, Handles
  <2>6. QED
    BY QuietStep, <1>3, <2>2, <2>3, <2>4, <2>5
<1>8. ASSUME Locked(r) PROVE IInv'
  <2> DEFINE more == x.locked \cup {Mesg(r)}
             y == [x EXCEPT !.pc = "scan", !.locked = more]
  <2>1. Set(r, y) /\ x.pc = "open" /\ UNCHANGED <<files, hist, known>>
    BY <1>8 DEF Locked, At
  <2>2. more \subseteq Mesgs
    BY <1>2, <2>1 DEF IInv, RouterTypeOK, At
  <2> HIDE DEF more
  <2>3. y \in RouterVars /\ y.pc = "scan" /\ y.cmds = x.cmds /\ y.ids = x.ids
    BY <1>1, <2>2 DEF RouterVars
  <2> HIDE DEF y
  <2>4. x.pc \notin Handles /\ y.pc \notin Handles /\ ~x.cmds
    BY <2>1, <2>3, Handled DEF IInv, Handles
  <2>5. QED
    BY QuietStep, <1>3, <2>1, <2>3, <2>4
<1>9. ASSUME Term(r) PROVE IInv'
  <2> DEFINE y == [x EXCEPT !.Finish = TRUE]
  <2>1. Set(r, y) /\ UNCHANGED <<files, hist, known>>
    BY <1>9 DEF Term
  <2>2. /\ y \in RouterVars /\ y.pc = x.pc /\ y.m = x.m /\ y.cmds = x.cmds /\ y.ids = x.ids
        /\ y.flags = x.flags /\ y.cleanup = x.cleanup /\ y.todo = x.todo
    BY <1>1 DEF RouterVars
  <2> HIDE DEF y
  <2>3. QED
    BY QuietStep, <1>3, <2>1, <2>2
<1>10. ASSUME Start(r) PROVE IInv'
  <2> DEFINE y == Fresh("list", FALSE)
  <2>1. Set(r, y) /\ x.pc = "down" /\ UNCHANGED <<files, hist, known>>
    BY <1>10 DEF Start, At
  <2>2. y \in RouterVars /\ y.pc = "list" /\ ~y.cmds /\ y.ids = {}
    BY DEF RouterVars, Fresh
  <2> HIDE DEF y
  <2>3. x.pc \notin Handles /\ y.pc \notin Handles
    BY <2>1, <2>2 DEF Handles
  <2>4. QED
    BY QuietStep, <1>3, <2>1, <2>2, <2>3
<1>11. QED
  BY <1>4, <1>5, <1>6, <1>7, <1>8, <1>9, <1>10

-----------------------------------------------------------------------------
(* write_lock gets the lock: nobody else has the message at hand.           *)
LEMMA LockStep ==
  ASSUME IInv, NEW r \in Routers, Lock(r)
  PROVE  IInv'
<1> DEFINE x == router[r]
<1>1. x \in RouterVars /\ x.pc = "open" /\ Mesg(r) \in Mesgs
  BY DEF Lock, At, IInv, RouterTypeOK
<1>2. PICK m \in Mesgs : m = Mesg(r)
  BY <1>1
<1> DEFINE y == [x EXCEPT !.pc = "route", !.did = TRUE, !.cmds = TRUE, !.cleanup = TRUE,
                          !.flags = flags[m], !.todo = Bound[Id[m]]]
<1>3. /\ Set(r, y) /\ lock[m] = {} /\ lock' = [lock EXCEPT ![m] = {r}]
      /\ spoilt' = IF m \in queue THEN spoilt ELSE spoilt \cup {Id[m]}
      /\ UNCHANGED <<coming, queue, flags, data, known, bad, given, returned, died>>
  BY <1>2 DEF Lock
<1>4. flags[m] \subseteq Flags /\ Bound[Id[m]] \subseteq Links
  BY <1>2, IdFacts DEF IInv, RouterTypeOK
<1>5. /\ y \in RouterVars /\ y.pc = "route" /\ y.m = m /\ y.cmds /\ y.cleanup
      /\ y.flags = flags[m] /\ y.todo = Bound[Id[m]] /\ y.ids = x.ids
  BY <1>1, <1>2, <1>4 DEF RouterVars, Mesg
<1> HIDE DEF y
<1>6. /\ router' \in [Routers -> RouterVars] /\ router'[r] = y
      /\ \A q \in Routers : q # r => router'[q] = router[q]
  BY <1>3, <1>5, SetFacts DEF IInv
<1>7. x.pc \notin Handles /\ ~x.cmds
  BY <1>1, Handled DEF IInv, Handles
<1>8. ASSUME NEW q \in Routers, router[q].cmds PROVE Mesg(q) \in Mesgs \ {m}
  BY <1>3, <1>8 DEF IInv, RouterTypeOK, Handling, At
<1>9. RouterTypeOK'
  <2>1. ASSUME NEW q \in Routers
        PROVE
          /\ ~(At(q, "down") \/ At(q, "list") \/ At(q, "scan"))' => Mesg(q)' \in Mesgs
          /\ Handling(q)' => router'[q].todo \subseteq Bound[HdrID(q)']
          /\ router'[q].cmds => Handling(q)' /\ lock'[Mesg(q)'] = {q}
    <3>1. CASE q = r
      BY <1>3, <1>5, <1>6, <3>1 DEF At, Handling, Mesg, HdrID, IInv, RouterTypeOK
    <3>2. CASE q # r
      <4>1. router'[q] = router[q]
        BY <1>6, <3>2
      <4>2. router[q].cmds => lock'[Mesg(q)] = lock[Mesg(q)]
        BY <1>3, <1>8 DEF IInv, RouterTypeOK
      <4>3. QED
        BY <4>1, <4>2 DEF IInv, RouterTypeOK, At, Handling, Mesg, HdrID
    <3>3. QED
      BY <3>1, <3>2
  <2>2. lock' \in [Mesgs -> SUBSET Routers]
    <3>1. lock \in [Mesgs -> SUBSET Routers] /\ {r} \in SUBSET Routers
      BY DEF IInv, RouterTypeOK
    <3>2. QED
      BY <1>3, <3>1
  <2>3. spoilt' \subseteq Ids
    BY <1>3, IdFacts DEF IInv, RouterTypeOK
  <2>4. QED
    BY <1>3, <1>6, <2>1, <2>2, <2>3 DEF IInv, RouterTypeOK
<1>10. AtHand'
  BY <1>3, <1>5, <1>6 DEF IInv, AtHand, Mesg, HdrID, MustBeNew
<1>11. Whereabouts'
  BY <1>3, <1>5, <1>6 DEF IInv, Whereabouts, Unspoilt, Mesg, HdrID
<1>12. \A q \in Routers, k \in Mesgs : PastLookup(q, k)' <=> PastLookup(q, k)
  BY <1>5, <1>6, <1>7 DEF PastLookup, Mesg
<1>13. \A k \in Mesgs : Firm(k)' <=> Firm(k)
  BY <1>3, <1>12 DEF Firm
<1>14. IsPresent'
  BY <1>3 DEF IInv, IsPresent, Present, AllServed, Served
<1>15. \A q \in Routers, n \in Mesgs :
            Unspoilt(q)' /\ router'[q].cleanup /\ n = Mesg(q)'
              /\ router'[q].pc \in {"rest", "spool", "cleanup"} =>
            /\ Unspoilt(q) /\ router[q].cleanup /\ n = Mesg(q)
            /\ router[q].pc = router'[q].pc /\ router[q].todo = router'[q].todo
  BY <1>3, <1>5, <1>6 DEF Unspoilt, Mesg, HdrID
<1>16. \A q \in Routers : router[q].cmds => router'[q] = router[q]
  BY <1>6, <1>7
<1>17. Noted' \subseteq Noted
  <2>1. Noted' \subseteq Noted \cup {}
    BY <1>3, <1>5, NotedGrows DEF IInv
  <2>2. QED
    BY <2>1
<1>18. coming' \cap (queue' \cup bad') = {} /\ bad \cap queue' \subseteq queue /\ spoilt \subseteq spoilt'
  BY <1>3 DEF IInv, BadIsOver
<1>19. QED
  BY OtherStep, <1>3, <1>9, <1>10, <1>11, <1>13, <1>14, <1>15, <1>16, <1>17, <1>18 DEF Mesg

(* The data files are unlinked: the message has gone everywhere, or another *)
(* copy of it is firm.                                                      *)
LEMMA UnlinkDataStep ==
  ASSUME IInv, NEW r \in Routers, UnlinkData(r)
  PROVE  IInv'
<1> DEFINE x == router[r]
           y == [x EXCEPT !.cleanup = FALSE]
<1>1. x.pc = "cleanup" /\ x.cleanup
  BY DEF UnlinkData, At
<1>2. PICK m \in Mesgs, i \in Ids : m = Mesg(r) /\ i = HdrID(r) /\ i = Id[m] /\ x \in RouterVars
  BY <1>1, Hand DEF Handles
<1>3. /\ Set(r, y) /\ data' = data \ {m}
      /\ UNCHANGED <<coming, queue, flags, lock, known, bad, given, returned, spoilt, died>>
  BY <1>2 DEF UnlinkData, hist
<1>4. /\ y \in RouterVars /\ y.pc = "cleanup" /\ y.m = x.m /\ y.cmds = x.cmds /\ ~y.cleanup
      /\ y.flags = x.flags /\ y.todo = x.todo /\ y.ids = x.ids
  BY <1>1, <1>2 DEF RouterVars
<1> HIDE DEF y
<1>5. /\ router' \in [Routers -> RouterVars] /\ router'[r] = y
      /\ \A q \in Routers : q # r => router'[q] = router[q]
  BY <1>3, <1>4, SetFacts DEF IInv
<1>6. ASSUME NEW q \in Routers
      PROVE  /\ router'[q].pc = router[q].pc /\ Mesg(q)' = Mesg(q) /\ HdrID(q)' = HdrID(q)
             /\ router'[q].cmds = router[q].cmds /\ router'[q].flags = router[q].flags
             /\ router'[q].todo = router[q].todo
             /\ router'[q].cleanup => q # r /\ router[q].cleanup
             /\ q # r => router'[q].cleanup = router[q].cleanup
  BY <1>1, <1>4, <1>5 DEF Mesg, HdrID
<1>7. i \notin spoilt => x.cmds
  BY <1>1, <1>2 DEF IInv, Whereabouts, Unspoilt, Handles
<1>8. RouterTypeOK'
  <2>1. ASSUME NEW q \in Routers
        PROVE
          /\ ~(At(q, "down") \/ At(q, "list") \/ At(q, "scan"))' => Mesg(q)' \in Mesgs
          /\ Handling(q)' => router'[q].todo \subseteq Bound[HdrID(q)']
          /\ router'[q].cmds => Handling(q)' /\ lock'[Mesg(q)'] = {q}
    BY <1>3, <1>6 DEF IInv, RouterTypeOK, At, Handling
  <2>2. QED
    BY <1>3, <1>5, <2>1 DEF IInv, RouterTypeOK
<1>9. AtHand'
  BY <1>1, <1>3, <1>4, <1>5, <1>6 DEF IInv, AtHand, MustBeNew
<1>10. Whereabouts'
  <2> SUFFICES ASSUME NEW q \in Routers, Unspoilt(q)'
      PROVE  /\ router'[q].cmds => Mesg(q)' \in queue'
             /\ ~router'[q].cmds => ~router'[q].cleanup /\ router'[q].pc \in {"spool", "cleanup"}
             /\ router'[q].cmds /\ ~router'[q].cleanup =>
                  Mesg(q)' \in bad' \/ (router'[q].pc = "cleanup" /\ Mesg(q)' \notin data')
             /\ router'[q].pc \in {"lookup", "deliver"} => Mesg(q)' \in data'
    BY DEF Whereabouts
  <2>1. Unspoilt(q)
    BY <1>3, <1>6 DEF Unspoilt
  <2>2. CASE q = r
    BY <1>1, <1>2, <1>3, <1>4, <1>6, <2>1, <2>2 DEF IInv, Whereabouts
  <2>3. CASE q # r
    <3>1. router[q].pc \in {"lookup", "deliver"} => Mesg(q) # m
      <4> SUFFICES ASSUME router[q].pc \in {"lookup", "deliver"}, Mesg(q) = m PROVE FALSE
        OBVIOUS
      <4>1. router[q].cmds /\ i \notin spoilt
        BY <2>1, <1>2 DEF IInv, AtHand, Unspoilt, HdrID
      <4>2. QED
        BY <4>1, <1>2, <1>7, <2>3, Holders DEF IInv
    <3>2. QED
      BY <1>3, <1>6, <2>1, <2>3, <3>1 DEF IInv, Whereabouts
  <2>4. QED
    BY <2>2, <2>3
<1>11. \A q \in Routers, k \in Mesgs : PastLookup(q, k)' <=> PastLookup(q, k)
  BY <1>6 DEF PastLookup
<1>12. /\ \A k \in Mesgs : Firm(k)' => Firm(k)
       /\ \A k \in Mesgs : k # m /\ Firm(k) => Firm(k)'
  BY <1>3, <1>11 DEF Firm
<1>13. i \notin spoilt => AllServed(i) \/ (i \in Broadcasts /\ ~Firm(m) /\ FirmCopy(i))
  BY <1>1, <1>2 DEF IInv, Progress, Unspoilt, Handles
<1>14. \A k \in Mesgs : Id[k] \in Broadcasts \ spoilt' /\ Firm(k) => Firm(k)' \/ AllServed(Id[k])
  BY <1>2, <1>3, <1>12, <1>13
<1>15. IsPresent'
  <2> SUFFICES ASSUME NEW j \in Ids \ spoilt', ~AllServed(j)'
               PROVE  \E k \in Mesgs : Id[k] = j /\ Present(k)'
    BY DEF IsPresent
  <2>1. ~AllServed(j) /\ j \notin spoilt
    BY <1>3 DEF AllServed, Served
  <2>2. CASE j = i
    <3>1. PICK k \in Mesgs : Id[k] = i /\ Firm(k) /\ k # m
      BY <1>13, <2>1, <2>2 DEF FirmCopy
    <3>2. Present(k)'
      BY <3>1, <1>3 DEF Present, Firm
    <3>3. QED
      BY <2>2, <3>1, <3>2
  <2>3. CASE j # i
    <3>1. PICK k \in Mesgs : Id[k] = j /\ Present(k)
      BY <2>1 DEF IInv, IsPresent
    <3>2. Present(k)'
      BY <1>2, <1>3, <2>3, <3>1 DEF Present
    <3>3. QED
      BY <3>1, <3>2
  <2>4. QED
    BY <2>2, <2>3
<1>16. \A q \in Routers, n \in Mesgs :
            Unspoilt(q)' /\ router'[q].cleanup /\ n = Mesg(q)' =>
            /\ Unspoilt(q) /\ router[q].cleanup /\ n = Mesg(q)
            /\ router[q].pc = router'[q].pc /\ router[q].todo = router'[q].todo
            /\ ~Firm(n) => ~Firm(n)'
  BY <1>3, <1>6, <1>12 DEF Unspoilt
<1>17. \A q \in Routers : router[q].cmds /\ ~router[q].cleanup =>
          router'[q].cmds /\ Mesg(q)' = Mesg(q) /\ ~router'[q].cleanup
  BY <1>6
<1>18. Noted' \subseteq Noted
  <2>1. Noted' \subseteq Noted \cup {}
    BY <1>3, <1>4, NotedGrows DEF IInv
  <2>2. QED
    BY <2>1
<1>19. coming' \cap (queue' \cup bad') = {} /\ bad \cap queue' \subseteq queue
  BY <1>3 DEF IInv, BadIsOver
<1>20. QED
  BY OtherStep, <1>3, <1>8, <1>9, <1>10, <1>14, <1>15, <1>16, <1>17, <1>18, <1>19

(* The commands file is unlinked: its data files are gone, or it is kept.   *)
LEMMA UnlinkCmdsStep ==
  ASSUME IInv, NEW r \in Routers, UnlinkCmds(r)
  PROVE  IInv'
<1> DEFINE x == router[r]
           y == IF x.exit THEN Fresh("down", FALSE) ELSE Cleared(r)
<1>1. x.pc = "cleanup" /\ ~x.cleanup
  BY DEF UnlinkCmds, At
<1>2. PICK m \in Mesgs, i \in Ids : m = Mesg(r) /\ i = HdrID(r) /\ i = Id[m] /\ x \in RouterVars
  BY <1>1, Hand DEF Handles
<1>3. /\ Set(r, y) /\ known' \subseteq known \cup x.ids
      /\ queue' = IF x.cmds THEN queue \ {m} ELSE queue
      /\ lock' = IF x.cmds THEN [lock EXCEPT ![m] = @ \ {r}] ELSE lock
      /\ UNCHANGED <<coming, flags, data, bad, given, returned, spoilt, died>>
  BY <1>2 DEF UnlinkCmds, finish, hist, Mesg
<1>4. y \in RouterVars /\ y.pc \in {"down", "scan"} /\ ~y.cmds /\ y.ids \subseteq x.ids
  <2>1. CASE x.exit
    BY <2>1 DEF RouterVars, Fresh
  <2>2. CASE ~x.exit
    BY <1>2, <2>2 DEF RouterVars, Cleared
  <2>3. QED
    BY <2>1, <2>2
<1> HIDE DEF y
<1>5. /\ router' \in [Routers -> RouterVars] /\ router'[r] = y
      /\ \A q \in Routers : q # r => router'[q] = router[q]
  BY <1>3, <1>4, SetFacts DEF IInv
<1>6. ASSUME NEW q \in Routers, router'[q].pc \in Handles \/ router'[q].pc = "open" \/ router'[q].cmds
      PROVE  /\ q # r /\ router'[q] = router[q] /\ Mesg(q)' = Mesg(q) /\ HdrID(q)' = HdrID(q)
             /\ x.cmds /\ router[q].cmds => Mesg(q) # m
             /\ router[q].cmds => Mesg(q) \in Mesgs
  <2>1. q # r /\ router'[q] = router[q]
    BY <1>4, <1>5, <1>6 DEF Handles
  <2>2. router[q].cmds => Mesg(q) \in Mesgs
    BY DEF IInv, RouterTypeOK, Handling, At
  <2>3. QED
    BY <1>2, <2>1, <2>2, Holders DEF Mesg, HdrID, IInv
<1>7. /\ lock \in [Mesgs -> SUBSET Routers] /\ x.ids \subseteq Ids /\ queue \subseteq Mesgs
      /\ known \subseteq Ids
  BY <1>2, FieldTypes DEF IInv, RouterTypeOK
<1>8. /\ lock' \in [Mesgs -> SUBSET Routers]
      /\ \A k \in Mesgs : k # m \/ ~x.cmds => lock'[k] = lock[k]
  BY <1>3, <1>7
<1>9. RouterTypeOK'
  <2>1. ASSUME NEW q \in Routers
        PROVE
          /\ ~(At(q, "down") \/ At(q, "list") \/ At(q, "scan"))' => Mesg(q)' \in Mesgs
          /\ Handling(q)' => router'[q].todo \subseteq Bound[HdrID(q)']
          /\ router'[q].cmds => Handling(q)' /\ lock'[Mesg(q)'] = {q}
    <3>1. CASE router'[q].pc \in Handles \/ router'[q].pc = "open" \/ router'[q].cmds
      <4>1. /\ ~(At(q, "down") \/ At(q, "list") \/ At(q, "scan")) => Mesg(q) \in Mesgs
            /\ Handling(q) => router[q].todo \subseteq Bound[HdrID(q)]
            /\ router[q].cmds => Handling(q) /\ lock[Mesg(q)] = {q}
        BY DEF IInv, RouterTypeOK
      <4>2. router[q].cmds => lock'[Mesg(q)] = lock[Mesg(q)]
        BY <1>6, <1>8, <3>1
      <4>3. QED
        BY <1>6, <3>1, <4>1, <4>2 DEF At, Handling
    <3>2. CASE ~(router'[q].pc \in Handles \/ router'[q].pc = "open" \/ router'[q].cmds)
      BY <1>5, <3>2 DEF RouterVars, At, Handling, Handles
    <3>3. QED
      BY <3>1, <3>2
  <2>2. /\ coming' \cup queue' \cup data' \cup bad' \subseteq Mesgs
        /\ flags' \in [Mesgs -> SUBSET Flags]
        /\ given' \in [Ids -> [AllPlaces -> Marks]]
        /\ returned' \cup spoilt' \cup died' \cup known' \subseteq Ids
    BY <1>3, <1>7 DEF IInv, RouterTypeOK
  <2>3. QED
    BY <1>5, <1>8, <2>1, <2>2 DEF RouterTypeOK
<1>10. AtHand'
  <2> SUFFICES ASSUME NEW q \in Routers
      PROVE  /\ router'[q].pc \in {"route", "lookup", "deliver"} =>
                   router'[q].cmds /\ router'[q].cleanup /\ router'[q].todo = Bound[HdrID(q)']
             /\ router'[q].pc = "rest" => router'[q].todo = Bound[HdrID(q)']
             /\ router'[q].pc = "lookup" => MustBeNew(q)'
             /\ router'[q].cmds => router'[q].flags = flags'[Mesg(q)']
    BY DEF AtHand
  <2>1. CASE router'[q].pc \in Handles \/ router'[q].cmds
    BY <1>3, <1>6, <2>1 DEF IInv, AtHand, MustBeNew
  <2>2. CASE ~(router'[q].pc \in Handles \/ router'[q].cmds)
    BY <2>2 DEF Handles
  <2>3. QED
    BY <2>1, <2>2
<1>11. Whereabouts'
  <2> SUFFICES ASSUME NEW q \in Routers, Unspoilt(q)'
      PROVE  /\ router'[q].cmds => Mesg(q)' \in queue'
             /\ ~router'[q].cmds => ~router'[q].cleanup /\ router'[q].pc \in {"spool", "cleanup"}
             /\ router'[q].cmds /\ ~router'[q].cleanup =>
                  Mesg(q)' \in bad' \/ (router'[q].pc = "cleanup" /\ Mesg(q)' \notin data')
             /\ router'[q].pc \in {"lookup", "deliver"} => Mesg(q)' \in data'
    BY DEF Whereabouts
  <2>1. /\ router'[q] = router[q] /\ Mesg(q)' = Mesg(q) /\ Unspoilt(q)
        /\ x.cmds /\ router[q].cmds => Mesg(q) # m
    BY <1>3, <1>6 DEF Unspoilt
  <2>2. QED
    BY <1>3, <2>1 DEF IInv, Whereabouts
<1>12. \A q \in Routers, k \in Mesgs : PastLookup(q, k)' => PastLookup(q, k) /\ (x.cmds => k # m)
  BY <1>6 DEF PastLookup
<1>13. \A k \in Mesgs : Firm(k)' => Firm(k)
  BY <1>3, <1>12 DEF Firm
<1>14. \A q \in Routers, k \in Mesgs : PastLookup(q, k) => PastLookup(q, k)'
  BY <1>1, <1>5 DEF PastLookup, Mesg
<1>15. i \notin spoilt /\ x.cmds => m \in bad \/ m \notin data
  BY <1>1, <1>2 DEF IInv, Whereabouts, Unspoilt, Handles
<1>16. ASSUME NEW k \in Mesgs, Id[k] \notin spoilt
       PROVE  (Firm(k) => Firm(k)') /\ (Present(k) => Present(k)')
  <2>1. CASE k = m /\ x.cmds
    BY <1>2, <1>3, <1>15, <1>16, <2>1 DEF Firm, Present
  <2>2. CASE k # m \/ ~x.cmds
    BY <1>3, <1>14, <2>2 DEF Firm, Present
  <2>3. QED
    BY <2>1, <2>2
<1>17. IsPresent'
  <2> SUFFICES ASSUME NEW j \in Ids \ spoilt', ~AllServed(j)'
               PROVE  \E k \in Mesgs : Id[k] = j /\ Present(k)'
    BY DEF IsPresent
  <2>1. ~AllServed(j) /\ j \notin spoilt
    BY <1>3 DEF AllServed, Served
  <2>2. PICK k \in Mesgs : Id[k] = j /\ Present(k)
    BY <2>1 DEF IInv, IsPresent
  <2>3. QED
    BY <2>1, <2>2, <1>16
<1>18. \A q \in Routers, n \in Mesgs :
            Unspoilt(q)' /\ router'[q].cleanup /\ n = Mesg(q)' =>
            /\ Unspoilt(q) /\ router[q].cleanup /\ n = Mesg(q)
            /\ router[q].pc = router'[q].pc /\ router[q].todo = router'[q].todo
            /\ ~Firm(n) => ~Firm(n)'
  BY <1>3, <1>6, <1>13 DEF Unspoilt
<1>19. ASSUME NEW k \in bad \cap queue', NEW q \in Routers,
              router[q].cmds, Mesg(q) = k, ~router[q].cleanup
       PROVE  router'[q].cmds /\ Mesg(q)' = k /\ ~router'[q].cleanup
  <2>1. q # r
    BY <1>2, <1>3, <1>19
  <2>2. QED
    BY <1>5, <1>19, <2>1 DEF Mesg
<1>20. Noted' \subseteq Noted
  <2>1. Noted' \subseteq Noted \cup {}
    BY <1>3, <1>4, NotedGrows DEF IInv
  <2>2. QED
    BY <2>1
<1>21. coming' \cap (queue' \cup bad') = {} /\ bad \cap queue' \subseteq queue
  BY <1>3 DEF IInv, BadIsOver
<1>22. QED
  BY OtherStep, <1>3, <1>9, <1>10, <1>11, <1>16, <1>17, <1>18, <1>19, <1>20, <1>21

(* A router that dies past LookupMsgsDB may have noted what it then loses.  *)
LEMMA DieStep ==
  ASSUME IInv, NEW r \in Routers, Die(r)
  PROVE  IInv'
<1> DEFINE x == router[r]
           y == Fresh("down", FALSE)
<1>1. /\ Set(r, y) /\ lock' = [k \in Mesgs |-> lock[k] \ {r}]
      /\ spoilt' = IF Handling(r) /\ ~At(r, "route") /\ MustBeNew(r)
                   THEN spoilt \cup {HdrID(r)} ELSE spoilt
      /\ died' = died \cup x.ids \cup (IF Handling(r) THEN {HdrID(r)} ELSE {})
      /\ UNCHANGED <<coming, queue, flags, data, known, bad, given, returned>>
  BY DEF Die
<1>2. y \in RouterVars /\ y.pc = "down" /\ ~y.cmds /\ y.ids = {}
  BY DEF RouterVars, Fresh
<1> HIDE DEF y
<1>3. /\ router' \in [Routers -> RouterVars] /\ router'[r] = y
      /\ \A q \in Routers : q # r => router'[q] = router[q]
  BY <1>1, <1>2, SetFacts DEF IInv
<1>4. /\ x \in RouterVars /\ x.ids \subseteq Ids
      /\ Handling(r) <=> x.pc \in Handles
      /\ x.pc \in Handles => Mesg(r) \in Mesgs /\ HdrID(r) \in Ids
  <2>1. x \in RouterVars
    BY DEF IInv, RouterTypeOK
  <2>2. QED
    BY <2>1, Hand, Handled, FieldTypes DEF IInv
<1>5. ASSUME NEW q \in Routers, router'[q].pc \in Handles \/ router'[q].pc = "open" \/ router'[q].cmds
      PROVE  /\ q # r /\ router'[q] = router[q] /\ Mesg(q)' = Mesg(q) /\ HdrID(q)' = HdrID(q)
             /\ router[q].cmds => Mesg(q) \in Mesgs
  <2>1. q # r /\ router'[q] = router[q]
    BY <1>2, <1>3, <1>5 DEF Handles
  <2>2. router[q].cmds => Mesg(q) \in Mesgs
    BY DEF IInv, RouterTypeOK, Handling, At
  <2>3. QED
    BY <2>1, <2>2 DEF Mesg, HdrID
<1>6. RouterTypeOK'
  <2>1. ASSUME NEW q \in Routers
        PROVE
          /\ ~(At(q, "down") \/ At(q, "list") \/ At(q, "scan"))' => Mesg(q)' \in Mesgs
          /\ Handling(q)' => router'[q].todo \subseteq Bound[HdrID(q)']
          /\ router'[q].cmds => Handling(q)' /\ lock'[Mesg(q)'] = {q}
    <3>1. CASE router'[q].pc \in Handles \/ router'[q].pc = "open" \/ router'[q].cmds
      <4>1. /\ ~(At(q, "down") \/ At(q, "list") \/ At(q, "scan")) => Mesg(q) \in Mesgs
            /\ Handling(q) => router[q].todo \subseteq Bound[HdrID(q)]
            /\ router[q].cmds => Handling(q) /\ lock[Mesg(q)] = {q}
        BY DEF IInv, RouterTypeOK
      <4>2. router[q].cmds => lock'[Mesg(q)] = {q}
        BY <1>1, <1>5, <3>1, <4>1
      <4>3. QED
        BY <1>5, <3>1, <4>1, <4>2 DEF At, Handling
    <3>2. CASE ~(router'[q].pc \in Handles \/ router'[q].pc = "open" \/ router'[q].cmds)
      BY <1>3, <3>2 DEF RouterVars, At, Handling, Handles
    <3>3. QED
      BY <3>1, <3>2
  <2>2. lock' \in [Mesgs -> SUBSET Routers] /\ spoilt' \subseteq Ids /\ died' \subseteq Ids
    BY <1>1, <1>4 DEF IInv, RouterTypeOK
  <2>3. QED
    BY <1>1, <1>3, <2>1, <2>2 DEF IInv, RouterTypeOK
<1>7. AtHand'
  <2> SUFFICES ASSUME NEW q \in Routers
      PROVE  /\ router'[q].pc \in {"route", "lookup", "deliver"} =>
                   router'[q].cmds /\ router'[q].cleanup /\ router'[q].todo = Bound[HdrID(q)']
             /\ router'[q].pc = "rest" => router'[q].todo = Bound[HdrID(q)']
             /\ router'[q].pc = "lookup" => MustBeNew(q)'
             /\ router'[q].cmds => router'[q].flags = flags'[Mesg(q)']
    BY DEF AtHand
  <2>1. CASE router'[q].pc \in Handles \/ router'[q].cmds
    BY <1>1, <1>5, <2>1 DEF IInv, AtHand, MustBeNew
  <2>2. CASE ~(router'[q].pc \in Handles \/ router'[q].cmds)
    BY <2>2 DEF Handles
  <2>3. QED
    BY <2>1, <2>2
<1>8. Whereabouts'
  <2> SUFFICES ASSUME NEW q \in Routers, Unspoilt(q)'
      PROVE  /\ router'[q].cmds => Mesg(q)' \in queue'
             /\ ~router'[q].cmds => ~router'[q].cleanup /\ router'[q].pc \in {"spool", "cleanup"}
             /\ router'[q].cmds /\ ~router'[q].cleanup =>
                  Mesg(q)' \in bad' \/ (router'[q].pc = "cleanup" /\ Mesg(q)' \notin data')
             /\ router'[q].pc \in {"lookup", "deliver"} => Mesg(q)' \in data'
    BY DEF Whereabouts
  <2>1. router'[q] = router[q] /\ Mesg(q)' = Mesg(q) /\ Unspoilt(q)
    BY <1>1, <1>5 DEF Unspoilt
  <2>2. QED
    BY <1>1, <2>1 DEF IInv, Whereabouts
<1>9. /\ \A q \in Routers, k \in Mesgs : PastLookup(q, k)' => PastLookup(q, k)
      /\ \A q \in Routers, k \in Mesgs : q # r /\ PastLookup(q, k) => PastLookup(q, k)'
  BY <1>3, <1>5 DEF PastLookup, Mesg
<1>10. \A k \in Mesgs : Firm(k)' => Firm(k)
  BY <1>1, <1>9 DEF Firm
<1>11. ASSUME NEW k \in Mesgs, Id[k] \in Broadcasts \ spoilt', "RE_ROUTE" \notin flags[k],
              x.cmds, Mesg(r) = k
       PROVE  x.pc = "route"
  <2>1. x.pc \in Handles /\ x.flags = flags[k] /\ HdrID(r) = Id[k]
    BY <1>11, Handled DEF IInv, AtHand, HdrID
  <2>2. MustBeNew(r)
    BY <1>11, <2>1 DEF MustBeNew
  <2>3. QED
    BY <1>1, <1>4, <1>11, <2>1, <2>2 DEF At
<1>12. ASSUME NEW k \in Mesgs, Id[k] \in Broadcasts \ spoilt', Firm(k) PROVE Firm(k)'
  <2>1. CASE k \in bad \/ "RE_ROUTE" \in flags[k]
    BY <1>1, <1>12, <2>1 DEF Firm
  <2>2. CASE k \notin bad /\ "RE_ROUTE" \notin flags[k]
    <3>1. PICK q \in Routers : PastLookup(q, k)
      BY <1>12, <2>2 DEF Firm
    <3>2. q # r
      BY <1>11, <1>12, <2>2, <3>1 DEF PastLookup
    <3>3. PastLookup(q, k)'
      BY <1>9, <3>1, <3>2
    <3>4. QED
      BY <1>1, <1>12, <3>3 DEF Firm
  <2>3. QED
    BY <2>1, <2>2
<1>13. IsPresent'
  BY <1>1 DEF IInv, IsPresent, Present, AllServed, Served
<1>14. \A q \in Routers, n \in Mesgs :
            Unspoilt(q)' /\ router'[q].cleanup /\ n = Mesg(q)' =>
            /\ Unspoilt(q) /\ router[q].cleanup /\ n = Mesg(q)
            /\ router[q].pc = router'[q].pc /\ router[q].todo = router'[q].todo
            /\ ~Firm(n) => ~Firm(n)'
  BY <1>1, <1>5, <1>10 DEF Unspoilt
<1>15. ASSUME NEW k \in bad \cap queue', NEW q \in Routers,
              Id[k] \in Broadcasts \ spoilt', "RE_ROUTE" \notin flags[k],
              router[q].cmds, Mesg(q) = k, ~router[q].cleanup
       PROVE  router'[q].cmds /\ Mesg(q)' = k /\ ~router'[q].cleanup
  <2>1. k \in Mesgs
    BY DEF IInv, RouterTypeOK
  <2>2. q # r
    BY <1>11, <1>15, <2>1 DEF IInv, AtHand
  <2>3. QED
    BY <1>3, <1>15, <2>2 DEF Mesg
<1>16. Noted' \subseteq Noted
  <2>1. Noted' \subseteq Noted \cup {}
    BY <1>1, <1>2, NotedGrows DEF IInv
  <2>2. QED
    BY <2>1
<1>17. /\ coming' \cap (queue' \cup bad') = {} /\ bad \cap queue' \subseteq queue
       /\ spoilt \subseteq spoilt'
  BY <1>1 DEF IInv, BadIsOver
<1>18. QED
  BY OtherStep, <1>1, <1>6, <1>7, <1>8, <1>12, <1>13, <1>14, <1>15, <1>16, <1>17

(* A commands file that arrives was not in the directory before.            *)
LEMMA ArriveStep ==
  ASSUME IInv, NEW m \in Mesgs, Arrive(m)
  PROVE  IInv'
<1>1. /\ m \in coming /\ coming' = coming \ {m}
      /\ queue' = queue \cup {m} /\ data' = data \cup {m}
      /\ UNCHANGED <<router, flags, lock, known, bad, given, returned, spoilt, died>>
  BY DEF Arrive, hist
<1>2. m \notin queue /\ m \notin bad
  BY <1>1 DEF IInv, BadIsOver
<1>3. RouterTypeOK'
  BY <1>1 DEF IInv, RouterTypeOK, At, Handling, Mesg, HdrID
<1>4. AtHand'
  BY <1>1 DEF IInv, AtHand, MustBeNew, Mesg, HdrID
<1>5. ASSUME NEW q \in Routers, Unspoilt(q), router[q].cmds PROVE Mesg(q) # m
  BY <1>2, <1>5 DEF IInv, Whereabouts
<1>6. \A q \in Routers : Unspoilt(q)' <=> Unspoilt(q)
  BY <1>1 DEF Unspoilt, HdrID, Mesg
<1>7. Whereabouts'
  BY <1>1, <1>5, <1>6 DEF IInv, Whereabouts, Mesg
<1>8. \A q \in Routers, k \in Mesgs : PastLookup(q, k)' <=> PastLookup(q, k)
  BY <1>1 DEF PastLookup, Mesg
<1>9. \A k \in Mesgs : (Firm(k) => Firm(k)') /\ (k # m /\ Firm(k)' => Firm(k))
  BY <1>1, <1>8 DEF Firm
<1>10. IsPresent'
  BY <1>1 DEF IInv, IsPresent, Present, AllServed, Served
<1>11. \A q \in Routers, n \in Mesgs :
            Unspoilt(q)' /\ router'[q].cleanup /\ n = Mesg(q)' =>
            /\ Unspoilt(q) /\ router[q].cleanup /\ n = Mesg(q)
            /\ router[q].pc = router'[q].pc /\ router[q].todo = router'[q].todo
            /\ n # m
  BY <1>1, <1>5, <1>6 DEF IInv, Whereabouts, Mesg
<1>12. Noted' \subseteq Noted
  BY <1>1 DEF Noted
<1>13. coming' \cap (queue' \cup bad') = {} /\ bad \cap queue' \subseteq queue
  BY <1>1, <1>2 DEF IInv, BadIsOver
<1>14. QED
  BY OtherStep, <1>1, <1>3, <1>4, <1>7, <1>9, <1>10, <1>11, <1>12, <1>13 DEF Mesg

-----------------------------------------------------------------------------
LEMMA InitIInv == Init => IInv
<1> SUFFICES ASSUME Init PROVE IInv
  OBVIOUS
<1> DEFINE y == Fresh("list", FALSE)
<1>1. router = [r \in Routers |-> y]
  BY DEF Init
<1>2. /\ y \in RouterVars /\ y.pc = "list" /\ ~y.cmds /\ y.ids = {}
  BY DEF RouterVars, Fresh
<1> HIDE DEF y
<1>3. \A r \in Routers : router[r] = y
  BY <1>1
<1>4. /\ coming = Mesgs /\ queue = {} /\ data = {} /\ bad = {} /\ known = {}
      /\ flags = [m \in Mesgs |-> {}] /\ lock = [m \in Mesgs |-> {}]
      /\ given = [i \in Ids |-> [p \in AllPlaces |-> "no"]]
      /\ returned = {} /\ spoilt = {} /\ died = {}
  BY DEF Init
<1>5. RouterTypeOK
  BY <1>1, <1>2, <1>3, <1>4 DEF RouterTypeOK, At, Handling, Marks
<1>6. AtHand /\ Whereabouts /\ Progress
  BY <1>2, <1>3 DEF AtHand, Whereabouts, Progress, Unspoilt, Handles
<1>7. FlagTrue /\ BadIsOver
  BY <1>4 DEF FlagTrue, BadIsOver
<1>8. NotedIsFirm
  BY <1>2, <1>3, <1>4 DEF NotedIsFirm, Noted
<1>9. IsPresent
  BY <1>4 DEF IsPresent, Present, Ids
<1>10. QED
  BY <1>5, <1>6, <1>7, <1>8, <1>9 DEF IInv

LEMMA NextIInv == IInv /\ [Next]_vars => IInv'
<1> SUFFICES ASSUME IInv, [Next]_vars PROVE IInv'
  OBVIOUS
<1>1. ASSUME NEW m \in Mesgs, Arrive(m) PROVE IInv'
  BY <1>1, ArriveStep
<1>2. ASSUME NEW r \in Routers, Step(r) PROVE IInv'
  BY <1>2, QuietSteps, LockStep, AcceptStep, FilterStopsStep, LeaveUnroutedStep, RouteFailsStep,
     LookupStep, NoDeliveryStep, DeliveredStep, HandlerFailsStep, LeaveLinksStep, DoRouteStep,
     SpoolStep, FilterOutStep, UnlinkDataStep, UnlinkCmdsStep DEF Step
<1>3. ASSUME NEW r \in Routers, Term(r) \/ Die(r) \/ Start(r) PROVE IInv'
  BY <1>3, QuietSteps, DieStep
<1>4. CASE UNCHANGED vars
  <2>1. UNCHANGED <<router, coming, queue, flags, data, lock, bad, known, given, returned, spoilt, died>>
    BY <1>4 DEF vars, files, hist
  <2>2. RouterTypeOK'
    BY <2>1 DEF IInv, RouterTypeOK, At, Handling, Mesg, HdrID
  <2>3. AtHand' /\ Whereabouts'
    BY <2>1 DEF IInv, AtHand, Whereabouts, Unspoilt, MustBeNew, Mesg, HdrID
  <2>4. \A k \in Mesgs : Firm(k)' <=> Firm(k)
    BY <2>1 DEF Firm, PastLookup, Mesg
  <2>5. IsPresent'
    BY <2>1 DEF IInv, IsPresent, Present, AllServed, Served
  <2>6. \A q \in Routers : Mesg(q)' = Mesg(q) /\ (Unspoilt(q)' <=> Unspoilt(q))
    BY <2>1 DEF Unspoilt, HdrID, Mesg
  <2>7. Noted' \subseteq Noted
    BY <2>1 DEF Noted
  <2>8. coming' \cap (queue' \cup bad') = {}
    BY <2>1 DEF IInv, BadIsOver
  <2>9. QED
    BY OtherStep, <2>1, <2>2, <2>3, <2>4, <2>5, <2>6, <2>7, <2>8
<1>5. QED
  BY <1>1, <1>2, <1>3, <1>4 DEF Next

LEMMA AlwaysIInv == Spec => []IInv
<1>1. QED
  BY InitIInv, NextIInv, PTL DEF Spec

(* A message that is present or has gone everywhere is not lost: the flag   *)
(* DELIVERED, if it is set, is true.                                        *)
LEMMA IInvNothingLost == IInv => NothingLost
<1> SUFFICES ASSUME IInv, NEW i \in Ids \ spoilt, NEW p \in Places(i) PROVE Reached(i, p)
  BY DEF NothingLost
<1>1. CASE AllServed(i)
  BY <1>1 DEF AllServed, Served, Reached
<1>2. CASE \E m \in Mesgs : Id[m] = i /\ Present(m)
  <2>1. PICK m \in Mesgs : Id[m] = i /\ Present(m)
    BY <1>2
  <2>2. CASE m \in bad
    BY <2>1, <2>2 DEF Present, Reached, Kept, IInv, BadIsOver
  <2>3. CASE m \in coming \cup (queue \cap data)
    <3>1. CASE p = "here" /\ "DELIVERED" \in flags[m]
      <4>1. i \in Here
        BY <3>1, IdFacts, <2>1 DEF Places
      <4>2. Served(i, p)
        BY <2>1, <3>1, <4>1 DEF IInv, FlagTrue
      <4>3. QED
        BY <4>2 DEF Served, Reached
    <3>2. CASE ~(p = "here" /\ "DELIVERED" \in flags[m])
      BY <2>1, <2>3, <3>2 DEF Awaits, Reached
    <3>3. QED
      BY <3>1, <3>2
  <2>4. QED
    BY <2>1, <2>2, <2>3 DEF Present
<1>3. QED
  BY <1>1, <1>2 DEF IInv, IsPresent

(* Types, and that a router has the message it handles locked, alone.       *)
THEOREM RouterTypes == Spec => []RouterTypeOK
<1>1. IInv => RouterTypeOK
  BY DEF IInv
<1>2. QED
  BY <1>1, AlwaysIInv, PTL

(* A message stays in the routing directory until it has gone to every      *)
(* place, was returned to its sender, or is kept (route, cleanup,           *)
(* leave_cmds, handlebad and LookupMsgsDB together), whatever the           *)
(* interleaving of routers, signals and deaths.                             *)
THEOREM RouterLosesNothing == Spec => []NothingLost
<1>1. QED
  BY IInvNothingLost, AlwaysIInv, PTL

-----------------------------------------------------------------------------
(* RepeatsMarked.  What is given unmarked is given by a router that has     *)
(* read no MESG_DUP.  Of the copies of a broadcast one is taken, that is,   *)
(* past the data-base (TakenIsNoted, OneTaken); of a copy one router gives  *)
(* unmarked at a time (OneActive); and a file that is taken up again, or a  *)
(* router that has it at hand, has places left only where nothing was given *)
(* unmarked (FileIsNew, HandIsNew).                                         *)
Works == {"route", "lookup", "deliver", "rest", "spool"}
Gives == {"deliver", "rest", "spool"}

Followed(i) == i \notin spoilt \cup died
Unmarked(i, p) == given[i][p] \in {"once", "twice"}
Active(r, m) == router[r].pc \in Works /\ Mesg(r) = m /\ "MESG_DUP" \notin router[r].flags
Taken(m) == "RE_ROUTE" \in flags[m] \/ \E r \in Routers : Mesg(r) = m /\ router[r].pc \in Gives

BufferLocked == \A r \in Routers :
  router[r].ids # {} => router[r].open /\ router[r].pc # "down"

TakenIsNoted == \A m \in Mesgs :
  Id[m] \in Broadcasts /\ Followed(Id[m]) /\ Taken(m) => Id[m] \in Noted

OneTaken == \A m, n \in Mesgs :
  Id[m] = Id[n] /\ Id[m] \in Broadcasts /\ Followed(Id[m]) /\ Taken(m) /\ Taken(n) => m = n

GivenIsNoted == \A i \in Broadcasts, p \in AllPlaces :
  Followed(i) /\ Unmarked(i, p) => i \in Noted

OneActive == \A m \in Mesgs : Followed(Id[m]) =>
  /\ \A r \in Routers : Active(r, m) /\ ~router[r].cmds => "MESG_DUP" \in flags[m]
  /\ \A r, q \in Routers : Active(r, m) /\ Active(q, m) => r = q

NewBut(m, S, fl) ==
  /\ \A p \in S : ~Unmarked(Id[m], p)
  /\ Id[m] \in Here /\ "DELIVERED" \notin fl => ~Unmarked(Id[m], "here")

FileIsNew == \A m \in coming \cup queue :
  /\ Followed(Id[m]) /\ "MESG_DUP" \notin flags[m]
  /\ Id[m] \in Broadcasts => "RE_ROUTE" \in flags[m]
  /\ \A r \in Routers : router[r].cmds => Mesg(r) # m
  => NewBut(m, Bound[Id[m]], flags[m])

HandIsNew == \A m \in Mesgs, r \in Routers :
  Followed(Id[m]) /\ Active(r, m) /\ (router[r].pc \in Gives \/ ~MustBeNew(r)) =>
    /\ \A p \in router[r].todo : ~Unmarked(Id[m], p)
    /\ router[r].pc \notin {"rest", "spool"} => NewBut(m, {}, router[r].flags)

NoneTwice == \A i \in Ids, p \in AllPlaces : Followed(i) => given[i][p] # "twice"

MarkInv == /\ BufferLocked /\ TakenIsNoted /\ OneTaken /\ GivenIsNoted
           /\ OneActive /\ FileIsNew /\ HandIsNew /\ NoneTwice

(* A message that is not a broadcast from elsewhere comes in one copy.      *)
SingleCopies == \A m, n \in Mesgs : Id[m] = Id[n] /\ Id[m] \notin Broadcasts => m = n

Chosen(m) == Id[m] \in Broadcasts => Taken(m)

(* Of the copies of a message one at most may be given unmarked. *)
LEMMA OneChosen ==
  ASSUME SingleCopies, OneTaken, NEW m \in Mesgs, NEW n \in Mesgs, Id[m] = Id[n],
         Followed(Id[m]), Chosen(m), Chosen(n)
  PROVE  m = n
BY DEF SingleCopies, OneTaken, Chosen

(* What router r gives unmarked in a step: where it has not given before.   *)
GivesTo(r, p) ==
  /\ "MESG_DUP" \notin router[r].flags
  /\ \/ /\ router[r].pc = "deliver" /\ p = "here"
        /\ HdrID(r) \in Here /\ "DELIVERED" \notin router[r].flags
     \/ router[r].pc = "spool" /\ p \in router[r].todo /\ p \notin router'[r].todo

Marking(r) == \A j \in Ids, p \in AllPlaces :
  /\ given'[j][p] \in {"once", "twice"} => Unmarked(j, p) \/ (j = HdrID(r) /\ GivesTo(r, p))
  /\ given'[j][p] = "twice" =>
       given[j][p] = "twice" \/ (Unmarked(j, p) /\ j = HdrID(r) /\ GivesTo(r, p))

(* A router goes on with the message at hand.                               *)
Moves(r) ==
  LET x == router[r]
      y == router'[r]
  IN  /\ \A q \in Routers : q # r => router'[q] = router[q]
      /\ y.m = x.m /\ y.flags = x.flags /\ y.todo \subseteq x.todo
      /\ x.pc \in Works /\ y.pc \in (Works \ {"route"}) \cup {"cleanup"}
      /\ y.pc = "lookup" => x.pc = "route"
      /\ y.pc = "deliver" => x.pc = "lookup" \/ (x.pc = "route" /\ ~MustBeNew(r))
      /\ y.pc = "rest" => x.pc = "deliver"
      /\ y.pc = "spool" => x.pc \in {"rest", "spool"}
      /\ y.cmds => x.cmds

(* It leaves its commands file with the flags that are needed.              *)
Leaves(r, m) ==
  LET x == router[r]
      y == router'[r]
  IN  x.cmds /\ ~y.cmds /\ "MESG_DUP" \notin flags'[m] =>
        /\ y.pc = "cleanup"
        /\ \/ x.pc = "route" /\ flags'[m] = flags[m]
           \/ x.pc = "rest" /\ "DELIVERED" \in flags'[m]

(* A router goes on with the message at hand: what it has to do for MarkInv.*)
LEMMA HandMark ==
  ASSUME IInv, IInv', MarkInv, SingleCopies, NEW r \in Routers, Moves(r),
         NEW m \in Mesgs, m = Mesg(r), NEW i \in Ids, i = HdrID(r), i = Id[m],
         UNCHANGED <<coming, queue>>, spoilt \subseteq spoilt', died \subseteq died',
         \A k \in Mesgs : k # m \/ ~router[r].cmds => flags'[k] = flags[k],
         flags[m] \subseteq flags'[m],
         "RE_ROUTE" \in flags'[m] => "RE_ROUTE" \in flags[m] \/ router[r].pc \in Gives,
         Followed(i)' => Leaves(r, m),
         BufferLocked', Noted \subseteq Noted', Marking(r),
         router[r].pc = "lookup" /\ router'[r].pc = "deliver" => i \in Noted' /\ i \notin Noted
  PROVE  MarkInv'
<1> DEFINE x == router[r]
           y == router'[r]
<1>1. \A j : Followed(j)' => Followed(j)
  BY DEF Followed
<1>2. \A q \in Routers : q # r => router'[q] = router[q] /\ Mesg(q)' = Mesg(q)
  BY DEF Moves, Mesg
<1>3. /\ y.m = x.m /\ y.flags = x.flags /\ y.todo \subseteq x.todo
      /\ x.pc \in Works /\ y.pc \in (Works \ {"route"}) \cup {"cleanup"}
      /\ y.pc = "lookup" => x.pc = "route"
      /\ y.pc = "deliver" => x.pc = "lookup" \/ (x.pc = "route" /\ ~MustBeNew(r))
      /\ y.pc = "rest" => x.pc = "deliver"
      /\ y.pc = "spool" => x.pc \in {"rest", "spool"}
      /\ y.cmds => x.cmds
      /\ Mesg(r)' = m
  BY DEF Moves, Mesg
<1>4. ASSUME NEW q \in Routers, NEW k \in Mesgs, Active(q, k)'
      PROVE  Active(q, k) /\ (q = r => k = m)
  BY <1>2, <1>3, <1>4 DEF Active, Works
<1>5. x.cmds => x.flags = flags[m]
  BY DEF IInv, AtHand
<1>6. x.pc \in {"route", "lookup", "deliver"} => x.cmds /\ x.todo = Bound[i]
  BY DEF IInv, AtHand
<1>7. x.pc = "rest" => x.todo = Bound[i]
  BY DEF IInv, AtHand
<1>8. x.pc \in Gives => Taken(m)
  BY DEF Taken
<1>9. ASSUME NEW k \in Mesgs, Id[k] \in Broadcasts, Taken(k)', ~Taken(k)
      PROVE  k = m /\ i \in Noted' /\ i \notin Noted
  <2>1. CASE "RE_ROUTE" \in flags'[k]
    BY <1>8, <1>9, <2>1 DEF Taken
  <2>2. CASE \E q \in Routers : Mesg(q)' = k /\ router'[q].pc \in Gives
    <3>1. PICK q \in Routers : Mesg(q)' = k /\ router'[q].pc \in Gives
      BY <2>2
    <3>2. q = r /\ k = m
      BY <1>2, <1>3, <1>9, <3>1 DEF Taken
    <3>3. y.pc \in Gives /\ x.pc \notin Gives
      BY <1>8, <1>9, <3>1, <3>2
    <3>4. y.pc = "deliver"
      BY <1>3, <3>3 DEF Gives
    <3>5. x.pc = "route" => MustBeNew(r)
      BY <1>5, <1>6, <1>9, <3>2 DEF MustBeNew, Taken
    <3> QED
      BY <1>3, <3>2, <3>4, <3>5
  <2> QED
    BY <1>9, <2>1, <2>2 DEF Taken
<1>10. TakenIsNoted'
  BY <1>1, <1>9 DEF MarkInv, TakenIsNoted
<1>11. OneTaken'
  <2> SUFFICES ASSUME NEW k \in Mesgs, NEW n \in Mesgs, Id[k] = Id[n], Id[k] \in Broadcasts,
                      Followed(Id[k]), Taken(k)', Taken(n)'
               PROVE  k = n
    BY <1>1 DEF OneTaken
  <2>1. CASE Taken(k) /\ Taken(n)
    BY <2>1 DEF MarkInv, OneTaken
  <2>2. CASE ~Taken(k)
    <3>1. k = m /\ Id[n] \notin Noted
      BY <1>9, <2>2
    <3> QED
      BY <1>9, <3>1 DEF MarkInv, TakenIsNoted
  <2>3. CASE ~Taken(n)
    <3>1. n = m /\ Id[k] \notin Noted
      BY <1>9, <2>3
    <3> QED
      BY <1>9, <3>1 DEF MarkInv, TakenIsNoted
  <2> QED
    BY <2>1, <2>2, <2>3
<1>12. \A p : GivesTo(r, p) => x.pc \in {"deliver", "spool"} /\ Active(r, m) /\ Chosen(m)
  BY <1>8 DEF GivesTo, Active, Chosen, Works, Gives
<1>13. ASSUME NEW j \in Ids, NEW p \in AllPlaces, Unmarked(j, p)', ~Unmarked(j, p)
       PROVE  j = i /\ GivesTo(r, p)
  BY <1>13 DEF Marking, Unmarked
<1>14. GivenIsNoted'
  <2> SUFFICES ASSUME NEW j \in Broadcasts, NEW p \in AllPlaces, Followed(j), Unmarked(j, p)'
               PROVE  j \in Noted'
    BY <1>1 DEF GivenIsNoted
  <2>1. CASE Unmarked(j, p)
    BY <2>1 DEF MarkInv, GivenIsNoted
  <2>2. CASE ~Unmarked(j, p)
    <3>1. j = i /\ GivesTo(r, p) /\ j \in Ids
      BY <1>13, <2>2
    <3> QED
      BY <1>12, <3>1 DEF MarkInv, TakenIsNoted, Chosen
  <2> QED
    BY <2>1, <2>2
<1>15. OneActive'
  <2> SUFFICES ASSUME NEW k \in Mesgs, Followed(Id[k])'
               PROVE  /\ \A q \in Routers : Active(q, k)' /\ ~router'[q].cmds => "MESG_DUP" \in flags'[k]
                      /\ \A p, q \in Routers : Active(p, k)' /\ Active(q, k)' => p = q
    BY DEF OneActive
  <2>1. /\ \A q \in Routers : Active(q, k) /\ ~router[q].cmds => "MESG_DUP" \in flags[k]
        /\ \A p, q \in Routers : Active(p, k) /\ Active(q, k) => p = q
    BY <1>1 DEF MarkInv, OneActive
  <2>2. ASSUME NEW q \in Routers, Active(q, k)', ~router'[q].cmds
        PROVE  "MESG_DUP" \in flags'[k]
    <3>1. CASE q # r \/ ~x.cmds
      <4>1. Active(q, k) /\ ~router[q].cmds
        BY <1>2, <1>4, <2>2, <3>1
      <4> QED
        BY <2>1, <4>1
    <3>2. CASE q = r /\ x.cmds
      <4>1. y.pc # "cleanup" /\ k = m
        BY <1>4, <2>2, <3>2 DEF Active, Works
      <4> QED
        BY <2>2, <3>2, <4>1 DEF Leaves
    <3> QED
      BY <3>1, <3>2
  <2> QED
    BY <1>4, <2>1, <2>2
<1>16. ASSUME NEW k \in Mesgs, Id[k] = i, Followed(i), Chosen(k), NEW p, GivesTo(r, p)
       PROVE  k = m
  BY <1>12, <1>16, OneChosen DEF MarkInv
<1>17. NoneTwice'
  <2> SUFFICES ASSUME NEW j \in Ids, NEW p \in AllPlaces, Followed(j)', given'[j][p] = "twice"
               PROVE  FALSE
    BY DEF NoneTwice
  <2>1. Unmarked(j, p) /\ j = i /\ GivesTo(r, p)
    BY <1>1 DEF MarkInv, NoneTwice, Marking
  <2>2. Active(r, m) /\ x.pc \in Gives /\ Followed(i)
    BY <1>1, <1>12, <2>1 DEF Gives
  <2>3. /\ \A s \in x.todo : ~Unmarked(i, s)
        /\ x.pc \notin {"rest", "spool"} => NewBut(m, {}, x.flags)
    BY <2>2 DEF MarkInv, HandIsNew
  <2> QED
    BY <2>1, <2>3 DEF GivesTo, NewBut
<1>19. HandIsNew'
  <2> SUFFICES ASSUME NEW k \in Mesgs, NEW q \in Routers, Followed(Id[k])', Active(q, k)',
                      router'[q].pc \in Gives \/ ~MustBeNew(q)'
               PROVE  /\ \A p \in router'[q].todo : ~Unmarked(Id[k], p)'
                      /\ router'[q].pc \notin {"rest", "spool"} => NewBut(k, {}, router[q].flags)'
    BY DEF HandIsNew
  <2>1. Followed(Id[k]) /\ Active(q, k) /\ Id[k] \in Ids
    BY <1>1, <1>4, IdFacts
  <2>t. router'[q].todo \subseteq AllPlaces /\ "here" \in AllPlaces
    <3>1. router'[q] \in RouterVars
      BY DEF IInv, RouterTypeOK
    <3> QED
      BY <3>1, FieldTypes DEF AllPlaces
  <2>2. CASE q # r
    <3>1. router'[q] = router[q] /\ MustBeNew(q)' = MustBeNew(q)
      BY <1>2, <2>2 DEF MustBeNew, HdrID
    <3>2. /\ \A p \in router[q].todo : ~Unmarked(Id[k], p)
          /\ router[q].pc \notin {"rest", "spool"} => NewBut(k, {}, router[q].flags)
      BY <2>1, <3>1 DEF MarkInv, HandIsNew
    <3>3. Chosen(k)
      <4>1. CASE router[q].pc \in Gives
        BY <2>1, <4>1 DEF Chosen, Taken, Active
      <4>2. CASE router[q].pc \notin Gives /\ ~MustBeNew(q)
        <5>1. router[q].cmds /\ Mesg(q) = k
          BY <2>1, <4>2 DEF IInv, AtHand, Active, Works, Gives
        <5> QED
          BY <4>2, <5>1 DEF IInv, AtHand, MustBeNew, HdrID, Chosen, Taken
      <4> QED
        BY <3>1, <4>1, <4>2
    <3>4. ASSUME NEW p \in AllPlaces, ~Unmarked(Id[k], p) PROVE ~Unmarked(Id[k], p)'
      <4> SUFFICES ASSUME Unmarked(Id[k], p)' PROVE FALSE
        OBVIOUS
      <4>1. Id[k] = i /\ GivesTo(r, p)
        BY <1>13, <2>1, <3>4
      <4>2. k = m /\ Active(r, k)
        BY <1>12, <1>16, <2>1, <3>3, <4>1
      <4> QED
        BY <2>1, <2>2, <4>2 DEF MarkInv, OneActive
    <3> QED
      BY <2>t, <3>1, <3>2, <3>4 DEF NewBut
  <2>3. CASE q = r
    <3>1. k = m /\ Id[k] = i /\ Active(r, m) /\ Followed(i)
      BY <1>4, <2>1, <2>3
    <3>2. y.pc # "lookup"
      <4>1. y.pc = "lookup" => MustBeNew(r)'
        BY DEF IInv, AtHand
      <4> QED
        BY <2>3, <4>1 DEF Gives
    <3>3. y.pc \in Gives
      BY <1>3, <2>1, <2>3, <3>2 DEF Active, Works, Gives
    <3>4. CASE x.pc = "lookup"
      <4>1. i \notin Noted /\ i \in Broadcasts /\ y.pc = "deliver"
        <5>1. y.pc = "deliver"
          BY <1>3, <3>3, <3>4 DEF Gives
        <5>2. MustBeNew(r)
          BY <3>4 DEF IInv, AtHand
        <5> QED
          BY <3>4, <5>1, <5>2 DEF MustBeNew
      <4>2. \A p \in AllPlaces : ~Unmarked(i, p)
        BY <3>1, <4>1 DEF MarkInv, GivenIsNoted
      <4>3. \A p \in AllPlaces : ~Unmarked(i, p)'
        BY <1>13, <3>4, <4>2, <1>12
      <4> QED
        BY <2>3, <2>t, <3>1, <4>3 DEF NewBut
    <3>5. CASE x.pc # "lookup"
      <4>1. x.pc \in Gives \/ ~MustBeNew(r)
        BY <1>3, <3>3, <3>5 DEF Gives
      <4>2. /\ \A p \in x.todo : ~Unmarked(i, p)
            /\ x.pc \notin {"rest", "spool"} => NewBut(m, {}, x.flags)
        BY <3>1, <4>1 DEF MarkInv, HandIsNew
      <4>3. ASSUME NEW p \in y.todo PROVE ~Unmarked(i, p)'
        <5>1. p \in AllPlaces /\ p \in x.todo /\ ~Unmarked(i, p)
          BY <1>3, <2>3, <2>t, <4>2
        <5>2. ~GivesTo(r, p)
          BY <1>6, <5>1, IdFacts DEF GivesTo
        <5> QED
          BY <1>13, <5>1, <5>2
      <4>4. y.pc = "deliver" => x.pc = "route"
        BY <1>3, <3>5
      <4>5. y.pc = "deliver" => NewBut(m, {}, router[r].flags)'
        BY <1>3, <1>12, <1>13, <2>t, <3>1, <4>2, <4>4 DEF NewBut
      <4> QED
        BY <2>3, <3>1, <3>3, <4>3, <4>5 DEF Gives
    <3> QED
      BY <3>4, <3>5
  <2> QED
    BY <2>2, <2>3
<1>20. FileIsNew'
  <2> SUFFICES ASSUME NEW k \in coming \cup queue, Followed(Id[k])', "MESG_DUP" \notin flags'[k],
                      Id[k] \in Broadcasts => "RE_ROUTE" \in flags'[k],
                      \A q \in Routers : router'[q].cmds => Mesg(q)' # k
               PROVE  NewBut(k, Bound[Id[k]], flags[k])'
    BY DEF FileIsNew
  <2>1. k \in Mesgs /\ Id[k] \in Ids /\ Followed(Id[k]) /\ Bound[Id[k]] \subseteq AllPlaces /\ "here" \in AllPlaces
    BY <1>1, IdFacts DEF IInv, RouterTypeOK, AllPlaces
  <2>2. CASE k # m \/ ~x.cmds
    <3>1. flags'[k] = flags[k]
      BY <2>1, <2>2
    <3>2. \A q \in Routers : router[q].cmds => Mesg(q) # k
      BY <1>2, <2>2
    <3>3. NewBut(k, Bound[Id[k]], flags[k])
      BY <2>1, <3>1, <3>2 DEF MarkInv, FileIsNew
    <3>4. ASSUME NEW p \in AllPlaces, ~Unmarked(Id[k], p) PROVE ~Unmarked(Id[k], p)'
      <4> SUFFICES ASSUME Unmarked(Id[k], p)' PROVE FALSE
        OBVIOUS
      <4>1. Id[k] = i /\ GivesTo(r, p)
        BY <1>13, <2>1, <3>4
      <4>2. Chosen(k)
        BY <3>1 DEF Chosen, Taken
      <4>3. k = m /\ Active(r, m) /\ ~x.cmds
        BY <1>12, <1>16, <2>1, <2>2, <4>1, <4>2
      <4> QED
        BY <2>1, <3>1, <4>3 DEF MarkInv, OneActive
    <3> QED
      BY <2>1, <3>1, <3>3, <3>4 DEF NewBut
  <2>3. CASE k = m /\ x.cmds
    <3>1. ~y.cmds /\ y.pc = "cleanup"
      BY <1>3, <2>3 DEF Leaves
    <3>2. \/ x.pc = "route" /\ flags'[m] = flags[m]
          \/ x.pc = "rest" /\ "DELIVERED" \in flags'[m]
      BY <2>3, <3>1 DEF Leaves
    <3>3. Active(r, m) /\ x.todo = Bound[i] /\ x.flags = flags[m]
      BY <1>5, <1>6, <1>7, <2>3, <3>2 DEF Active, Works
    <3>4. x.pc \in Gives \/ ~MustBeNew(r)
      BY <2>3, <3>2, <3>3 DEF Gives, MustBeNew
    <3>5. /\ \A p \in x.todo : ~Unmarked(i, p)
          /\ x.pc \notin {"rest", "spool"} => NewBut(m, {}, x.flags)
      BY <2>1, <2>3, <3>3, <3>4 DEF MarkInv, HandIsNew
    <3>6. \A p : ~GivesTo(r, p)
      BY <1>12, <3>2
    <3>7. \A p \in AllPlaces : ~Unmarked(i, p) => ~Unmarked(i, p)'
      BY <1>13, <3>6
    <3> QED
      BY <2>1, <2>3, <3>2, <3>3, <3>5, <3>7 DEF NewBut
  <2> QED
    BY <2>2, <2>3
<1> QED
  BY <1>10, <1>11, <1>14, <1>15, <1>17, <1>19, <1>20 DEF MarkInv

-----------------------------------------------------------------------------
(* The steps in which no router goes on with a message.                     *)
LEMMA IdleMark ==
  ASSUME IInv, MarkInv, UNCHANGED <<flags, given>>, coming' \cup queue' \subseteq coming \cup queue,
         spoilt \subseteq spoilt', died \subseteq died', BufferLocked',
         \A j : Followed(j)' /\ j \in Noted => j \in Noted',
         \A q \in Routers : router'[q].pc \in Works =>
            /\ router'[q].pc = router[q].pc /\ Mesg(q)' = Mesg(q) /\ router'[q].flags = router[q].flags
            /\ router'[q].cmds = router[q].cmds /\ router'[q].todo = router[q].todo,
         \A q \in Routers, k \in Mesgs : router[q].cmds /\ Mesg(q) = k =>
            \/ router'[q].cmds /\ Mesg(q)' = k
            \/ k \notin coming' \cup queue'
            \/ ~Followed(Id[k])'
  PROVE  MarkInv'
<1>1. \A j : Followed(j)' => Followed(j)
  BY DEF Followed
<1>2. \A j, p : Unmarked(j, p)' <=> Unmarked(j, p)
  BY DEF Unmarked
<1>3. \A q \in Routers, k \in Mesgs : Active(q, k)' => Active(q, k)
  BY DEF Active
<1>4. \A k \in Mesgs : Taken(k)' => Taken(k)
  BY DEF Taken, Works, Gives
<1>5. TakenIsNoted' /\ OneTaken'
  BY <1>1, <1>4 DEF MarkInv, TakenIsNoted, OneTaken
<1>6. GivenIsNoted' /\ NoneTwice'
  BY <1>1, <1>2 DEF MarkInv, GivenIsNoted, NoneTwice
<1>7. OneActive'
  <2>1. \A q \in Routers, k \in Mesgs : Active(q, k)' => router'[q].cmds = router[q].cmds
    BY DEF Active
  <2> QED
    BY <1>1, <1>3, <2>1 DEF MarkInv, OneActive
<1>8. FileIsNew'
  <2> SUFFICES ASSUME NEW k \in coming' \cup queue', Followed(Id[k])', "MESG_DUP" \notin flags[k],
                      Id[k] \in Broadcasts => "RE_ROUTE" \in flags[k],
                      \A q \in Routers : router'[q].cmds => Mesg(q)' # k
               PROVE  NewBut(k, Bound[Id[k]], flags[k])'
    BY DEF FileIsNew
  <2>0. k \in coming \cup queue /\ k \in Mesgs
    BY DEF IInv, RouterTypeOK
  <2>1. \A q \in Routers : router[q].cmds => Mesg(q) # k
    BY <2>0
  <2>2. NewBut(k, Bound[Id[k]], flags[k])
    BY <1>1, <2>0, <2>1 DEF MarkInv, FileIsNew
  <2> QED
    BY <1>2, <2>2 DEF NewBut
<1>9. HandIsNew'
  <2> SUFFICES ASSUME NEW k \in Mesgs, NEW q \in Routers, Followed(Id[k])', Active(q, k)',
                      router'[q].pc \in Gives \/ ~MustBeNew(q)'
               PROVE  /\ \A p \in router'[q].todo : ~Unmarked(Id[k], p)'
                      /\ router'[q].pc \notin {"rest", "spool"} => NewBut(k, {}, router[q].flags)'
    BY DEF HandIsNew
  <2>1. /\ router'[q].pc = router[q].pc /\ Mesg(q)' = Mesg(q) /\ router'[q].flags = router[q].flags
        /\ router'[q].todo = router[q].todo
    BY DEF Active
  <2>2. MustBeNew(q)' = MustBeNew(q)
    BY <2>1 DEF MustBeNew, HdrID
  <2>3. /\ \A p \in router[q].todo : ~Unmarked(Id[k], p)
        /\ router[q].pc \notin {"rest", "spool"} => NewBut(k, {}, router[q].flags)
    BY <1>1, <1>3, <2>1, <2>2 DEF MarkInv, HandIsNew
  <2> QED
    BY <1>2, <2>1, <2>3 DEF NewBut
<1> QED
  BY <1>5, <1>6, <1>7, <1>8, <1>9 DEF MarkInv

(* A router's own step changes its own variables alone. *)
LEMMA SetAt ==
  ASSUME RouterTypeOK, NEW r \in Routers, NEW y, Set(r, y)
  PROVE  router'[r] = y /\ \A q \in Routers : q # r => router'[q] = router[q]
BY DEF Set, RouterTypeOK

(* What a router had noted stays noted, in its buffer or on disk.           *)
LEMMA NotedStays ==
  ASSUME NEW r \in Routers, \A q \in Routers : q # r => router'[q] = router[q],
         NEW D, router[r].ids \subseteq router'[r].ids \cup known' \cup D, known \subseteq known'
  PROVE  Noted \subseteq Noted' \cup D
BY DEF Noted

(* The data-base is locked while there is anything in the buffer. *)
LEMMA BufferStays ==
  ASSUME MarkInv, NEW r \in Routers, \A q \in Routers : q # r => router'[q] = router[q],
         router'[r].ids # {} => router'[r].open /\ router'[r].pc # "down"
  PROVE  BufferLocked'
BY DEF MarkInv, BufferLocked

(* Open, without the choice of the file. *)
LEMMA OpenSets ==
  ASSUME RouterTypeOK, NEW r \in Routers, Open(r)
  PROVE  /\ router'[r].pc \in {"open", "scan"}
         /\ router'[r].ids = router[r].ids /\ router'[r].open = router[r].open
         /\ \A q \in Routers : q # r => router'[q] = router[q]
<1> DEFINE x == router[r]
<1>1. PICK m \in x.list :
        Set(r, [x EXCEPT !.list = @ \ {m}, !.m = m, !.pc = IF m \in queue THEN "open" ELSE "scan"])
  BY DEF Open
<1> DEFINE to == IF m \in queue THEN "open" ELSE "scan"
           rest == x.list \ {m}
<1>2. to \in {"open", "scan"} /\ Set(r, [x EXCEPT !.list = rest, !.m = m, !.pc = to])
  BY <1>1
<1>3. x \in RouterVars
  BY DEF RouterTypeOK
<1> HIDE DEF to, rest
<1> DEFINE y == [x EXCEPT !.list = rest, !.m = m, !.pc = to]
<1>4. y.pc = to /\ y.ids = x.ids /\ y.open = x.open
  BY <1>3 DEF RouterVars
<1> HIDE DEF y
<1>5. router'[r] = y /\ \A q \in Routers : q # r => router'[q] = router[q]
  BY <1>2, SetAt DEF y
<1> QED
  BY <1>2, <1>4, <1>5

(* Steps of a router that has no message at hand. *)
Quiet(r) ==
  \/ ListBuild(r) \/ EndPass(r) \/ Finished(r) \/ Open(r) \/ Locked(r) \/ Term(r) \/ Start(r)

(* They neither give anything, nor take up a message, nor leave one.        *)
LEMMA QuietMarks ==
  ASSUME IInv, MarkInv, NEW r \in Routers, Quiet(r)
  PROVE  MarkInv'
<1> DEFINE x == router[r]
           y == router'[r]
<1>0. RouterTypeOK /\ x \in RouterVars /\ (x.cmds => x.pc \in Handles)
  BY Handled DEF IInv, RouterTypeOK
<1>1. UNCHANGED files /\ UNCHANGED hist
  <2>1. CASE ListBuild(r) BY <2>1 DEF ListBuild
  <2>2. CASE EndPass(r) BY <2>2 DEF EndPass
  <2>3. CASE Finished(r) BY <2>3 DEF Finished
  <2>4. CASE Open(r) BY <2>4 DEF Open
  <2>5. CASE Locked(r) BY <2>5 DEF Locked
  <2>6. CASE Term(r) BY <2>6 DEF Term
  <2>7. CASE Start(r) BY <2>7 DEF Start
  <2> QED
    BY <2>1, <2>2, <2>3, <2>4, <2>5, <2>6, <2>7 DEF Quiet
<1>2. x.ids # {} => x.open /\ x.pc # "down"
  BY DEF MarkInv, BufferLocked
<1>3. /\ \A q \in Routers : q # r => router'[q] = router[q]
      /\ x.ids \subseteq y.ids \cup known' /\ known \subseteq known'
      /\ y.ids # {} => y.open /\ y.pc # "down"
      /\ \/ x.pc \notin Handles /\ y.pc \notin Works
         \/ /\ y.pc = x.pc /\ y.m = x.m /\ y.cmds = x.cmds
            /\ y.flags = x.flags /\ y.todo = x.todo
  <2>1. CASE ListBuild(r)
    <3>1. y = [x EXCEPT !.pc = "scan", !.list = queue \ x.locked, !.locked = @ \cap queue]
      BY <1>0, <2>1, SetAt DEF ListBuild
    <3>2. y.pc = "scan" /\ y.ids = x.ids /\ y.open = x.open /\ x.pc = "list" /\ known' = known
      BY <1>0, <2>1, <3>1 DEF RouterVars, ListBuild, At
    <3> QED
      BY <1>0, <1>2, <2>1, <3>2, SetAt DEF ListBuild, Handles, Works
  <2>2. CASE EndPass(r)
    <3>1. y = IF x.did THEN [x EXCEPT !.pc = "list", !.did = FALSE]
              ELSE [x EXCEPT !.pc = "list", !.open = FALSE, !.ids = {}]
      BY <1>0, <2>2, SetAt DEF EndPass
    <3>2. /\ y.pc = "list" /\ x.pc = "scan"
          /\ y.ids = IF x.did THEN x.ids ELSE {}
          /\ y.open = IF x.did THEN x.open ELSE FALSE
          /\ known' = IF x.did THEN known ELSE known \cup x.ids
      BY <1>0, <2>2, <3>1 DEF RouterVars, EndPass, At
    <3> QED
      BY <1>0, <1>2, <2>2, <3>2, SetAt DEF EndPass, Handles, Works
  <2>3. CASE Finished(r)
    <3>1. y = Fresh("down", FALSE) /\ x.pc = "scan" /\ known' = known \cup x.ids
      BY <1>0, <2>3, SetAt DEF Finished, finish, At
    <3>2. y.pc = "down" /\ y.ids = {}
      BY <3>1 DEF Fresh
    <3> QED
      BY <1>0, <2>3, <3>1, <3>2, SetAt DEF Finished, finish, Handles, Works
  <2>4. CASE Open(r)
    <3>1. /\ y.pc \in {"open", "scan"} /\ y.ids = x.ids /\ y.open = x.open
          /\ \A q \in Routers : q # r => router'[q] = router[q]
      BY <1>0, <2>4, OpenSets
    <3>2. x.pc = "scan" /\ known' = known
      BY <2>4 DEF Open, At
    <3> QED
      BY <1>2, <3>1, <3>2 DEF Handles, Works
  <2>5. CASE Locked(r)
    <3>1. y = [x EXCEPT !.pc = "scan", !.locked = @ \cup {Mesg(r)}]
      BY <1>0, <2>5, SetAt DEF Locked
    <3>2. y.pc = "scan" /\ y.ids = x.ids /\ y.open = x.open /\ x.pc = "open" /\ known' = known
      BY <1>0, <2>5, <3>1 DEF RouterVars, Locked, At
    <3> QED
      BY <1>0, <1>2, <2>5, <3>2, SetAt DEF Locked, Handles, Works
  <2>6. CASE Term(r)
    <3>1. y = [x EXCEPT !.Finish = TRUE]
      BY <1>0, <2>6, SetAt DEF Term
    <3>2. /\ y.ids = x.ids /\ y.open = x.open /\ known' = known
          /\ y.pc = x.pc /\ y.m = x.m /\ y.cmds = x.cmds
          /\ y.flags = x.flags /\ y.todo = x.todo
      BY <1>0, <2>6, <3>1 DEF RouterVars, Term
    <3> QED
      BY <1>0, <1>2, <2>6, <3>2, SetAt DEF Term
  <2>7. CASE Start(r)
    <3>1. y = Fresh("list", FALSE) /\ x.pc = "down" /\ known' = known
      BY <1>0, <2>7, SetAt DEF Start, At
    <3>2. y.pc = "list" /\ y.ids = {}
      BY <3>1 DEF Fresh
    <3>3. x.ids = {}
      BY <1>2, <3>1
    <3> QED
      BY <1>0, <2>7, <3>1, <3>2, <3>3, SetAt DEF Start, Handles, Works
  <2> QED
    BY <2>1, <2>2, <2>3, <2>4, <2>5, <2>6, <2>7 DEF Quiet
<1>4. Noted \subseteq Noted' \cup {} /\ BufferLocked'
  BY <1>3, NotedStays, BufferStays
<1>5. \A q \in Routers : router'[q].pc \in Works =>
            /\ router'[q].pc = router[q].pc /\ Mesg(q)' = Mesg(q) /\ router'[q].flags = router[q].flags
            /\ router'[q].cmds = router[q].cmds /\ router'[q].todo = router[q].todo
  BY <1>3 DEF Mesg
<1>6. \A q \in Routers : router[q].cmds => router'[q].cmds /\ Mesg(q)' = Mesg(q)
  BY <1>0, <1>3 DEF Mesg
<1>7. /\ UNCHANGED <<flags, given>> /\ coming' = coming /\ queue' = queue
      /\ spoilt \subseteq spoilt' /\ died \subseteq died'
  BY <1>1 DEF files, hist
<1> QED
  BY <1>4, <1>5, <1>6, <1>7, IdleMark

(* The lock of a commands file is got: no router has the file at hand, so   *)
(* what FileIsNew says of it becomes what HandIsNew says of the router.     *)
LEMMA LockMark ==
  ASSUME IInv, MarkInv, NEW r \in Routers, Lock(r)
  PROVE  MarkInv'
<1> DEFINE x == router[r]
           y == router'[r]
<1>a. RouterTypeOK /\ x \in RouterVars /\ x.pc = "open" /\ ~x.cmds /\ Mesg(r) \in Mesgs
  <2>1. RouterTypeOK /\ x \in RouterVars /\ x.pc = "open"
    BY DEF IInv, RouterTypeOK, Lock, At
  <2>2. x.pc \notin Handles /\ Mesg(r) \in Mesgs
    BY <2>1 DEF Handles, RouterTypeOK, At
  <2> QED
    BY <2>1, <2>2, Handled
<1>b. PICK m \in Mesgs : m = Mesg(r)
  BY <1>a
<1>0. RouterTypeOK /\ x \in RouterVars /\ x.pc = "open" /\ ~x.cmds /\ m \in Mesgs /\ x.m = m
  BY <1>a, <1>b DEF Mesg
<1>1. /\ UNCHANGED <<coming, queue, flags, known, given, died>> /\ lock[m] = {}
      /\ spoilt' = IF m \in queue THEN spoilt ELSE spoilt \cup {Id[m]}
  BY <1>b DEF Lock
<1>2. /\ y.pc = "route" /\ y.cmds /\ y.m = m /\ y.flags = flags[m] /\ y.todo = Bound[Id[m]]
      /\ y.ids = x.ids /\ y.open = x.open
  <2> DEFINE fl == flags[m]
             td == Bound[Id[m]]
             z == [x EXCEPT !.pc = "route", !.did = TRUE, !.cmds = TRUE, !.cleanup = TRUE,
                            !.flags = fl, !.todo = td]
  <2>1. Set(r, z)
    BY <1>b DEF Lock
  <2> HIDE DEF fl, td
  <2>2. z.pc = "route" /\ z.cmds /\ z.m = x.m /\ z.flags = fl /\ z.todo = td /\ z.ids = x.ids /\ z.open = x.open
    BY <1>0 DEF RouterVars
  <2> HIDE DEF z
  <2>3. y = z
    BY <1>0, <2>1, SetAt
  <2> QED
    BY <1>0, <2>2, <2>3 DEF fl, td
<1>3. \A q \in Routers : q # r => router'[q] = router[q] /\ Mesg(q)' = Mesg(q)
  <2>1. \E z : Set(r, z)
    BY DEF Lock
  <2> QED
    BY <1>0, <2>1, SetAt DEF Mesg
<1>4. Mesg(r)' = m
  BY <1>2 DEF Mesg
<1>5. /\ \A j : Followed(j)' => Followed(j)
      /\ Followed(Id[m])' => m \in queue
  BY <1>1 DEF Followed
<1>6. \A j, p : Unmarked(j, p)' <=> Unmarked(j, p)
  BY <1>1 DEF Unmarked
<1>7. Noted \subseteq Noted'
  BY <1>1, <1>2, <1>3 DEF Noted
<1>8. BufferLocked'
  BY <1>2, <1>3 DEF MarkInv, BufferLocked
<1>9. \A k \in Mesgs : Taken(k)' => Taken(k)
  BY <1>1, <1>2, <1>3 DEF Taken, Gives
<1>10. TakenIsNoted' /\ OneTaken'
  BY <1>5, <1>7, <1>9 DEF MarkInv, TakenIsNoted, OneTaken
<1>11. GivenIsNoted' /\ NoneTwice'
  BY <1>1, <1>5, <1>6, <1>7 DEF MarkInv, GivenIsNoted, NoneTwice
<1>12. \A q \in Routers, k \in Mesgs :
          Active(q, k)' => IF q = r THEN k = m /\ "MESG_DUP" \notin flags[m] ELSE Active(q, k)
  BY <1>2, <1>3, <1>4 DEF Active
<1>13. \A q \in Routers : router[q].cmds => Mesg(q) # m
  BY <1>0, <1>1 DEF RouterTypeOK
<1>14. OneActive'
  <2> SUFFICES ASSUME NEW k \in Mesgs, Followed(Id[k])'
               PROVE  /\ \A q \in Routers : Active(q, k)' /\ ~router'[q].cmds => "MESG_DUP" \in flags'[k]
                      /\ \A p, q \in Routers : Active(p, k)' /\ Active(q, k)' => p = q
    BY DEF OneActive
  <2>1. /\ \A q \in Routers : Active(q, k) /\ ~router[q].cmds => "MESG_DUP" \in flags[k]
        /\ \A p, q \in Routers : Active(p, k) /\ Active(q, k) => p = q
    BY <1>5 DEF MarkInv, OneActive
  <2>2. ASSUME NEW q \in Routers, q # r, Active(q, k)', Active(r, k)'
        PROVE  FALSE
    <3>1. k = m /\ "MESG_DUP" \notin flags[m] /\ Active(q, k)
      BY <1>12, <2>2
    <3>2. router[q].cmds /\ Mesg(q) = m
      BY <2>1, <3>1 DEF Active
    <3> QED
      BY <1>13, <3>2
  <2> QED
    BY <1>1, <1>2, <1>3, <1>12, <2>1, <2>2
<1>15. FileIsNew'
  <2> SUFFICES ASSUME NEW k \in coming' \cup queue', Followed(Id[k])', "MESG_DUP" \notin flags'[k],
                      Id[k] \in Broadcasts => "RE_ROUTE" \in flags'[k],
                      \A q \in Routers : router'[q].cmds => Mesg(q)' # k
               PROVE  NewBut(k, Bound[Id[k]], flags[k])'
    BY DEF FileIsNew
  <2>1. \A q \in Routers : router[q].cmds => Mesg(q) # k
    BY <1>0, <1>3
  <2>2. NewBut(k, Bound[Id[k]], flags[k])
    BY <1>1, <1>5, <2>1 DEF MarkInv, FileIsNew
  <2> QED
    BY <1>1, <1>6, <2>2 DEF NewBut
<1>16. HandIsNew'
  <2> SUFFICES ASSUME NEW k \in Mesgs, NEW q \in Routers, Followed(Id[k])', Active(q, k)',
                      router'[q].pc \in Gives \/ ~MustBeNew(q)'
               PROVE  /\ \A p \in router'[q].todo : ~Unmarked(Id[k], p)'
                      /\ router'[q].pc \notin {"rest", "spool"} => NewBut(k, {}, router[q].flags)'
    BY DEF HandIsNew
  <2>1. CASE q # r
    <3>1. router'[q] = router[q] /\ MustBeNew(q)' = MustBeNew(q) /\ Active(q, k)
      BY <1>3, <1>12, <2>1 DEF MustBeNew, HdrID
    <3>2. /\ \A p \in router[q].todo : ~Unmarked(Id[k], p)
          /\ router[q].pc \notin {"rest", "spool"} => NewBut(k, {}, router[q].flags)
      BY <1>5, <3>1 DEF MarkInv, HandIsNew
    <3> QED
      BY <1>6, <3>1, <3>2 DEF NewBut
  <2>2. CASE q = r
    <3>1. k = m /\ "MESG_DUP" \notin flags[m] /\ m \in queue /\ Followed(Id[m])
      BY <1>5, <1>12, <2>2
    <3>2. ~MustBeNew(r)'
      BY <1>2, <2>2 DEF Gives
    <3>3. Id[m] \in Broadcasts => "RE_ROUTE" \in flags[m]
      BY <1>2, <1>4, <3>2 DEF MustBeNew, HdrID
    <3>4. NewBut(m, Bound[Id[m]], flags[m])
      BY <1>13, <3>1, <3>3 DEF MarkInv, FileIsNew
    <3> QED
      BY <1>2, <1>6, <2>2, <3>1, <3>4 DEF NewBut
  <2> QED
    BY <2>1, <2>2
<1> QED
  BY <1>8, <1>10, <1>11, <1>14, <1>15, <1>16 DEF MarkInv

(* The steps that end the handling of a message: of a file that is gone, or *)
(* of a message that is followed no more, nothing is said.                  *)
LEMMA UnlinkDataMark ==
  ASSUME IInv, MarkInv, NEW r \in Routers, UnlinkData(r)
  PROVE  MarkInv'
<1> DEFINE x == router[r]
           y == router'[r]
<1>0. RouterTypeOK /\ x \in RouterVars /\ x.pc = "cleanup"
  BY DEF IInv, RouterTypeOK, UnlinkData, At
<1>1. /\ coming' = coming /\ queue' = queue /\ UNCHANGED <<flags, given, spoilt, died, known>>
      /\ Set(r, [x EXCEPT !.cleanup = FALSE])
  BY DEF UnlinkData, hist
<1>2. /\ y.pc = "cleanup" /\ y.cmds = x.cmds /\ y.m = x.m /\ y.ids = x.ids /\ y.open = x.open
      /\ \A q \in Routers : q # r => router'[q] = router[q]
  <2>1. y = [x EXCEPT !.cleanup = FALSE] /\ \A q \in Routers : q # r => router'[q] = router[q]
    BY <1>0, <1>1, SetAt
  <2> QED
    BY <1>0, <2>1 DEF RouterVars
<1>3. BufferLocked'
  BY <1>2 DEF MarkInv, BufferLocked
<1>4. Noted \subseteq Noted' \cup {}
  BY <1>1, <1>2, NotedStays
<1>5. \A q \in Routers : router'[q].pc \in Works =>
         /\ router'[q].pc = router[q].pc /\ Mesg(q)' = Mesg(q) /\ router'[q].flags = router[q].flags
         /\ router'[q].cmds = router[q].cmds /\ router'[q].todo = router[q].todo
  BY <1>2 DEF Mesg, Works
<1>6. \A q \in Routers : router[q].cmds => router'[q].cmds /\ Mesg(q)' = Mesg(q)
  BY <1>2 DEF Mesg
<1> QED
  BY <1>1, <1>3, <1>4, <1>5, <1>6, IdleMark

LEMMA UnlinkCmdsMark ==
  ASSUME IInv, MarkInv, NEW r \in Routers, UnlinkCmds(r)
  PROVE  MarkInv'
<1> DEFINE x == router[r]
           y == router'[r]
<1>0. RouterTypeOK /\ x \in RouterVars /\ x.pc = "cleanup" /\ Mesg(r) \in Mesgs
  BY DEF IInv, RouterTypeOK, UnlinkCmds, At
<1>1. /\ coming' = coming /\ queue' = (IF x.cmds THEN queue \ {x.m} ELSE queue)
      /\ UNCHANGED <<flags, given, spoilt, died>>
      /\ IF x.exit THEN finish(r) ELSE Set(r, Cleared(r)) /\ UNCHANGED known
  BY DEF UnlinkCmds, hist
<1>2. /\ y.pc \notin Works /\ (y.ids # {} => y.open /\ y.pc # "down")
      /\ x.ids \subseteq y.ids \cup known' /\ known \subseteq known'
      /\ \A q \in Routers : q # r => router'[q] = router[q]
  <2>1. CASE x.exit
    <3>1. Set(r, Fresh("down", FALSE)) /\ known' = known \cup x.ids
      BY <1>1, <2>1 DEF finish
    <3>2. y = Fresh("down", FALSE) /\ \A q \in Routers : q # r => router'[q] = router[q]
      BY <1>0, <3>1, SetAt
    <3>3. y.pc = "down" /\ y.ids = {}
      BY <3>2 DEF Fresh
    <3> QED
      BY <3>1, <3>2, <3>3 DEF Works
  <2>2. CASE ~x.exit
    <3>1. Set(r, Cleared(r)) /\ known' = known
      BY <1>1, <2>2
    <3>2. y = Cleared(r) /\ \A q \in Routers : q # r => router'[q] = router[q]
      BY <1>0, <3>1, SetAt
    <3>3. y.pc = "scan" /\ y.ids = x.ids /\ y.open = x.open
      BY <1>0, <3>2 DEF Cleared, RouterVars
    <3> QED
      BY <3>1, <3>2, <3>3 DEF Works, MarkInv, BufferLocked
  <2> QED
    BY <2>1, <2>2
<1>3. BufferLocked'
  BY <1>2 DEF MarkInv, BufferLocked
<1>4. Noted \subseteq Noted' \cup {}
  BY <1>2, NotedStays
<1>5. \A q \in Routers : router'[q].pc \in Works =>
         /\ router'[q].pc = router[q].pc /\ Mesg(q)' = Mesg(q) /\ router'[q].flags = router[q].flags
         /\ router'[q].cmds = router[q].cmds /\ router'[q].todo = router[q].todo
  BY <1>2 DEF Mesg
<1>6. \A q \in Routers : q # r /\ router[q].cmds => router'[q].cmds /\ Mesg(q)' = Mesg(q)
  BY <1>2 DEF Mesg
<1>7. ASSUME x.cmds, NEW k \in Mesgs, k = Mesg(r)
      PROVE  k \notin coming' \cup queue' \/ ~Followed(Id[k])'
  <2>1. CASE Id[k] \in spoilt
    BY <1>1, <2>1 DEF Followed
  <2>2. CASE Id[k] \notin spoilt
    <3>1. Unspoilt(r)
      BY <1>0, <1>7, <2>2 DEF Unspoilt, Handles, HdrID
    <3>2. k \in queue
      BY <1>7, <3>1 DEF IInv, Whereabouts
    <3>3. k \notin coming
      BY <3>2 DEF IInv, BadIsOver
    <3> QED
      BY <1>1, <1>7, <3>3 DEF Mesg
  <2> QED
    BY <2>1, <2>2
<1>8. /\ UNCHANGED <<flags, given>> /\ spoilt \subseteq spoilt' /\ died \subseteq died'
      /\ coming' \cup queue' \subseteq coming \cup queue
  BY <1>1
<1>9. \A q \in Routers, k \in Mesgs : router[q].cmds /\ Mesg(q) = k =>
            \/ router'[q].cmds /\ Mesg(q)' = k
            \/ k \notin coming' \cup queue'
            \/ ~Followed(Id[k])'
  BY <1>6, <1>7
<1> QED
  BY <1>3, <1>4, <1>5, <1>8, <1>9, IdleMark

LEMMA DieMark ==
  ASSUME IInv, MarkInv, NEW r \in Routers, Die(r)
  PROVE  MarkInv'
<1> DEFINE x == router[r]
           y == router'[r]
<1>0. RouterTypeOK /\ x \in RouterVars
  BY DEF IInv, RouterTypeOK
<1>1. /\ coming' = coming /\ queue' = queue /\ UNCHANGED <<flags, given, known>>
      /\ spoilt \subseteq spoilt' /\ Set(r, Fresh("down", FALSE))
      /\ died' = died \cup x.ids \cup (IF Handling(r) THEN {HdrID(r)} ELSE {})
  BY DEF Die
<1>2. y.pc = "down" /\ y.ids = {} /\ \A q \in Routers : q # r => router'[q] = router[q]
  <2>1. y = Fresh("down", FALSE) /\ \A q \in Routers : q # r => router'[q] = router[q]
    BY <1>0, <1>1, SetAt
  <2> QED
    BY <2>1 DEF Fresh
<1>3. BufferLocked'
  BY <1>2 DEF MarkInv, BufferLocked
<1>4. Noted \subseteq Noted' \cup x.ids
  BY <1>1, <1>2, NotedStays
<1>5. \A j : Followed(j)' => j \notin x.ids
  BY <1>1 DEF Followed
<1>6. \A q \in Routers : router'[q].pc \in Works =>
         /\ router'[q].pc = router[q].pc /\ Mesg(q)' = Mesg(q) /\ router'[q].flags = router[q].flags
         /\ router'[q].cmds = router[q].cmds /\ router'[q].todo = router[q].todo
  BY <1>2 DEF Mesg, Works
<1>7. \A k \in Mesgs : x.cmds /\ Mesg(r) = k => ~Followed(Id[k])'
  BY <1>0, <1>1, Handled DEF Followed, HdrID
<1>8. \A q \in Routers : q # r /\ router[q].cmds => router'[q].cmds /\ Mesg(q)' = Mesg(q)
  BY <1>2 DEF Mesg
<1>9. \A q \in Routers, k \in Mesgs : router[q].cmds /\ Mesg(q) = k =>
            \/ router'[q].cmds /\ Mesg(q)' = k
            \/ k \notin coming' \cup queue'
            \/ ~Followed(Id[k])'
  BY <1>7, <1>8
<1>10. \A j : Followed(j)' /\ j \in Noted => j \in Noted'
  BY <1>4, <1>5
<1>11. died \subseteq died'
  BY <1>1
<1> QED
  BY <1>1, <1>3, <1>6, <1>9, <1>10, <1>11, IdleMark

LEMMA ArriveMark ==
  ASSUME IInv, MarkInv, NEW m \in Mesgs, Arrive(m)
  PROVE  MarkInv'
<1>1. /\ router' = router /\ UNCHANGED <<flags, given, spoilt, died, known>>
      /\ coming' \cup queue' \subseteq coming \cup queue
  BY DEF Arrive, hist
<1>2. Noted' = Noted /\ BufferLocked' /\ \A q \in Routers : Mesg(q)' = Mesg(q)
  BY <1>1 DEF Noted, MarkInv, BufferLocked, Mesg
<1> QED
  BY <1>1, <1>2, IdleMark

LEMMA StutterMark ==
  ASSUME IInv, MarkInv, UNCHANGED vars
  PROVE  MarkInv'
<1>1. router' = router /\ UNCHANGED <<flags, given, spoilt, died, known, coming, queue>>
  BY DEF vars, files, hist
<1>2. Noted' = Noted /\ BufferLocked' /\ \A q \in Routers : Mesg(q)' = Mesg(q)
  BY <1>1 DEF Noted, MarkInv, BufferLocked, Mesg
<1> QED
  BY <1>1, <1>2, IdleMark

-----------------------------------------------------------------------------
(* The steps in which a router goes on with the message at hand.            *)
LEMMA GiveMarks ==
  ASSUME RouterTypeOK, NEW r \in Routers, NEW i \in Ids, i = HdrID(r), NEW p \in AllPlaces,
         NEW b \in BOOLEAN, Give(i, p, b), ~b => GivesTo(r, p)
  PROVE  Marking(r)
<1> DEFINE g == Given(given[i][p], b)
<1>1. /\ g \in {"once", "twice"} => given[i][p] \in {"once", "twice"} \/ ~b
      /\ g = "twice" => given[i][p] = "twice" \/ (given[i][p] \in {"once", "twice"} /\ ~b)
  BY DEF Given
<1>2. given' = [given EXCEPT ![i][p] = g] /\ given \in [Ids -> [AllPlaces -> Marks]]
  BY DEF Give, RouterTypeOK
<1> HIDE DEF g
<1>3. \A j \in Ids, q \in AllPlaces :
         given'[j][q] = IF j = i /\ q = p THEN g ELSE given[j][q]
  BY <1>2
<1> QED
  BY <1>1, <1>3 DEF Marking, Unmarked

(* A filter that drops a message gives nothing. *)
LEMMA DropMarks ==
  ASSUME RouterTypeOK, NEW r \in Routers,
         \A j \in Ids, p \in AllPlaces : given'[j][p] \in {given[j][p], Dropped(given[j][p])}
  PROVE  Marking(r)
<1>1. \A g : Dropped(g) \in {g, "dropped"}
  BY DEF Dropped
<1>2. \A j \in Ids, p \in AllPlaces : given'[j][p] \in {given[j][p], "dropped"}
  BY <1>1
<1> QED
  BY <1>2 DEF Marking, Unmarked

LEMMA SameMarks ==
  ASSUME NEW r \in Routers, UNCHANGED given
  PROVE  Marking(r)
BY DEF Marking, Unmarked

(* What a router has at hand, with what the invariant says of it.           *)
LEMMA WorkHand ==
  ASSUME IInv, NEW r \in Routers, router[r].pc \in Works
  PROVE  /\ RouterTypeOK /\ router[r] \in RouterVars
         /\ Mesg(r) \in Mesgs /\ HdrID(r) \in Ids /\ HdrID(r) = Id[Mesg(r)]
         /\ router[r].todo \subseteq Bound[HdrID(r)] /\ router[r].todo \subseteq AllPlaces
<1>1. RouterTypeOK /\ router[r] \in RouterVars
  BY DEF IInv, RouterTypeOK
<1>2. Mesg(r) \in Mesgs /\ router[r].todo \subseteq Bound[HdrID(r)]
  BY <1>1 DEF RouterTypeOK, At, Handling, Works
<1> QED
  BY <1>1, <1>2, IdFacts, FieldTypes DEF HdrID, AllPlaces

Onward(r, y) ==
  LET x == router[r]
  IN  /\ y.m = x.m /\ y.flags = x.flags /\ y.todo \subseteq x.todo
      /\ y.ids = x.ids /\ y.open = x.open /\ (y.cmds => x.cmds)
      /\ x.pc \in Works /\ y.pc \in (Works \ {"route"}) \cup {"cleanup"}
      /\ y.pc = "lookup" => x.pc = "route"
      /\ y.pc = "deliver" => x.pc = "route" /\ ~MustBeNew(r)
      /\ y.pc = "rest" => x.pc = "deliver"
      /\ y.pc = "spool" => x.pc \in {"rest", "spool"}

(* A step with the message at hand, but for the one that looks it up.       *)
LEMMA OnMark ==
  ASSUME IInv, IInv', MarkInv, SingleCopies, NEW r \in Routers, NEW y, Set(r, y), Onward(r, y),
         NEW m \in Mesgs, m = Mesg(r), Marking(r),
         coming' = coming, queue' = queue, known' = known, spoilt \subseteq spoilt', died' = died,
         \A k \in Mesgs : k # m \/ ~router[r].cmds => flags'[k] = flags[k],
         flags[m] \subseteq flags'[m],
         "RE_ROUTE" \in flags'[m] => "RE_ROUTE" \in flags[m] \/ router[r].pc \in Gives,
         Id[m] \notin spoilt' /\ router[r].cmds /\ ~y.cmds /\ "MESG_DUP" \notin flags'[m] =>
           /\ y.pc = "cleanup"
           /\ \/ router[r].pc = "route" /\ flags'[m] = flags[m]
              \/ router[r].pc = "rest" /\ "DELIVERED" \in flags'[m]
  PROVE  MarkInv'
<1>1. RouterTypeOK
  BY DEF IInv
<1>2. router'[r] = y /\ \A q \in Routers : q # r => router'[q] = router[q]
  BY <1>1, SetAt
<1>3. Moves(r)
  BY <1>2 DEF Moves, Onward
<1>4. Followed(Id[m])' => Leaves(r, m)
  BY <1>2 DEF Followed, Leaves
<1>5. BufferLocked'
  <2>1. y.pc # "down" /\ y.ids = router[r].ids /\ y.open = router[r].open
    BY DEF Onward, Works
  <2> QED
    BY <1>2, <2>1, BufferStays DEF MarkInv, BufferLocked
<1>6. Noted \subseteq Noted' \cup {}
  BY <1>2, NotedStays DEF Onward
<1>7. ~(router[r].pc = "lookup" /\ y.pc = "deliver")
  BY DEF Onward
<1>8. Id[m] \in Ids /\ HdrID(r) = Id[m]
  BY IdFacts DEF HdrID
<1>9. UNCHANGED <<coming, queue>> /\ died \subseteq died' /\ Noted \subseteq Noted'
  BY <1>6
<1> QED
  BY <1>2, <1>3, <1>4, <1>5, <1>7, <1>8, <1>9, HandMark

(* The flags stay, and so does the commands file, unless it is gone.        *)
LEMMA OnMarkKept ==
  ASSUME IInv, IInv', MarkInv, SingleCopies, NEW r \in Routers, NEW y, Set(r, y), Onward(r, y),
         Marking(r), coming' = coming, queue' = queue, known' = known, flags' = flags,
         spoilt \subseteq spoilt', died' = died,
         router[r].cmds /\ ~y.cmds => Mesg(r) \notin queue
  PROVE  MarkInv'
<1>1. router[r].pc \in Works
  BY DEF Onward
<1>2. PICK m \in Mesgs : m = Mesg(r) /\ HdrID(r) = Id[m]
  BY <1>1, WorkHand
<1>3. router[r].cmds /\ Id[m] \notin spoilt => m \in queue
  BY <1>1, <1>2 DEF IInv, Whereabouts, Unspoilt, Works, Handles
<1> QED
  BY <1>2, <1>3, OnMark

(* Nothing but the place in the code changes. *)
LEMMA GotoMark ==
  ASSUME IInv, IInv', MarkInv, SingleCopies, NEW r \in Routers, NEW to, Goto(r, to),
         router[r].pc \in Works, to \in (Works \ {"route"}) \cup {"cleanup"},
         to = "lookup" => router[r].pc = "route",
         to = "deliver" => router[r].pc = "route" /\ ~MustBeNew(r),
         to = "rest" => router[r].pc = "deliver",
         to = "spool" => router[r].pc \in {"rest", "spool"},
         Marking(r), coming' = coming, queue' = queue, known' = known, flags' = flags,
         spoilt \subseteq spoilt', died' = died
  PROVE  MarkInv'
<1> DEFINE x == router[r]
           y == [x EXCEPT !.pc = to]
<1>1. x \in RouterVars
  BY WorkHand
<1>2. Set(r, y)
  BY DEF Goto
<1>3. /\ y.pc = to /\ y.m = x.m /\ y.flags = x.flags /\ y.todo = x.todo
      /\ y.ids = x.ids /\ y.open = x.open /\ y.cmds = x.cmds
  BY <1>1 DEF RouterVars
<1> HIDE DEF y
<1>4. Onward(r, y)
  BY <1>3 DEF Onward
<1> QED
  BY <1>2, <1>3, <1>4, OnMarkKept

LEMMA AcceptMark ==
  ASSUME IInv, IInv', MarkInv, SingleCopies, NEW r \in Routers, Accept(r)
  PROVE  MarkInv'
<1> DEFINE to == IF MustBeNew(r) THEN "lookup" ELSE "deliver"
<1>1. /\ router[r].pc = "route" /\ Goto(r, to)
      /\ UNCHANGED <<given, coming, queue, known, flags, spoilt, died>>
  BY DEF Accept, At, files, hist
<1>2. to \in {"lookup", "deliver"} /\ (to = "deliver" => ~MustBeNew(r))
  OBVIOUS
<1> HIDE DEF to
<1> QED
  BY <1>1, <1>2, SameMarks, GotoMark DEF Works

LEMMA FilterStopsMark ==
  ASSUME IInv, IInv', MarkInv, SingleCopies, NEW r \in Routers, FilterStops(r)
  PROVE  MarkInv'
<1>1. /\ router[r].pc = "route" /\ Goto(r, "cleanup")
      /\ coming' = coming /\ queue' = queue /\ known' = known /\ flags' = flags
      /\ spoilt' = spoilt /\ died' = died
  BY DEF FilterStops, At, files
<1>2. RouterTypeOK /\ HdrID(r) \in Ids
  BY <1>1, WorkHand DEF Works
<1>3. Marking(r)
  <2>1. CASE given' = [given EXCEPT ![HdrID(r)] = [p \in AllPlaces |-> Dropped(@[p])]]
    <3>1. \A j \in Ids, p \in AllPlaces : given'[j][p] \in {given[j][p], Dropped(given[j][p])}
      BY <1>2, <2>1 DEF RouterTypeOK
    <3> QED
      BY <1>2, <3>1, DropMarks
  <2>2. CASE UNCHANGED given
    BY <2>2, SameMarks
  <2> QED
    BY <2>1, <2>2 DEF FilterStops
<1> QED
  BY <1>1, <1>3, GotoMark DEF Works

LEMMA DoRouteMark ==
  ASSUME IInv, IInv', MarkInv, SingleCopies, NEW r \in Routers, DoRoute(r)
  PROVE  MarkInv'
<1>1. /\ router[r].pc = "rest" /\ Goto(r, "spool")
      /\ UNCHANGED <<given, coming, queue, known, flags, spoilt, died>>
  BY DEF DoRoute, At, files, hist
<1> QED
  BY <1>1, SameMarks, GotoMark DEF Works

LEMMA NoDeliveryMark ==
  ASSUME IInv, IInv', MarkInv, SingleCopies, NEW r \in Routers, NoDelivery(r)
  PROVE  MarkInv'
<1>1. /\ router[r].pc = "deliver" /\ Goto(r, Next_pc(r))
      /\ UNCHANGED <<given, coming, queue, known, flags, spoilt, died>>
  BY DEF NoDelivery, At, files, hist
<1>2. Next_pc(r) \in {"cleanup", "rest"}
  BY DEF Next_pc
<1> QED
  BY <1>1, <1>2, SameMarks, GotoMark DEF Works

(* What the handler is given is marked if the flags say so. *)
LEMMA DeliverMarks ==
  ASSUME IInv, NEW r \in Routers, Deliver(r), Give(HdrID(r), "here", "MESG_DUP" \in router[r].flags)
  PROVE  Marking(r)
<1> DEFINE b == "MESG_DUP" \in router[r].flags
<1>1. router[r].pc = "deliver" /\ HdrID(r) \in Here /\ "DELIVERED" \notin router[r].flags
  BY DEF Deliver, At
<1>2. RouterTypeOK /\ "here" \in AllPlaces
  BY DEF IInv, AllPlaces
<1>3. PICK i \in Ids : i = HdrID(r)
  BY <1>1, WorkHand DEF Works
<1>4. b \in BOOLEAN /\ (~b => GivesTo(r, "here"))
  BY <1>1 DEF GivesTo
<1>5. Give(i, "here", b)
  BY <1>3
<1> HIDE DEF b
<1> QED
  BY <1>2, <1>3, <1>4, <1>5, GiveMarks

LEMMA DeliveredMark ==
  ASSUME IInv, IInv', MarkInv, SingleCopies, NEW r \in Routers, Delivered(r)
  PROVE  MarkInv'
<1>1. /\ router[r].pc = "deliver" /\ Goto(r, Next_pc(r)) /\ Deliver(r)
      /\ Give(HdrID(r), "here", "MESG_DUP" \in router[r].flags)
      /\ UNCHANGED <<coming, queue, known, flags, spoilt, died>>
  BY DEF Delivered, Deliver, At, files
<1>2. Next_pc(r) \in {"cleanup", "rest"}
  BY DEF Next_pc
<1>3. Marking(r)
  BY <1>1, DeliverMarks
<1> QED
  BY <1>1, <1>2, <1>3, GotoMark DEF Works

-----------------------------------------------------------------------------
(* The steps that leave the commands file, or keep it for inspection.       *)
LEMMA LeftOn ==
  ASSUME NEW r \in Routers, router[r] \in RouterVars, router[r].pc \in Works, NEW y,
         y = [Left(r) EXCEPT !.pc = "cleanup"]
  PROVE  Onward(r, y) /\ ~y.cmds /\ y.pc = "cleanup"
BY DEF Left, RouterVars, Onward, Works

LEMMA BadOn ==
  ASSUME NEW r \in Routers, router[r] \in RouterVars, router[r].pc \in Works, NEW to, NEW y,
         to = "cleanup" \/ (to = "rest" /\ router[r].pc = "deliver"),
         y = [Bad(r) EXCEPT !.pc = to]
  PROVE  Onward(r, y) /\ (router[r].cmds /\ ~y.cmds => Mesg(r) \notin queue)
<1> DEFINE b == Bad(r)
<1>1. /\ b \in RouterVars
      /\ b.m = router[r].m /\ b.flags = router[r].flags /\ b.todo = router[r].todo
      /\ b.ids = router[r].ids /\ b.open = router[r].open /\ (b.cmds => router[r].cmds)
      /\ router[r].cmds /\ ~b.cmds => Mesg(r) \notin queue
  <2>1. CASE ~router[r].cmds
    BY <2>1 DEF Bad
  <2>2. CASE router[r].cmds /\ Mesg(r) \in queue
    BY <2>2 DEF Bad, RouterVars
  <2>3. CASE router[r].cmds /\ Mesg(r) \notin queue
    BY <2>3 DEF Bad, RouterVars
  <2> QED
    BY <2>1, <2>2, <2>3
<1>2. y = [b EXCEPT !.pc = to]
  OBVIOUS
<1> HIDE DEF b
<1>3. /\ y.pc = to /\ y.m = b.m /\ y.flags = b.flags /\ y.todo = b.todo
      /\ y.ids = b.ids /\ y.open = b.open /\ y.cmds = b.cmds
  BY <1>1, <1>2 DEF RouterVars
<1> QED
  BY <1>1, <1>3 DEF Onward, Works

(* leave_cmds adds flags to the commands file at hand. *)
LEMMA LeaveFlags ==
  ASSUME RouterTypeOK, NEW r \in Routers, NEW add, leave_cmds(r, add), NEW m \in Mesgs, m = Mesg(r)
  PROVE  /\ \A k \in Mesgs : k # m \/ ~router[r].cmds => flags'[k] = flags[k]
         /\ router[r].cmds => flags'[m] = flags[m] \cup add
         /\ flags[m] \subseteq flags'[m]
BY DEF leave_cmds, RouterTypeOK

LEMMA LeaveUnroutedMark ==
  ASSUME IInv, IInv', MarkInv, SingleCopies, NEW r \in Routers, LeaveUnrouted(r)
  PROVE  MarkInv'
<1> DEFINE y == [Left(r) EXCEPT !.pc = "cleanup"]
<1>1. /\ router[r].pc = "route" /\ leave_cmds(r, {}) /\ Set(r, y)
      /\ UNCHANGED <<given, coming, queue, known, spoilt, died>>
  BY DEF LeaveUnrouted, At, hist
<1>2. RouterTypeOK /\ router[r] \in RouterVars /\ router[r].pc \in Works
  BY <1>1, WorkHand DEF Works
<1>3. PICK m \in Mesgs : m = Mesg(r)
  BY <1>2, WorkHand
<1>4. Onward(r, y) /\ ~y.cmds /\ y.pc = "cleanup"
  BY <1>2, LeftOn
<1> HIDE DEF y
<1>5. /\ \A k \in Mesgs : k # m \/ ~router[r].cmds => flags'[k] = flags[k]
      /\ flags'[m] = flags[m]
  <2>1. /\ \A k \in Mesgs : k # m \/ ~router[r].cmds => flags'[k] = flags[k]
        /\ router[r].cmds => flags'[m] = flags[m] \cup {}
    BY <1>1, <1>2, <1>3, LeaveFlags
  <2> QED
    BY <2>1
<1>6. Marking(r)
  BY <1>1, SameMarks
<1> QED
  BY <1>1, <1>3, <1>4, <1>5, <1>6, OnMark

LEMMA RouteFailsMark ==
  ASSUME IInv, IInv', MarkInv, SingleCopies, NEW r \in Routers, RouteFails(r)
  PROVE  MarkInv'
<1> DEFINE y == [Bad(r) EXCEPT !.pc = "cleanup"]
<1>1. /\ router[r].pc = "route" /\ Set(r, y)
      /\ UNCHANGED <<given, coming, queue, known, flags, spoilt, died>>
  BY DEF RouteFails, At, hist
<1>2. router[r] \in RouterVars /\ router[r].pc \in Works
  BY <1>1, WorkHand DEF Works
<1>3. Onward(r, y) /\ (router[r].cmds /\ ~y.cmds => Mesg(r) \notin queue)
  BY <1>2, BadOn
<1> HIDE DEF y
<1> QED
  BY <1>1, <1>3, SameMarks, OnMarkKept

LEMMA LeaveLinksMark ==
  ASSUME IInv, IInv', MarkInv, SingleCopies, NEW r \in Routers, LeaveLinks(r)
  PROVE  MarkInv'
<1> DEFINE y == [Left(r) EXCEPT !.pc = "cleanup"]
           add == {"RE_ROUTE", "DELIVERED"}
<1>1. /\ router[r].pc = "rest" /\ leave_cmds(r, add) /\ Set(r, y)
      /\ UNCHANGED <<given, coming, queue, known, died>>
      /\ spoilt \subseteq spoilt'
  BY DEF LeaveLinks, At
<1>2. RouterTypeOK /\ router[r] \in RouterVars /\ router[r].pc \in Works
  BY <1>1, WorkHand DEF Works
<1>3. PICK m \in Mesgs : m = Mesg(r)
  BY <1>2, WorkHand
<1>4. Onward(r, y) /\ ~y.cmds /\ y.pc = "cleanup"
  BY <1>2, LeftOn
<1> HIDE DEF y
<1>5. /\ \A k \in Mesgs : k # m \/ ~router[r].cmds => flags'[k] = flags[k]
      /\ router[r].cmds => flags'[m] = flags[m] \cup add
      /\ flags[m] \subseteq flags'[m]
  BY <1>1, <1>2, <1>3, LeaveFlags
<1>6. Marking(r)
  BY <1>1, SameMarks
<1>7. "DELIVERED" \in add
  OBVIOUS
<1> HIDE DEF add
<1> QED
  BY <1>1, <1>3, <1>4, <1>5, <1>6, <1>7, OnMark DEF Gives

LEMMA HandlerFailsMark ==
  ASSUME IInv, IInv', MarkInv, SingleCopies, NEW r \in Routers, HandlerFails(r)
  PROVE  MarkInv'
<1>1. /\ router[r].pc = "deliver" /\ Deliver(r)
      /\ coming' = coming /\ queue' = queue /\ known' = known /\ died' = died
  BY DEF HandlerFails, Deliver, At
<1>2. RouterTypeOK /\ router[r] \in RouterVars /\ router[r].pc \in Works
  BY <1>1, WorkHand DEF Works
<1>3. PICK m \in Mesgs : m = Mesg(r)
  BY <1>2, WorkHand
<1>4. Marking(r)
  <2>1. CASE Give(HdrID(r), "here", "MESG_DUP" \in router[r].flags)
    BY <1>1, <2>1, DeliverMarks
  <2>2. CASE UNCHANGED given
    BY <2>2, SameMarks
  <2> QED
    BY <2>1, <2>2 DEF HandlerFails
<1>5. Next_pc(r) \in {"cleanup", "rest"}
  BY DEF Next_pc
<1>6. CASE /\ leave_cmds(r, {"MESG_DUP"}) /\ spoilt \subseteq spoilt'
           /\ Set(r, [Left(r) EXCEPT !.pc = "cleanup"])
  <2> DEFINE y == [Left(r) EXCEPT !.pc = "cleanup"]
  <2>1. Set(r, y) /\ Onward(r, y) /\ ~y.cmds /\ y.pc = "cleanup"
    BY <1>2, <1>6, LeftOn
  <2> HIDE DEF y
  <2>2. /\ \A k \in Mesgs : k # m \/ ~router[r].cmds => flags'[k] = flags[k]
        /\ router[r].cmds => flags'[m] = flags[m] \cup {"MESG_DUP"}
        /\ flags[m] \subseteq flags'[m]
    BY <1>2, <1>3, <1>6, LeaveFlags
  <2>3. "RE_ROUTE" \in flags'[m] => "RE_ROUTE" \in flags[m] \/ router[r].pc \in Gives
    BY <1>1 DEF Gives
  <2> QED
    BY <1>1, <1>3, <1>4, <1>6, <2>1, <2>2, <2>3, OnMark
<1>7. CASE Goto(r, Next_pc(r)) /\ flags' = flags /\ spoilt' = spoilt
  BY <1>1, <1>4, <1>5, <1>7, GotoMark DEF Works
<1>8. CASE Set(r, [Bad(r) EXCEPT !.pc = Next_pc(r)]) /\ flags' = flags /\ spoilt' = spoilt
  <2> DEFINE y == [Bad(r) EXCEPT !.pc = Next_pc(r)]
  <2>1. Set(r, y) /\ Onward(r, y) /\ (router[r].cmds /\ ~y.cmds => Mesg(r) \notin queue)
    BY <1>1, <1>2, <1>5, <1>8, BadOn
  <2> HIDE DEF y
  <2> QED
    BY <1>1, <1>4, <1>8, <2>1, OnMarkKept
<1>9. \/ /\ leave_cmds(r, {"MESG_DUP"}) /\ spoilt \subseteq spoilt'
         /\ Set(r, [Left(r) EXCEPT !.pc = "cleanup"])
      \/ Goto(r, Next_pc(r)) /\ flags' = flags /\ spoilt' = spoilt
      \/ Set(r, [Bad(r) EXCEPT !.pc = Next_pc(r)]) /\ flags' = flags /\ spoilt' = spoilt
  BY DEF HandlerFails
<1> QED
  BY <1>6, <1>7, <1>8, <1>9

-----------------------------------------------------------------------------
(* The links are served one after the other, and each once. *)
LEMMA SpooledOn ==
  ASSUME NEW r \in Routers, router[r] \in RouterVars, router[r].pc = "spool", NEW l,
         NEW y, y = Spooled(r, l)
  PROVE  /\ Onward(r, y) /\ y.cmds = router[r].cmds /\ y.todo = router[r].todo \ {l}
         /\ y \in RouterVars
<1> DEFINE rest == router[r].todo \ {l}
           to == IF router[r].todo = {l} THEN "cleanup" ELSE "spool"
<1>1. to \in {"cleanup", "spool"} /\ rest \subseteq router[r].todo /\ rest = router[r].todo \ {l}
  OBVIOUS
<1>2. y = [router[r] EXCEPT !.todo = rest, !.pc = to]
  BY DEF Spooled
<1>3. rest \subseteq Links
  BY DEF RouterVars
<1> HIDE DEF rest, to
<1>4. /\ y.pc = to /\ y.todo = rest /\ y.m = router[r].m /\ y.flags = router[r].flags
      /\ y.ids = router[r].ids /\ y.open = router[r].open /\ y.cmds = router[r].cmds
  BY <1>2 DEF RouterVars
<1>5. Onward(r, y)
  BY <1>1, <1>4 DEF Onward, Works
<1>6. y \in RouterVars
  BY <1>1, <1>2, <1>3 DEF RouterVars
<1> QED
  BY <1>1, <1>4, <1>5, <1>6

LEMMA SpoolMark ==
  ASSUME IInv, IInv', MarkInv, SingleCopies, NEW r \in Routers, NEW l \in Links, Spool(r, l)
  PROVE  MarkInv'
<1> DEFINE y == Spooled(r, l)
           b == "MESG_DUP" \in router[r].flags
<1>1. /\ router[r].pc = "spool" /\ l \in router[r].todo /\ Set(r, y) /\ Give(HdrID(r), l, b)
      /\ UNCHANGED <<coming, queue, known, flags, spoilt, died>>
  BY DEF Spool, At, files
<1>2. RouterTypeOK /\ router[r] \in RouterVars /\ HdrID(r) \in Ids /\ l \in AllPlaces
  BY <1>1, WorkHand DEF Works
<1>3. Onward(r, y) /\ y.cmds = router[r].cmds /\ y.todo = router[r].todo \ {l}
  BY <1>1, <1>2, SpooledOn
<1> HIDE DEF y
<1>4. router'[r] = y
  BY <1>1, <1>2, SetAt
<1>5. b \in BOOLEAN /\ (~b => GivesTo(r, l))
  BY <1>1, <1>3, <1>4 DEF GivesTo
<1> HIDE DEF b
<1>6. PICK i \in Ids : i = HdrID(r)
  BY <1>2
<1>7. Marking(r)
  BY <1>1, <1>2, <1>5, <1>6, GiveMarks
<1> QED
  BY <1>1, <1>3, <1>7, OnMarkKept

LEMMA FilterOutMark ==
  ASSUME IInv, IInv', MarkInv, SingleCopies, NEW r \in Routers, NEW l \in Links, FilterOut(r, l)
  PROVE  MarkInv'
<1> DEFINE s == Spooled(r, l)
<1>1. /\ router[r].pc = "spool" /\ l \in router[r].todo
      /\ UNCHANGED <<coming, queue, known, spoilt, died>>
  BY DEF FilterOut, At
<1>2. RouterTypeOK /\ router[r] \in RouterVars /\ router[r].pc \in Works /\ HdrID(r) \in Ids
  BY <1>1, WorkHand DEF Works
<1>3. PICK m \in Mesgs : m = Mesg(r)
  BY <1>2, WorkHand
<1>4. /\ Onward(r, s) /\ s.cmds = router[r].cmds
      /\ s \in RouterVars
  BY <1>1, <1>2, SpooledOn
<1>5. CASE /\ given' = [given EXCEPT ![HdrID(r)][l] = Dropped(@)]
           /\ Set(r, s) /\ flags' = flags
  <2>1. \A j \in Ids, p \in AllPlaces : given'[j][p] \in {given[j][p], Dropped(given[j][p])}
    BY <1>2, <1>5 DEF RouterTypeOK
  <2>2. Marking(r)
    BY <1>2, <2>1, DropMarks
  <2> HIDE DEF s
  <2> QED
    BY <1>1, <1>4, <1>5, <2>2, OnMarkKept
<1>6. CASE UNCHANGED given /\ Set(r, s) /\ flags' = flags
  <2> HIDE DEF s
  <2> QED
    BY <1>1, <1>4, <1>6, SameMarks, OnMarkKept
<1>7. CASE /\ UNCHANGED given /\ leave_cmds(r, {"MESG_DUP", "RE_ROUTE"})
           /\ Set(r, [s EXCEPT !.cmds = FALSE, !.cleanup = FALSE])
  <2> HIDE DEF s
  <2> DEFINE y == [s EXCEPT !.cmds = FALSE, !.cleanup = FALSE]
  <2>1. /\ y.pc = s.pc /\ y.todo = s.todo /\ y.m = s.m /\ y.flags = s.flags
        /\ y.ids = s.ids /\ y.open = s.open /\ ~y.cmds
    BY <1>4 DEF RouterVars
  <2>2. Set(r, y)
    BY <1>7
  <2> HIDE DEF y
  <2>3. Onward(r, y)
    BY <1>4, <2>1 DEF Onward
  <2>4. /\ \A k \in Mesgs : k # m \/ ~router[r].cmds => flags'[k] = flags[k]
        /\ router[r].cmds => flags'[m] = flags[m] \cup {"MESG_DUP", "RE_ROUTE"}
        /\ flags[m] \subseteq flags'[m]
    BY <1>2, <1>3, <1>7, LeaveFlags
  <2>5. router[r].cmds => "MESG_DUP" \in flags'[m]
    BY <2>4
  <2>6. router[r].pc \in Gives /\ Marking(r)
    BY <1>1, <1>7, SameMarks DEF Gives
  <2> QED
    BY <1>1, <1>3, <2>2, <2>3, <2>4, <2>5, <2>6, OnMark
<1>8. CASE /\ UNCHANGED given /\ flags' = flags
           /\ Set(r, [Bad(r) EXCEPT !.pc = "cleanup", !.exit = TRUE])
  <2> DEFINE z == [Bad(r) EXCEPT !.pc = "cleanup"]
             y == [Bad(r) EXCEPT !.pc = "cleanup", !.exit = TRUE]
  <2>1. Onward(r, z) /\ (router[r].cmds /\ ~z.cmds => Mesg(r) \notin queue)
    BY <1>2, BadOn
  <2>2. /\ y.pc = z.pc /\ y.todo = z.todo /\ y.m = z.m /\ y.flags = z.flags
        /\ y.ids = z.ids /\ y.open = z.open /\ y.cmds = z.cmds
    <3>1. Bad(r) \in RouterVars
      <4>1. CASE ~router[r].cmds
        BY <1>2, <4>1 DEF Bad
      <4>2. CASE router[r].cmds /\ Mesg(r) \in queue
        BY <1>2, <4>2 DEF Bad, RouterVars
      <4>3. CASE router[r].cmds /\ Mesg(r) \notin queue
        BY <1>2, <4>3 DEF Bad, RouterVars
      <4> QED
        BY <4>1, <4>2, <4>3
    <3> QED
      BY <3>1 DEF RouterVars
  <2>3. Set(r, y)
    BY <1>8
  <2> HIDE DEF y, z, s
  <2>4. Onward(r, y) /\ (router[r].cmds /\ ~y.cmds => Mesg(r) \notin queue)
    BY <2>1, <2>2 DEF Onward
  <2> QED
    BY <1>1, <1>8, <2>3, <2>4, SameMarks, OnMarkKept
<1>9. \/ /\ given' = [given EXCEPT ![HdrID(r)][l] = Dropped(@)]
         /\ Set(r, s) /\ flags' = flags
      \/ UNCHANGED given /\ Set(r, s) /\ flags' = flags
      \/ /\ UNCHANGED given /\ leave_cmds(r, {"MESG_DUP", "RE_ROUTE"})
         /\ Set(r, [s EXCEPT !.cmds = FALSE, !.cleanup = FALSE])
      \/ /\ UNCHANGED given /\ flags' = flags
         /\ Set(r, [Bad(r) EXCEPT !.pc = "cleanup", !.exit = TRUE])
  BY DEF FilterOut
<1> QED
  BY <1>5, <1>6, <1>7, <1>8, <1>9

(* The data-base: a broadcast that is let through was noted nowhere, since  *)
(* no other router can have anything in its buffer.                         *)
LEMMA LookupMark ==
  ASSUME IInv, IInv', MarkInv, SingleCopies, NEW r \in Routers, Lookup(r)
  PROVE  MarkInv'
<1> DEFINE x == router[r]
           y == router'[r]
<1>1. /\ x.pc = "lookup" /\ \A q \in Routers : q # r => ~router[q].open
      /\ UNCHANGED <<coming, queue, flags, given, spoilt, died>>
  BY DEF Lookup, At, files, hist
<1>2. RouterTypeOK /\ x \in RouterVars /\ x.pc \in Works
  BY <1>1, WorkHand DEF Works
<1>3. PICK m \in Mesgs : m = Mesg(r) /\ HdrID(r) = Id[m] /\ Id[m] \in Ids
  BY <1>2, WorkHand
<1>4. PICK i \in Ids : i = Id[m]
  BY <1>3
<1> DEFINE new == i \notin known \cup x.ids
<1>5. \E ids \in {x.ids, {}} :
        /\ known' = known \cup (x.ids \ ids)
        /\ Set(r, [x EXCEPT !.open = TRUE, !.ids = IF new THEN ids \cup {i} ELSE ids,
                            !.pc = IF new THEN "deliver" ELSE "cleanup"])
  BY <1>3, <1>4 DEF Lookup
<1>6. PICK ids \in {x.ids, {}} :
        /\ known' = known \cup (x.ids \ ids)
        /\ Set(r, [x EXCEPT !.open = TRUE, !.ids = IF new THEN ids \cup {i} ELSE ids,
                            !.pc = IF new THEN "deliver" ELSE "cleanup"])
  BY <1>5
<1> DEFINE to == IF new THEN "deliver" ELSE "cleanup"
           noted == IF new THEN ids \cup {i} ELSE ids
<1>7. /\ to \in {"deliver", "cleanup"}
      /\ to = "deliver" => i \in noted /\ i \notin known \cup x.ids
      /\ ids \subseteq noted
  OBVIOUS
<1>8. Set(r, [x EXCEPT !.open = TRUE, !.ids = noted, !.pc = to])
  BY <1>6
<1> HIDE DEF to, noted, new
<1>9. y = [x EXCEPT !.open = TRUE, !.ids = noted, !.pc = to] /\ \A q \in Routers : q # r => router'[q] = router[q]
  BY <1>2, <1>8, SetAt
<1>10. /\ y.pc = to /\ y.ids = noted /\ y.open /\ y.m = x.m /\ y.flags = x.flags
       /\ y.todo = x.todo /\ y.cmds = x.cmds
  BY <1>2, <1>9 DEF RouterVars
<1>11. Moves(r)
  BY <1>1, <1>7, <1>9, <1>10 DEF Moves, Works
<1>12. BufferLocked'
  BY <1>7, <1>9, <1>10 DEF MarkInv, BufferLocked
<1>13. Noted \subseteq Noted' \cup {}
  <2>1. x.ids \subseteq y.ids \cup known' \cup {} /\ known \subseteq known'
    BY <1>6, <1>7, <1>10
  <2> QED
    BY <1>9, <2>1, NotedStays
<1>14. y.pc = "deliver" => i \in Noted' /\ i \notin Noted
  <2>1. ASSUME y.pc = "deliver" PROVE i \in Noted'
    BY <1>7, <1>10, <2>1 DEF Noted
  <2>2. \A q \in Routers : q # r => router[q].ids = {}
    BY <1>1 DEF MarkInv, BufferLocked
  <2>3. ASSUME y.pc = "deliver" PROVE i \notin Noted
    BY <1>7, <1>10, <2>2, <2>3 DEF Noted
  <2> QED
    BY <2>1, <2>3
<1>15. Leaves(r, m)
  BY <1>10 DEF Leaves
<1>16. Marking(r)
  BY <1>1, SameMarks
<1>17. /\ UNCHANGED <<coming, queue>> /\ spoilt \subseteq spoilt' /\ died \subseteq died'
       /\ flags' = flags /\ Noted \subseteq Noted' /\ i = HdrID(r)
  BY <1>1, <1>3, <1>4, <1>13
<1> QED
  BY <1>3, <1>4, <1>11, <1>12, <1>14, <1>15, <1>16, <1>17, HandMark

-----------------------------------------------------------------------------
LEMMA InitMark == Init => MarkInv
<1> SUFFICES ASSUME Init PROVE MarkInv
  OBVIOUS
<1>1. /\ \A r \in Routers : router[r].pc = "list" /\ router[r].ids = {}
      /\ \A m \in Mesgs : flags[m] = {}
      /\ \A i \in Ids, p \in AllPlaces : given[i][p] = "no"
      /\ coming = Mesgs /\ queue = {}
  BY DEF Init, Fresh
<1>2. \A i \in Ids, p \in AllPlaces : ~Unmarked(i, p) /\ given[i][p] # "twice"
  BY <1>1 DEF Unmarked
<1>3. /\ \A m \in Mesgs : ~Taken(m)
      /\ \A m \in Mesgs, r \in Routers : ~Active(r, m)
  BY <1>1 DEF Taken, Active, Works, Gives
<1>4. BufferLocked /\ TakenIsNoted /\ OneTaken /\ OneActive /\ HandIsNew
  BY <1>1, <1>3 DEF BufferLocked, TakenIsNoted, OneTaken, OneActive, HandIsNew
<1>5. GivenIsNoted /\ NoneTwice
  BY <1>2 DEF GivenIsNoted, NoneTwice
<1>6. \A m \in Mesgs : Id[m] \in Ids /\ Bound[Id[m]] \subseteq AllPlaces /\ "here" \in AllPlaces
  BY IdFacts DEF AllPlaces
<1>7. FileIsNew
  BY <1>1, <1>2, <1>6 DEF FileIsNew, NewBut
<1> QED
  BY <1>4, <1>5, <1>7 DEF MarkInv

(* Every step of a router. *)
LEMMA StepMark ==
  ASSUME IInv, IInv', MarkInv, SingleCopies, NEW r \in Routers, Step(r)
  PROVE  MarkInv'
<1>1. ASSUME Quiet(r) PROVE MarkInv'
  BY <1>1, QuietMarks
<1>2. ASSUME \E l \in Links : Spool(r, l) \/ FilterOut(r, l) PROVE MarkInv'
  BY <1>2, SpoolMark, FilterOutMark
<1> QED
  BY <1>1, <1>2, LockMark, AcceptMark, FilterStopsMark, LeaveUnroutedMark, RouteFailsMark, LookupMark,
     NoDeliveryMark, DeliveredMark, HandlerFailsMark, LeaveLinksMark, DoRouteMark,
     UnlinkDataMark, UnlinkCmdsMark DEF Step, Quiet

LEMMA NextMark == SingleCopies /\ IInv /\ IInv' /\ MarkInv /\ [Next]_vars => MarkInv'
<1> SUFFICES ASSUME SingleCopies, IInv, IInv', MarkInv, [Next]_vars PROVE MarkInv'
  OBVIOUS
<1>1. ASSUME NEW m \in Mesgs, Arrive(m) PROVE MarkInv'
  BY <1>1, ArriveMark
<1>2. ASSUME NEW r \in Routers, Step(r) \/ Term(r) \/ Die(r) \/ Start(r) PROVE MarkInv'
  BY <1>2, StepMark, QuietMarks, DieMark DEF Quiet
<1> QED
  BY <1>1, <1>2, StutterMark DEF Next

(* RepeatsMarked (router.c: MESG_DUP, the data-base, leave_cmds).  When a    *)
(* message that is not a broadcast from elsewhere comes in one copy, no      *)
(* place is given a message twice unmarked, however many routers there are   *)
(* and wherever they are stopped; but for messages spoilt, and those at hand *)
(* when a router died.                                                       *)
THEOREM RouterRepeatsMarked == SingleCopies => (Spec => []RepeatsMarked)
<1> SUFFICES ASSUME SingleCopies PROVE Spec => []RepeatsMarked
  OBVIOUS
<1>1. IInv /\ IInv' /\ MarkInv /\ [Next]_vars => MarkInv'
  BY NextMark
<1>2. MarkInv => RepeatsMarked
  BY PlacesFact DEF MarkInv, NoneTwice, RepeatsMarked, Followed
<1> QED
  BY <1>1, <1>2, InitMark, AlwaysIInv, PTL DEF Spec
=============================================================================
