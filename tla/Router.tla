------------------------------- MODULE Router -------------------------------
(***************************************************************************)
(* Handlers/router.c: routers that take messages from the routing          *)
(* directory, deliver them to a local handler, spool them for links, and   *)
(* remove them; with signals to finish, deaths between any two changes of  *)
(* the file system, and several routers side by side (-N).                 *)
(*                                                                         *)
(* A message in the directory is a commands file; it names data files and  *)
(* those to unlink.  A commands file is locked by the router that handles  *)
(* it, and a lock outlives the name of the file: a file that was opened    *)
(* before another router unlinked it can still be locked and read.         *)
(*                                                                         *)
(* Left out: messages that expire or name the link to take (netreroute),   *)
(* commands files that report on a link, sub-routers.                      *)
(***************************************************************************)
EXTENDS Naturals, FiniteSets

CONSTANTS
  Routers,     \* the routers of this node
  Mesgs,       \* commands files that arrive, their names in order
  Id,          \* Id[m]: the message it is a copy of (HdrID)
  Here,        \* messages with this node in their destination
  Bound,       \* Bound[i]: the links message i goes out on
  Broadcasts,  \* messages to be broadcast that come from other nodes
  Filters,     \* whether links have filters
  Terms,       \* bound: SIGTERMs
  Deaths       \* bound: deaths of a router

Ids == {Id[m] : m \in Mesgs}
Links == UNION {Bound[i] : i \in Ids}
Flags == {"MESG_DUP", "RE_ROUTE", "DELIVERED"}

ASSUME RouterAssumption ==
  /\ Mesgs \subseteq Nat /\ IsFiniteSet(Mesgs)
  /\ Here \subseteq Ids /\ Broadcasts \subseteq Ids /\ "here" \notin Links
  /\ Filters \in BOOLEAN
  /\ Terms \in Nat /\ Deaths \in Nat

(* Where messages may go, and where message i should go. *)
AllPlaces == Links \cup {"here"}
Places(i) == Bound[i] \cup (IF i \in Here THEN {"here"} ELSE {})

VARIABLES
  router,    \* router[r]: where router r is, and its variables
  coming,    \* commands files yet to arrive
  queue,     \* those in the routing directory
  flags,     \* flags[m]: the flags_cmds in commands file m
  data,      \* the commands files whose data files are there
  lock,      \* lock[m]: the routers that have m locked
  known,     \* the message data-base: ids on disk
  bad,       \* the commands files copied to BADDIR
  given,     \* history: given[i][p]: how often message i went to place p, unmarked
  returned,  \* history: messages returned to their senders
  spoilt,    \* history: messages that were left in a way that may lose them
  died,      \* history: messages a router handled, or had yet to note, when it died
  terms, deaths

hist == <<given, returned, spoilt, died>>
files == <<coming, queue, flags, data, lock, bad>>
vars == <<router, files, known, hist, terms, deaths>>

-----------------------------------------------------------------------------
(* The variables of a router: the files it has listed, those it found       *)
(* locked, the commands file at hand (CmdsFile is NULL unless "cmds"), the  *)
(* flags read from it (CmdFlags), whether its data files are to be unlinked *)
(* (Cleanup), the links still to be served, and the ids it has added to the *)
(* data-base (MDB_flush), which is locked while it is open.                 *)
Fresh(at, fin) ==
  [pc |-> at, list |-> {}, locked |-> {}, did |-> TRUE, m |-> 0, cmds |-> FALSE,
   flags |-> {}, cleanup |-> FALSE, todo |-> {}, Finish |-> fin, exit |-> FALSE,
   open |-> FALSE, ids |-> {}]

At(r, pc) == router[r].pc = pc
Mesg(r) == router[r].m
HdrID(r) == Id[Mesg(r)]
Set(r, rec) == router' = [router EXCEPT ![r] = rec]
Goto(r, pc) == Set(r, [router[r] EXCEPT !.pc = pc])

Init ==
  /\ router = [r \in Routers |-> Fresh("list", FALSE)]
  /\ coming = Mesgs
  /\ queue = {} /\ data = {} /\ bad = {} /\ known = {}
  /\ flags = [m \in Mesgs |-> {}]
  /\ lock = [m \in Mesgs |-> {}]
  /\ given = [i \in Ids |-> [p \in AllPlaces |-> "no"]]
  /\ returned = {} /\ spoilt = {} /\ died = {}
  /\ terms = 0 /\ deaths = 0

(* Message i goes to place p, marked as a possible duplicate or not.       *)
Given(g, marked) ==
  IF marked THEN IF g \in {"no", "dropped"} THEN "marked" ELSE g
  ELSE IF g \in {"once", "twice"} THEN "twice" ELSE "once"

Give(i, p, marked) == given' = [given EXCEPT ![i][p] = Given(@, marked)]

Dropped(g) == IF g = "no" THEN "dropped" ELSE g

(* Wrong: no flags are added. *)
leave_cmdsUnflagged(r, add) ==
  /\ lock' = IF router[r].cmds THEN [lock EXCEPT ![Mesg(r)] = @ \ {r}] ELSE lock
  /\ UNCHANGED flags

(* leave_cmds: commands file CmdsFile stays where it is, with more flags,   *)
(* and neither it nor its data files are to be unlinked.                    *)
leave_cmds(r, add) ==
  /\ flags' = IF router[r].cmds THEN [flags EXCEPT ![Mesg(r)] = @ \cup add] ELSE flags
  /\ lock' = IF router[r].cmds THEN [lock EXCEPT ![Mesg(r)] = @ \ {r}] ELSE lock
Left(r) == [router[r] EXCEPT !.cmds = FALSE, !.cleanup = FALSE]

(* handlebad: a copy of the commands file goes to BADDIR, and the data      *)
(* files stay; unless the commands file is gone, or has been left.          *)
handlebad(r) ==
  /\ bad' = IF router[r].cmds /\ Mesg(r) \in queue THEN bad \cup {Mesg(r)} ELSE bad
  /\ lock' = IF router[r].cmds /\ Mesg(r) \notin queue
             THEN [lock EXCEPT ![Mesg(r)] = @ \ {r}] ELSE lock
Bad(r) ==
  IF ~router[r].cmds THEN router[r]
  ELSE IF Mesg(r) \in queue THEN [router[r] EXCEPT !.cleanup = FALSE]
  ELSE [router[r] EXCEPT !.cmds = FALSE]

(* Wrong: the data-base is not closed. *)
finishOpen(r) ==
  /\ Set(r, Fresh("down", FALSE))
  /\ UNCHANGED known

(* finish: the data-base is closed, and written. *)
finish(r) ==
  /\ Set(r, Fresh("down", FALSE))
  /\ known' = known \cup router[r].ids

-----------------------------------------------------------------------------
(* A commands file arrives, with its data files. *)
Arrive(m) ==
  /\ m \in coming
  /\ coming' = coming \ {m}
  /\ queue' = queue \cup {m} /\ data' = data \cup {m}
  /\ UNCHANGED <<router, flags, lock, known, bad, hist, terms, deaths>>

(* listbuild.  A file that was locked in the last pass and is still there   *)
(* is passed over in this one, and counts as locked again.                  *)
ListBuild(r) ==
  /\ At(r, "list")
  /\ Set(r, [router[r] EXCEPT !.pc = "scan", !.list = queue \ router[r].locked,
                              !.locked = @ \cap queue])
  /\ UNCHANGED <<files, known, hist, terms, deaths>>

(* End of a pass.  A router that found nothing to do closes the data-base   *)
(* and sleeps.                                                              *)
EndPass(r) ==
  LET x == router[r]
  IN  /\ At(r, "scan")
      /\ x.list = {} /\ ~x.Finish
      /\ Set(r, IF x.did THEN [x EXCEPT !.pc = "list", !.did = FALSE]
                ELSE [x EXCEPT !.pc = "list", !.open = FALSE, !.ids = {}])
      /\ known' = IF x.did THEN known ELSE known \cup x.ids
      /\ UNCHANGED <<files, hist, terms, deaths>>

Finished(r) ==
  /\ At(r, "scan") /\ router[r].Finish
  /\ finish(r)
  /\ UNCHANGED <<files, hist, terms, deaths>>

(* write_lock: open the next file ... *)
Open(r) ==
  /\ At(r, "scan") /\ ~router[r].Finish
  /\ \E m \in router[r].list :
       /\ \A k \in router[r].list : m <= k
       /\ Set(r, [router[r] EXCEPT !.list = @ \ {m}, !.m = m,
                                   !.pc = IF m \in queue THEN "open" ELSE "scan"])
  /\ UNCHANGED <<files, known, hist, terms, deaths>>

(* ... and lock it, or pass on to the next one.  Then its commands are read.*)
Locked(r) ==
  LET m == Mesg(r)
  IN  /\ At(r, "open")
      /\ lock[m] # {}
      /\ Set(r, [router[r] EXCEPT !.pc = "scan", !.locked = @ \cup {m}])
      /\ UNCHANGED <<files, known, hist, terms, deaths>>

(* Wrong: whether the lock was got is not looked at. *)
LockAnyway(r) ==
  LET m == Mesg(r)
  IN  /\ At(r, "open")
      /\ lock' = [lock EXCEPT ![m] = @ \cup {r}]
      /\ spoilt' = IF m \in queue THEN spoilt ELSE spoilt \cup {Id[m]}
      /\ Set(r, [router[r] EXCEPT !.pc = "route", !.did = TRUE, !.cmds = TRUE, !.cleanup = TRUE,
                                  !.flags = flags[m], !.todo = Bound[Id[m]]])
      /\ UNCHANGED <<coming, queue, flags, data, known, bad, given, returned, died, terms, deaths>>

Lock(r) ==
  LET m == Mesg(r)
  IN  /\ At(r, "open")
      /\ lock[m] = {}
      /\ lock' = [lock EXCEPT ![m] = {r}]
      /\ spoilt' = IF m \in queue THEN spoilt ELSE spoilt \cup {Id[m]}
      /\ Set(r, [router[r] EXCEPT !.pc = "route", !.did = TRUE, !.cmds = TRUE, !.cleanup = TRUE,
                                  !.flags = flags[m], !.todo = Bound[Id[m]]])
      /\ UNCHANGED <<coming, queue, flags, data, known, bad, given, returned, died, terms, deaths>>

-----------------------------------------------------------------------------
(* route: the filter of the link the message came by lets it pass, and its  *)
(* header is read, ...                                                      *)
NoHeader(r) == Mesg(r) \notin data
MustBeNew(r) == HdrID(r) \in Broadcasts /\ "RE_ROUTE" \notin router[r].flags

Accept(r) ==
  /\ At(r, "route")
  /\ ~(Filters /\ router[r].Finish) /\ ~NoHeader(r)
  /\ Goto(r, IF MustBeNew(r) THEN "lookup" ELSE "deliver")
  /\ UNCHANGED <<files, known, hist, terms, deaths>>

(* ... or drops it, or returns it, ... *)
FilterStops(r) ==
  /\ At(r, "route") /\ Filters
  /\ \/ /\ given' = [given EXCEPT ![HdrID(r)] = [p \in AllPlaces |-> Dropped(@[p])]]
        /\ UNCHANGED returned
     \/ /\ ~router[r].Finish /\ ~NoHeader(r)
        /\ returned' = returned \cup {HdrID(r)}
        /\ UNCHANGED given
  /\ Goto(r, "cleanup")
  /\ UNCHANGED <<files, known, spoilt, died, terms, deaths>>

(* ... or fails, as does the header.  A router that is to finish leaves a   *)
(* message that was not dropped.                                            *)
LeaveUnrouted(r) ==
  /\ At(r, "route") /\ Filters /\ router[r].Finish
  /\ leave_cmds(r, {})
  /\ Set(r, [Left(r) EXCEPT !.pc = "cleanup"])
  /\ UNCHANGED <<coming, queue, data, known, bad, hist, terms, deaths>>

RouteFails(r) ==
  /\ At(r, "route")
  /\ \/ Filters /\ ~router[r].Finish
     \/ NoHeader(r) /\ ~(Filters /\ router[r].Finish)
  /\ handlebad(r)
  /\ Set(r, [Bad(r) EXCEPT !.pc = "cleanup"])
  /\ UNCHANGED <<coming, queue, flags, data, known, hist, terms, deaths>>

(* LookupMsgsDB: a broadcast that has been here before is dropped; another  *)
(* is added to the buffer, which is written when the next page is read (or  *)
(* at the end).  The data-base is locked by one router at a time.           *)
Lookup(r) ==
  LET x == router[r]
      i == HdrID(r)
      new == i \notin known \cup x.ids
  IN  /\ At(r, "lookup")
      /\ \A q \in Routers : q # r => ~router[q].open
      /\ \E ids \in {x.ids, {}} :
            /\ known' = known \cup (x.ids \ ids)
            /\ Set(r, [x EXCEPT !.open = TRUE,
                                !.ids = IF new THEN ids \cup {i} ELSE ids,
                                !.pc = IF new THEN "deliver" ELSE "cleanup"])
      /\ UNCHANGED <<files, hist, terms, deaths>>

(* deliver, and what follows it in route: with nothing left to do the       *)
(* message is finished, and a router that is to finish leaves the links for *)
(* the next one.                                                            *)
Done(r) == router[r].todo = {}
Next_pc(r) == IF Done(r) THEN "cleanup" ELSE "rest"

NoDelivery(r) ==
  /\ At(r, "deliver")
  /\ HdrID(r) \notin Here \/ "DELIVERED" \in router[r].flags
  /\ Goto(r, Next_pc(r))
  /\ UNCHANGED <<files, known, hist, terms, deaths>>

Deliver(r) ==
  /\ At(r, "deliver")
  /\ HdrID(r) \in Here /\ "DELIVERED" \notin router[r].flags

Delivered(r) ==
  /\ Deliver(r)
  /\ Give(HdrID(r), "here", "MESG_DUP" \in router[r].flags)
  /\ Goto(r, Next_pc(r))
  /\ UNCHANGED <<files, known, returned, spoilt, died, terms, deaths>>

(* The handler fails, whatever it has done: it may have been ended by the   *)
(* same signal as the router.  Then the message is left for later; else it  *)
(* is returned to its sender, or if the fault is the system's, kept.        *)
HandlerFails(r) ==
  /\ Deliver(r)
  /\ \/ Give(HdrID(r), "here", "MESG_DUP" \in router[r].flags)
     \/ UNCHANGED given
  /\ \/ /\ router[r].Finish
        /\ leave_cmds(r, {"MESG_DUP"})
        /\ spoilt' = IF MustBeNew(r) THEN spoilt \cup {HdrID(r)} ELSE spoilt
        /\ Set(r, [Left(r) EXCEPT !.pc = "cleanup"])
        /\ UNCHANGED <<bad, returned>>
     \/ /\ ~router[r].Finish
        /\ returned' = returned \cup {HdrID(r)}
        /\ Goto(r, Next_pc(r))
        /\ UNCHANGED <<bad, flags, lock, spoilt>>
     \/ /\ ~router[r].Finish
        /\ handlebad(r)
        /\ Set(r, [Bad(r) EXCEPT !.pc = Next_pc(r)])
        /\ UNCHANGED <<flags, spoilt, returned>>
  /\ UNCHANGED <<coming, queue, data, known, died, terms, deaths>>

(* The links are left for the next router, ... *)
LeaveLinks(r) ==
  /\ At(r, "rest")
  /\ router[r].Finish
  /\ leave_cmds(r, {"RE_ROUTE", "DELIVERED"})
  /\ spoilt' = IF Mesg(r) \in bad THEN spoilt \cup {HdrID(r)} ELSE spoilt
  /\ Set(r, [Left(r) EXCEPT !.pc = "cleanup"])
  /\ UNCHANGED <<coming, queue, data, known, bad, given, returned, died, terms, deaths>>

(* ... or DoRoute calls spool for each of them. *)
DoRoute(r) ==
  /\ At(r, "rest")
  /\ ~router[r].Finish
  /\ Goto(r, "spool")
  /\ UNCHANGED <<files, known, hist, terms, deaths>>

(* spool: the commands file for the link's daemon is moved into its         *)
(* directory when everything it names is there.  (A holding directory, or a *)
(* special spooler, does as well.)                                          *)
Spooled(r, l) ==
  [router[r] EXCEPT !.todo = @ \ {l},
                    !.pc = IF router[r].todo = {l} THEN "cleanup" ELSE "spool"]

Spool(r, l) ==
  /\ At(r, "spool") /\ l \in router[r].todo
  /\ Give(HdrID(r), l, "MESG_DUP" \in router[r].flags)
  /\ Set(r, Spooled(r, l))
  /\ UNCHANGED <<files, known, returned, spoilt, died, terms, deaths>>

(* The filter of the link drops or returns the message, or fails: then      *)
(* everything is left for later, or the router gives up.                    *)
FilterOut(r, l) ==
  /\ At(r, "spool") /\ l \in router[r].todo /\ Filters
  /\ \/ /\ given' = [given EXCEPT ![HdrID(r)][l] = Dropped(@)]
        /\ Set(r, Spooled(r, l))
        /\ UNCHANGED <<bad, flags, lock, returned>>
     \/ /\ returned' = returned \cup {HdrID(r)}
        /\ Set(r, Spooled(r, l))
        /\ UNCHANGED <<bad, flags, lock, given>>
     \/ /\ router[r].Finish
        /\ leave_cmds(r, {"MESG_DUP", "RE_ROUTE"})
        /\ Set(r, [Spooled(r, l) EXCEPT !.cmds = FALSE, !.cleanup = FALSE])
        /\ UNCHANGED <<bad, given, returned>>
     \/ /\ ~router[r].Finish
        /\ handlebad(r)
        /\ Set(r, [Bad(r) EXCEPT !.pc = "cleanup", !.exit = TRUE])
        /\ UNCHANGED <<flags, given, returned>>
  /\ UNCHANGED <<coming, queue, data, known, spoilt, died, terms, deaths>>

-----------------------------------------------------------------------------
(* cleanup: the data files first, ... *)
UnlinkData(r) ==
  /\ At(r, "cleanup") /\ router[r].cleanup
  /\ data' = data \ {Mesg(r)}
  /\ Set(r, [router[r] EXCEPT !.cleanup = FALSE])
  /\ UNCHANGED <<coming, queue, flags, lock, bad, known, hist, terms, deaths>>

(* ... then the commands file, and the lock with it. *)
Cleared(r) ==
  [router[r] EXCEPT !.pc = "scan", !.m = 0, !.cmds = FALSE, !.flags = {}, !.todo = {}]

UnlinkCmds(r) ==
  LET x == router[r]
  IN  /\ At(r, "cleanup") /\ ~x.cleanup
      /\ queue' = IF x.cmds THEN queue \ {x.m} ELSE queue
      /\ lock' = IF x.cmds THEN [lock EXCEPT ![x.m] = @ \ {r}] ELSE lock
      /\ IF x.exit THEN finish(r) ELSE Set(r, Cleared(r)) /\ UNCHANGED known
      /\ UNCHANGED <<coming, flags, data, bad, hist, terms, deaths>>

-----------------------------------------------------------------------------
(* SIGTERM only sets Finish. *)
Term(r) ==
  /\ ~At(r, "down") /\ ~router[r].Finish
  /\ terms < Terms /\ terms' = terms + 1
  /\ Set(r, [router[r] EXCEPT !.Finish = TRUE])
  /\ UNCHANGED <<files, known, hist, deaths>>

Handling(r) == router[r].pc \notin {"down", "list", "scan", "open"}

(* A router dies; the system drops its locks. *)
Die(r) ==
  /\ ~At(r, "down")
  /\ deaths < Deaths /\ deaths' = deaths + 1
  /\ Set(r, Fresh("down", FALSE))
  /\ lock' = [m \in Mesgs |-> lock[m] \ {r}]
  /\ died' = died \cup router[r].ids \cup (IF Handling(r) THEN {HdrID(r)} ELSE {})
  /\ spoilt' = IF Handling(r) /\ ~At(r, "route") /\ MustBeNew(r)
               THEN spoilt \cup {HdrID(r)} ELSE spoilt
  /\ UNCHANGED <<coming, queue, flags, data, known, bad, given, returned, terms>>

(* The supervisor starts it again. *)
Start(r) ==
  /\ At(r, "down")
  /\ Set(r, Fresh("list", FALSE))
  /\ UNCHANGED <<files, known, hist, terms, deaths>>

Step(r) ==
  \/ ListBuild(r) \/ EndPass(r) \/ Finished(r) \/ Open(r) \/ Locked(r) \/ Lock(r)
  \/ Accept(r) \/ FilterStops(r) \/ LeaveUnrouted(r) \/ RouteFails(r) \/ Lookup(r)
  \/ NoDelivery(r) \/ Delivered(r) \/ HandlerFails(r)
  \/ LeaveLinks(r) \/ DoRoute(r) \/ (\E l \in Links : Spool(r, l) \/ FilterOut(r, l))
  \/ UnlinkData(r) \/ UnlinkCmds(r)

Next ==
  \/ \E m \in Mesgs : Arrive(m)
  \/ \E r \in Routers : Step(r) \/ Term(r) \/ Die(r) \/ Start(r)

Spec == Init /\ [][Next]_vars

-----------------------------------------------------------------------------
Marks == {"no", "once", "twice", "marked", "dropped"}

RouterVars ==
  [pc : {"down", "list", "scan", "open", "route", "lookup", "deliver", "rest", "spool", "cleanup"},
   list : SUBSET Mesgs, locked : SUBSET Mesgs, did : BOOLEAN, m : Mesgs \cup {0}, cmds : BOOLEAN,
   flags : SUBSET Flags, cleanup : BOOLEAN, todo : SUBSET Links, Finish : BOOLEAN, exit : BOOLEAN,
   open : BOOLEAN, ids : SUBSET Ids]

(* Types; and a router has a commands file at hand while it has it locked,  *)
(* alone.                                                                   *)
RouterTypeOK ==
  /\ router \in [Routers -> RouterVars]
  /\ \A r \in Routers :
        /\ ~(At(r, "down") \/ At(r, "list") \/ At(r, "scan")) => Mesg(r) \in Mesgs
        /\ Handling(r) => router[r].todo \subseteq Bound[HdrID(r)]
        /\ router[r].cmds => Handling(r) /\ lock[Mesg(r)] = {r}
  /\ coming \cup queue \cup data \cup bad \subseteq Mesgs
  /\ flags \in [Mesgs -> SUBSET Flags]
  /\ lock \in [Mesgs -> SUBSET Routers]
  /\ given \in [Ids -> [AllPlaces -> Marks]]
  /\ returned \cup spoilt \cup died \cup known \subseteq Ids

(* Whether message i is still to go to place p. *)
Awaits(i, p) ==
  \E m \in coming \cup (queue \cap data) :
      Id[m] = i /\ (p = "here" => "DELIVERED" \notin flags[m])

Kept(i) == \E m \in bad \cap data : Id[m] = i

Reached(i, p) == given[i][p] # "no" \/ Awaits(i, p) \/ i \in returned \/ Kept(i)

(* A message is in the routing directory until it has gone to every place   *)
(* it should go to, or was returned, or kept for inspection: the order of   *)
(* cleanup after route, and the flags of leave_cmds.  Excepted are          *)
(* broadcasts that were broken off after they were noted in the data-base,  *)
(* messages left after handlebad, and those that two routers opened.        *)
NothingLost ==
  \A i \in Ids \ spoilt : \A p \in Places(i) : Reached(i, p)

(* Of the copies that go to one place all but one are marked as possible    *)
(* duplicates (MESG_DUP, ``Message may be a duplicate''), unless the router *)
(* died; and of several copies of a broadcast one is routed.                *)
RepeatsMarked ==
  \A i \in Ids \ (spoilt \cup died) : \A p \in Places(i) : given[i][p] # "twice"
=============================================================================
