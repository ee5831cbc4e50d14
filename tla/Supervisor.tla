----------------------------- MODULE Supervisor -----------------------------
(***************************************************************************)
(* Init/RunProgs.c, NetMessage.c and Netinit.c: netinit starts the         *)
(* processes that initfile lists, one for each entry, starts them again    *)
(* when they end, and stops them; with commands, new initfiles, children   *)
(* whose end another part of netinit waited for, a clock that is set back, *)
(* and SIGTERM at any moment.                                              *)
(*                                                                         *)
(* Left out: time (a start is due or not), what the commands answer, the   *)
(* second netshutdown of a shutdown command and a SIGTERM during the first, *)
(* process numbers used again while they are still recorded, two entries   *)
(* of one name, and an initfile that changes twice in a second.            *)
(***************************************************************************)
EXTENDS Naturals, FiniteSets

CONSTANTS
  Entries,  \* the names of entries
  Type,     \* Type[e]: "RUNONCE", "RESTART" or "CRON"
  Foreign,  \* entries whose processes run under another uid: no signal reaches them
  Pids,     \* process numbers
  NOTRUNNING,
  MaxEvents \* bound: commands, new initfiles, steps back of the clock, lost ends, SIGTERM

Stati == {"REMOVE", "ENABLED", "DISABLED", "TERMINATE", "KILL"}

ASSUME SupervisorAssumption ==
  /\ Type \in [Entries -> {"RUNONCE", "RESTART", "CRON"}]
  /\ Foreign \subseteq Entries /\ IsFiniteSet(Entries)
  /\ Pids \subseteq Nat
  /\ NOTRUNNING \notin Pids /\ NOTRUNNING \notin Entries
  /\ MaxEvents \in Nat

VARIABLES
  pc,          \* where netinit is
  initfile,    \* the entries in initfile
  changed,     \* whether it is newer than ScanDate
  netsignal,   \* whether SIGWAKEUP came
  Procs,       \* the entries in the table
  OldProcs,    \* those that were in it, while initfile is scanned
  status, pid, check,  \* the fields of an entry
  ProgsActive,
  todo,        \* entries still to come in the loop over the table
  forked,      \* the process fork() has returned, before it is recorded
  reaped,      \* what wait() returned, to RunProgs and to netshutdown
  loops, count, active,  \* the variables of netshutdown
  resume,      \* where netinit goes on after netshutdown, or "none"
  proc,        \* proc[p]: whether process p is "alive", a "zombie", or there is "none"
  of,          \* of[p]: the entry p was started for
  caught,      \* history: SIGTERM came when netinit did not know its children
  events       \* how many of these there were

table == <<Procs, OldProcs, status, pid, check, ProgsActive>>
shutdown == <<loops, count, active>>
system == <<proc, of>>
outside == <<initfile, changed, netsignal, events>>
vars == <<pc, outside, table, todo, forked, reaped, shutdown, resume, system, caught>>

Running(e) == pid[e] # NOTRUNNING
Exists(p) == proc[p] # "none"
Children == {p \in Pids : Exists(p)}
Zombies == {p \in Pids : proc[p] = "zombie"}

(* The number of a new process: one that no process has and netinit does    *)
(* not remember.  Numbers have no meaning, so it is the least.              *)
Free(p) == /\ ~Exists(p) /\ p # forked
           /\ \A e \in Entries : pid[e] # p
           /\ reaped.RunProgs # p /\ reaped.netshutdown # p
New(p) == Free(p) /\ \A q \in Pids : Free(q) => p <= q

Event == events < MaxEvents /\ events' = events + 1

(* The processes after SIGKILL to those of entries S. *)
Killed(S) == [p \in Pids |-> IF Exists(p) /\ \E e \in S \ Foreign : pid[e] = p
                             THEN "zombie" ELSE proc[p]]

Restarted == {e \in Entries : Type[e] = "RESTART"}

(* mkproc *)
NewStatus(e) == IF Type[e] = "RESTART" THEN "ENABLED" ELSE "DISABLED"

Init ==
  /\ pc = "top"
  /\ initfile \in SUBSET Entries \ {{}} /\ changed = FALSE /\ netsignal = FALSE
  /\ Procs = initfile /\ OldProcs = {}
  /\ status = [e \in Entries |-> NewStatus(e)]
  /\ pid = [e \in Entries |-> NOTRUNNING]
  /\ check = [e \in Entries |-> 0]
  /\ ProgsActive = 0
  /\ todo = {} /\ forked = NOTRUNNING
  /\ reaped = [RunProgs |-> NOTRUNNING, netshutdown |-> NOTRUNNING]
  /\ loops = 0 /\ count = 0 /\ active = 0 /\ resume = "none"
  /\ proc = [p \in Pids |-> "none"] /\ of = [p \in Pids |-> NOTRUNNING]
  /\ caught = FALSE
  /\ events = 0

-----------------------------------------------------------------------------
(* The top of the loop: is initfile newer? *)
Top ==
  /\ pc = "top"
  /\ pc' = IF changed THEN "parse" ELSE "signal"
  /\ OldProcs' = IF changed THEN Procs ELSE OldProcs
  /\ Procs' = IF changed THEN {} ELSE Procs
  /\ UNCHANGED <<outside, status, pid, check, ProgsActive, todo, forked, reaped, shutdown,
                 resume, system, caught>>

(* Wrong: the process of an entry found again is forgotten.                 *)
doscanForgets ==
  LET removed == OldProcs \ initfile
  IN  /\ pc = "parse"
      /\ pc' = "signal"
      /\ changed' = FALSE
      /\ Procs' = initfile \cup OldProcs
      /\ OldProcs' = {}
      /\ status' = [e \in Entries |-> IF e \in removed THEN "REMOVE" ELSE status[e]]
      /\ pid' = [e \in Entries |-> IF e \in removed THEN pid[e] ELSE NOTRUNNING]
      /\ proc' = Killed(removed)
      /\ UNCHANGED <<initfile, netsignal, events, check, ProgsActive, todo, forked, reaped,
                     shutdown, resume, of, caught>>

(* doscan, after parse: the entries found again keep what was known of them *)
(* (even that they are to be removed); the others are killed, and stay      *)
(* until they have ended.                                                   *)
doscan ==
  LET removed == OldProcs \ initfile
  IN  /\ pc = "parse"
      /\ pc' = "signal"
      /\ changed' = FALSE
      /\ Procs' = initfile \cup OldProcs
      /\ OldProcs' = {}
      /\ status' = [e \in Entries |-> IF e \in removed THEN "REMOVE" ELSE status[e]]
      /\ proc' = Killed(removed)
      /\ UNCHANGED <<initfile, netsignal, events, pid, check, ProgsActive, todo, forked, reaped,
                     shutdown, resume, of, caught>>

(* NetMessage: a child answers (of several, one is followed), and perform   *)
(* changes the entries that match.                                          *)
Answers ==
  IF \E p \in Children : of[p] = NOTRUNNING THEN UNCHANGED system
  ELSE \E p \in Pids :
          /\ New(p)
          /\ proc' = [proc EXCEPT ![p] = "alive"]
          /\ of' = [of EXCEPT ![p] = NOTRUNNING]

ChangeStatus ==
  /\ pc = "signal" /\ netsignal
  /\ pc' = "top" /\ netsignal' = FALSE
  /\ \E S \in SUBSET Procs, s \in {"TERMINATE", "KILL", "DISABLED", "ENABLED"} :
        status' = [e \in Entries |-> IF e \in S THEN s ELSE status[e]]
  /\ Answers
  /\ UNCHANGED <<initfile, changed, events, Procs, OldProcs, pid, check, ProgsActive, todo, forked,
                 reaped, shutdown, resume, caught>>

Scan ==
  /\ pc = "signal" /\ netsignal
  /\ pc' = "parse" /\ netsignal' = FALSE
  /\ OldProcs' = Procs /\ Procs' = {}
  /\ Answers
  /\ UNCHANGED <<initfile, changed, events, status, pid, check, ProgsActive, todo, forked, reaped,
                 shutdown, resume, caught>>

(* netshutdown is called, to go on at s afterwards. *)
Shutdown(s) == pc' = "kill" /\ loops' = 3 /\ resume' = s /\ UNCHANGED <<count, active>>

ShutdownCommand ==
  /\ pc = "signal" /\ netsignal
  /\ netsignal' = FALSE
  /\ Shutdown("off")
  /\ UNCHANGED <<initfile, changed, events, table, todo, forked, reaped, system, caught>>

-----------------------------------------------------------------------------
(* The loop over the table, in an order that is always the same.           *)
First(S) == CHOOSE e \in S : TRUE

Begin ==
  /\ pc = "signal" /\ ~netsignal
  /\ pc' = "scan" /\ todo' = Procs
  /\ UNCHANGED <<outside, table, forked, reaped, shutdown, resume, system, caught>>

Visit(e) == pc = "scan" /\ todo # {} /\ e = First(todo) /\ todo' = todo \ {e}

(* Not due, or no more are to be started in this loop (a command has come,  *)
(* or the time for another look at what is due).                            *)
Skip(e) ==
  /\ Visit(e) /\ ~Running(e)
  /\ UNCHANGED <<pc, outside, table, forked, reaped, shutdown, resume, system, caught>>

Remove(e) ==
  /\ Visit(e) /\ ~Running(e) /\ ~netsignal /\ status[e] = "REMOVE"
  /\ Procs' = Procs \ {e}
  /\ status' = [status EXCEPT ![e] = NewStatus(e)]
  /\ check' = [check EXCEPT ![e] = 0]
  /\ UNCHANGED <<pc, outside, OldProcs, pid, ProgsActive, forked, reaped, shutdown, resume,
                 system, caught>>

Disable(e) ==
  /\ Visit(e) /\ ~Running(e) /\ ~netsignal /\ status[e] \in {"KILL", "TERMINATE"}
  /\ status' = [status EXCEPT ![e] = "DISABLED"]
  /\ UNCHANGED <<pc, outside, Procs, OldProcs, pid, check, ProgsActive, forked, reaped,
                 shutdown, resume, system, caught>>

(* Run1Prog, up to fork().  A CRON entry is started though it is DISABLED.  *)
Fork(e) ==
  /\ Visit(e) /\ ~Running(e) /\ ~netsignal
  /\ status[e] = "ENABLED" \/ (status[e] = "DISABLED" /\ Type[e] = "CRON")
  /\ \E p \in Pids :
        /\ New(p)
        /\ forked' = p
        /\ proc' = [proc EXCEPT ![p] = "alive"]
        /\ of' = [of EXCEPT ![p] = e]
  /\ pc' = "fork"
  /\ UNCHANGED <<outside, table, reaped, shutdown, resume, caught>>

(* ... and the rest. *)
Record ==
  LET e == of[forked]
  IN  /\ pc = "fork"
      /\ pc' = "scan"
      /\ pid' = [pid EXCEPT ![e] = forked]
      /\ forked' = NOTRUNNING
      /\ status' = [status EXCEPT ![e] = IF Type[e] = "RESTART" THEN @ ELSE "DISABLED"]
      /\ check' = [check EXCEPT ![e] = 0]
      /\ ProgsActive' = ProgsActive + 1
      /\ UNCHANGED <<outside, Procs, OldProcs, todo, reaped, shutdown, resume, system, caught>>

(* An entry that is to stop and runs gets a signal, once. *)
Stop(e) ==
  /\ Visit(e) /\ Running(e) /\ status[e] \in {"TERMINATE", "KILL"}
  /\ status' = [status EXCEPT ![e] = "DISABLED"]
  /\ check' = [check EXCEPT ![e] = IF Exists(pid[e]) THEN @ ELSE 1]
  /\ proc' = IF status[e] = "KILL" THEN Killed({e}) ELSE proc
  /\ UNCHANGED <<pc, outside, Procs, OldProcs, pid, ProgsActive, forked, reaped, shutdown,
                 resume, of, caught>>

(* Other entries that run are looked for; exhumepp gives up one that was    *)
(* gone before and when a wait was interrupted since.                       *)
Watch(e) ==
  /\ Visit(e) /\ Running(e) /\ status[e] \notin {"TERMINATE", "KILL"}
  /\ IF Exists(pid[e]) THEN UNCHANGED <<pid, check>>
     ELSE IF check[e] = 2 THEN pid' = [pid EXCEPT ![e] = NOTRUNNING] /\ UNCHANGED check
     ELSE check' = [check EXCEPT ![e] = 1] /\ UNCHANGED pid
  /\ UNCHANGED <<pc, outside, Procs, OldProcs, status, ProgsActive, forked, reaped, shutdown,
                 resume, system, caught>>

End ==
  /\ pc = "scan" /\ todo = {}
  /\ pc' = IF netsignal THEN "top" ELSE "wait"
  /\ UNCHANGED <<outside, table, todo, forked, reaped, shutdown, resume, system, caught>>

-----------------------------------------------------------------------------
(* wait(2), of RunProgs or of netshutdown, returns a child that has ended,  *)
(* or reports that there is none.  RunProgs pauses if ProgsActive is 0.     *)
Caller == IF resume = "none" THEN "RunProgs" ELSE "netshutdown"
Waits == (pc = "wait" /\ ProgsActive # 0) \/ (pc = "down" /\ count > 0)

Reap(p) ==
  /\ Waits /\ p \in Zombies
  /\ proc' = [proc EXCEPT ![p] = "none"]
  /\ of' = [of EXCEPT ![p] = NOTRUNNING]
  /\ reaped' = [reaped EXCEPT ![Caller] = p]
  /\ pc' = "inter"
  /\ UNCHANGED <<outside, table, todo, forked, shutdown, resume, caught>>

(* Wrong: entries that were gone are looked for in vain for ever.           *)
InterruptOnly ==
  /\ pc = "wait"
  /\ ProgsActive = 0 \/ (Children # {} /\ Zombies = {})
  /\ pc' = "top"
  /\ UNCHANGED <<outside, table, todo, forked, reaped, shutdown, resume, system, caught>>

(* pause or wait is interrupted, by the alarm or a signal: an entry that    *)
(* was gone and has not been heard of is given up at the next look.         *)
Interrupt ==
  /\ pc = "wait"
  /\ ProgsActive = 0 \/ (Children # {} /\ Zombies = {})
  /\ pc' = "top"
  /\ check' = [e \in Entries |-> IF e \in Procs /\ check[e] = 1 THEN 2 ELSE check[e]]
  /\ UNCHANGED <<outside, Procs, OldProcs, status, pid, ProgsActive, todo, forked, reaped,
                 shutdown, resume, system, caught>>

NoChild ==
  /\ pc = "wait" /\ ProgsActive # 0 /\ Children = {}
  /\ pc' = "exhume"
  /\ UNCHANGED <<outside, table, todo, forked, reaped, shutdown, resume, system, caught>>

(* exhume: the entries whose process is there are killed and counted, the   *)
(* others are given up.                                                     *)
exhume ==
  LET there == {e \in Procs : Running(e) /\ Exists(pid[e])}
      lost == {e \in Procs : Running(e) /\ ~Exists(pid[e])}
  IN  /\ ProgsActive' = Cardinality(there)
      /\ pid' = [e \in Entries |-> IF e \in lost THEN NOTRUNNING ELSE pid[e]]
      /\ check' = [e \in Entries |-> IF e \in there THEN 0 ELSE check[e]]
      /\ proc' = Killed(there)

Exhume ==
  /\ pc = "exhume"
  /\ pc' = "top"
  /\ exhume
  /\ UNCHANGED <<outside, Procs, OldProcs, status, todo, forked, reaped, shutdown, resume, of,
                 caught>>

(* Whose end is it? *)
Found(e) == e \in Procs /\ Running(e) /\ pid[e] = reaped[Caller]
AnyFound == \E e \in Procs : Found(e)

(* Wrong: every child that ends counts as one of those that were killed.    *)
ForgetAny ==
  /\ pc' = IF resume = "none" THEN "top" ELSE "down"
  /\ pid' = [e \in Entries |-> IF Found(e) THEN NOTRUNNING ELSE pid[e]]
  /\ reaped' = [reaped EXCEPT ![Caller] = NOTRUNNING]
  /\ count' = IF resume # "none" THEN count - 1 ELSE count
  /\ active' = IF resume # "none" THEN active - 1 ELSE active

(* inter.  A child that left a core is reported by mail before its number   *)
(* is forgotten.                                                            *)
Forget ==
  /\ pc' = IF resume = "none" THEN "top" ELSE "down"
  /\ pid' = [e \in Entries |-> IF Found(e) THEN NOTRUNNING ELSE pid[e]]
  /\ reaped' = [reaped EXCEPT ![Caller] = NOTRUNNING]
  /\ count' = IF resume # "none" /\ AnyFound THEN count - 1 ELSE count
  /\ active' = IF resume # "none" /\ AnyFound THEN active - 1 ELSE active

(* Wrong: a child that is not in the table is counted as well. *)
InterAny ==
  /\ pc = "inter"
  /\ ProgsActive' = IF ProgsActive > 0 THEN ProgsActive - 1 ELSE 0
  /\ \/ Forget
     \/ pc' = "mail" /\ UNCHANGED <<pid, reaped, count, active>>
  /\ UNCHANGED <<outside, Procs, OldProcs, status, check, todo, forked, loops, resume, system,
                 caught>>

Inter ==
  /\ pc = "inter"
  /\ ProgsActive' = IF AnyFound THEN ProgsActive - 1 ELSE ProgsActive
  /\ \/ Forget
     \/ pc' = "mail" /\ UNCHANGED <<pid, reaped, count, active>>
  /\ UNCHANGED <<outside, Procs, OldProcs, status, check, todo, forked, loops, resume, system,
                 caught>>

(* Other children may end before the mail program does: ExClose             *)
(* (Lib/Execute.c) waits for that and throws away what it learns of others. *)
(* newtime sends mail as well before it shuts down.                         *)
Lose(p) ==
  /\ Event
  /\ pc = "mail" \/ (pc = "kill" /\ loops = 3 /\ resume # "off")
  /\ p \in Zombies
  /\ proc' = [proc EXCEPT ![p] = "none"]
  /\ of' = [of EXCEPT ![p] = NOTRUNNING]
  /\ UNCHANGED <<pc, initfile, changed, netsignal, table, todo, forked, reaped, shutdown, resume,
                 caught>>

Mailed ==
  /\ pc = "mail"
  /\ Forget
  /\ UNCHANGED <<outside, Procs, OldProcs, status, check, ProgsActive, todo, forked, loops,
                 resume, system, caught>>

-----------------------------------------------------------------------------
(* netshutdown: the processes are sent SIGTERM, twice, and then SIGKILL, ... *)
Known == {e \in Procs : Running(e)}

(* Wrong: never with SIGKILL. *)
KillGently ==
  /\ pc = "kill"
  /\ pc' = "down"
  /\ loops' = loops - 1
  /\ count' = Cardinality(Known)
  /\ active' = Cardinality({e \in Known : Exists(pid[e])})
  /\ UNCHANGED <<outside, table, todo, forked, reaped, resume, system, caught>>

KillAll ==
  /\ pc = "kill"
  /\ pc' = "down"
  /\ loops' = loops - 1
  /\ count' = Cardinality(Known)
  /\ active' = Cardinality({e \in Known : Exists(pid[e])})
  /\ proc' = IF loops' = 0 THEN Killed(Known) ELSE proc
  /\ UNCHANGED <<outside, table, todo, forked, reaped, resume, of, caught>>

(* ... until all have ended, or none has for 10 seconds. *)
Timeout ==
  /\ pc = "down" /\ count > 0
  /\ Children # {} /\ Zombies = {}
  /\ pc' = IF loops > 0 THEN "kill" ELSE "downed"
  /\ UNCHANGED <<outside, table, todo, forked, reaped, shutdown, resume, system, caught>>

AllDown ==
  /\ pc = "down"
  /\ count = 0 \/ Children = {}
  /\ pc' = "downed"
  /\ count' = 0
  /\ active' = IF count = 0 THEN active ELSE 0
  /\ UNCHANGED <<outside, table, todo, forked, reaped, loops, resume, system, caught>>

Downed ==
  /\ pc = "downed"
  /\ IF active > 0 THEN UNCHANGED <<ProgsActive, pid, check, proc>> ELSE exhume
  /\ pc' = resume
  /\ resume' = IF resume = "off" THEN "off" ELSE "none"
  /\ netsignal' = FALSE
  /\ UNCHANGED <<initfile, changed, events, Procs, OldProcs, status, todo, forked, reaped, shutdown,
                 of, caught>>

-----------------------------------------------------------------------------
(* What happens around netinit. *)
Die(p) ==
  /\ pc # "off"
  /\ proc[p] = "alive"
  /\ proc' = [proc EXCEPT ![p] = "zombie"]
  /\ UNCHANGED <<pc, outside, table, todo, forked, reaped, shutdown, resume, of, caught>>

Edit ==
  /\ resume # "off"
  /\ Event
  /\ \E S \in SUBSET Entries : S # initfile /\ initfile' = S
  /\ changed' = TRUE
  /\ UNCHANGED <<pc, netsignal, table, todo, forked, reaped, shutdown, resume, system, caught>>

(* SIGWAKEUP; it is ignored while netinit shuts down.                       *)
NetSig ==
  /\ resume = "none"
  /\ Event
  /\ ~netsignal
  /\ netsignal' = TRUE
  /\ UNCHANGED <<pc, initfile, changed, table, todo, forked, reaped, shutdown, resume, system,
                 caught>>

(* newtime: the clock was set back; it is called before these steps.        *)
TimeBack ==
  /\ Event
  /\ pc \in {"signal", "wait", "inter", "exhume"} /\ resume = "none"
  /\ Shutdown(pc)
  /\ UNCHANGED <<initfile, changed, netsignal, table, todo, forked, reaped, system, caught>>

(* termin: SIGTERM, at any step; netinit does not come back to it.          *)
termin ==
  /\ Event
  /\ resume # "off"
  /\ Shutdown("off")
  /\ todo' = {}
  /\ caught' = (pc \in {"fork", "parse"})
  /\ UNCHANGED <<initfile, changed, netsignal, table, forked, reaped, system>>

RunProgs ==
  \/ Top \/ doscan \/ ChangeStatus \/ Scan \/ ShutdownCommand \/ Begin \/ Record \/ End
  \/ \E e \in Entries : Skip(e) \/ Remove(e) \/ Disable(e) \/ Fork(e) \/ Stop(e) \/ Watch(e)
  \/ Interrupt \/ NoChild \/ Exhume \/ Inter \/ Mailed
  \/ \E p \in Pids : Reap(p) \/ Lose(p)

netshutdown == KillAll \/ Timeout \/ AllDown \/ Downed

Next ==
  \/ RunProgs \/ netshutdown
  \/ \E p \in Pids : Die(p)
  \/ Edit \/ NetSig \/ TimeBack \/ termin

Spec == Init /\ [][Next]_vars

(* netinit goes on, its alarm goes off, and wait returns every child that   *)
(* has ended; a start becomes due, and is at times not due, for MINDELAY or *)
(* CRONDELAY lie between two starts of an entry.                            *)
FairSpec ==
  /\ Spec
  /\ WF_vars(RunProgs) /\ WF_vars(netshutdown)
  /\ SF_vars(Interrupt)
  /\ \A e \in Restarted : SF_vars(Fork(e))
  /\ \A e \in Entries \ Restarted : SF_vars(Skip(e))
  /\ \A p \in Pids : SF_vars(Reap(p))

-----------------------------------------------------------------------------
Places == {"top", "parse", "signal", "scan", "fork", "wait", "exhume", "inter", "mail",
           "kill", "down", "downed", "off"}

FlagsOK == changed \in BOOLEAN /\ netsignal \in BOOLEAN /\ caught \in BOOLEAN

(* Types of the variables; the counters do not go below 0. *)
SupervisorTypeOK ==
  /\ pc \in Places /\ resume \in {"none", "signal", "wait", "inter", "exhume", "off"}
  /\ initfile \subseteq Entries /\ Procs \subseteq Entries /\ OldProcs \subseteq Entries
  /\ todo \subseteq Entries
  /\ status \in [Entries -> Stati]
  /\ pid \in [Entries -> Pids \cup {NOTRUNNING}]
  /\ check \in [Entries -> 0 .. 2]
  /\ ProgsActive \in Nat /\ count \in Nat /\ active \in Nat /\ loops \in 0 .. 3
  /\ forked \in Pids \cup {NOTRUNNING}
  /\ reaped \in [RunProgs : Pids \cup {NOTRUNNING}, netshutdown : Pids \cup {NOTRUNNING}]
  /\ proc \in [Pids -> {"none", "alive", "zombie"}]
  /\ of \in [Pids -> Entries \cup {NOTRUNNING}]
  /\ FlagsOK
  /\ events \in Nat

(* Of no entry do two copies run: a child is forgotten only when it has     *)
(* ended, whatever is rescanned, commanded, thrown away by another wait or  *)
(* signalled in the meantime.                                               *)
OneCopy ==
  \A p, q \in Pids :
      proc[p] = "alive" /\ proc[q] = "alive" /\ of[p] = of[q] /\ of[p] # NOTRUNNING => p = q

(* ProgsActive = 0 makes netinit pause() where it should wait(2): then no   *)
(* entry has a process whose end it would miss.                             *)
NeverPausesInVain ==
  pc = "wait" /\ ProgsActive = 0 => \A e \in Procs : ~Running(e)

(* netinit leaves none of its processes behind that it can signal.          *)
(* Excepted is a SIGTERM that comes between fork() and the assignment of    *)
(* its result, or while doscan has the table in a local variable.           *)
NoneLeft ==
  pc = "off" /\ ~caught =>
      \A p \in Pids : proc[p] = "alive" => of[p] \in Foreign \cup {NOTRUNNING}

Wanted(e) == e \in Procs /\ status[e] = "ENABLED" /\ ~netsignal /\ resume = "none"
Alive(e) == \E p \in Pids : proc[p] = "alive" /\ of[p] = e

(* A RESTART entry that is enabled is started again whenever it has ended,  *)
(* even when another wait(2) took the news of its end.                      *)
StartsAgain == \A e \in Restarted : <>[]Wanted(e) => []<>Alive(e)
=============================================================================
