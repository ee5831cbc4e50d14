------------------------- MODULE Supervisor_proofs -------------------------
(***************************************************************************)
(* For any number of entries and of processes: the counters of netinit do  *)
(* not go below 0, no entry has two live copies, netinit pauses only when  *)
(* it has no process to wait for, and when it ends it leaves none running. *)
(*                                                                         *)
(* The invariant says which process numbers are recorded (Held), that a    *)
(* number once reported by wait(2) is not in use (ReapedIsGone), and bounds *)
(* ProgsActive and active from below by the number of entries whose end is *)
(* still to be counted (Uncounted, Undead).                                *)
(***************************************************************************)
EXTENDS Supervisor, TLAPS, FiniteSetTheorems

(* Where RunProgs and netshutdown can be, with what was handed to them. *)
Flow ==
  /\ pc \in {"top", "parse", "signal", "scan", "fork", "wait", "exhume"} => resume = "none"
  /\ pc \in {"kill", "down", "downed"} => resume # "none"
  /\ pc = "off" => resume = "off"
  /\ pc = "kill" => loops > 0
  /\ pc \in {"inter", "mail"} /\ resume # "none" => count > 0
  /\ pc = "parse" => Procs = {}
  /\ pc # "parse" /\ resume # "off" => OldProcs = {}
  /\ pc \in {"scan", "fork"} => todo \subseteq Procs

(* Only entries of the table have processes. *)
InTable == \A e \in Entries : e \notin Procs \cup OldProcs => ~Running(e)

(* The process between fork() and its being recorded. *)
ForkIsOpen ==
  /\ forked # NOTRUNNING => pc = "fork" \/ resume = "off"
  /\ pc = "fork" => /\ forked \in Pids
                    /\ of[forked] \in Procs
                    /\ ~Running(of[forked])

(* A process of an entry is recorded there, or was just forked. *)
Held ==
  \A p \in Pids : Exists(p) /\ of[p] # NOTRUNNING =>
      pid[of[p]] = p \/ (forked = p /\ ~Running(of[p]))

(* What wait(2) has returned is gone. *)
ReapedIsGone ==
  \A c \in {"RunProgs", "netshutdown"} : reaped[c] \in Pids => ~Exists(reaped[c])

(* The entries that are yet to be subtracted from ProgsActive. *)
Table == IF pc = "parse" THEN OldProcs ELSE Procs
Uncounted ==
  {e \in Table : Running(e) /\
     IF resume = "off" THEN Exists(pid[e]) \/ (pc = "inter" /\ pid[e] = reaped.netshutdown)
     ELSE pc = "mail" => pid[e] # reaped[Caller]}
ActiveIsEnough == ProgsActive >= Cardinality(Uncounted)

(* The entries that are yet to be subtracted from active. *)
Undead ==
  {e \in Procs : Running(e) /\
     (Exists(pid[e]) \/ (pc \in {"inter", "mail"} /\ pid[e] = reaped.netshutdown))}
UndeadAreActive ==
  pc \in {"down", "inter", "mail"} /\ resume # "none" => active >= Cardinality(Undead)

IInv ==
  /\ SupervisorTypeOK /\ Flow /\ InTable /\ ForkIsOpen /\ Held /\ ReapedIsGone
  /\ ActiveIsEnough /\ UndeadAreActive

-----------------------------------------------------------------------------
(* Sets of entries are finite, and their cardinality grows with them. *)
LEMMA EntrySets ==
  ASSUME NEW S, NEW T \in SUBSET Entries, S \subseteq T
  PROVE  /\ IsFiniteSet(S) /\ IsFiniteSet(T)
         /\ Cardinality(S) \in Nat /\ Cardinality(T) \in Nat
         /\ Cardinality(S) <= Cardinality(T)
<1>1. IsFiniteSet(T)
  BY FS_Subset, SupervisorAssumption DEF SupervisorAssumption
<1> QED
  BY <1>1, FS_Subset, FS_CardinalityType

(* A set without one of its elements is smaller. *)
LEMMA EntryTaken ==
  ASSUME NEW T \in SUBSET Entries, NEW x \in T
  PROVE  /\ Cardinality(T) \in Nat /\ Cardinality(T \ {x}) \in Nat
         /\ Cardinality(T \ {x}) = Cardinality(T) - 1
         /\ Cardinality(T) >= 1
<1>1. IsFiniteSet(T) /\ IsFiniteSet(T \ {x})
  BY EntrySets
<1>2. Cardinality(T \ {x}) = Cardinality(T) - 1
  BY <1>1, FS_RemoveElement
<1>3. Cardinality(T) \in Nat /\ Cardinality(T \ {x}) \in Nat
  BY <1>1, FS_CardinalityType
<1> QED
  BY <1>2, <1>3

(* A child that wait(2) returned and that is in the table is still counted. *)
LEMMA FoundIsCounted ==
  ASSUME IInv, pc = "inter", AnyFound
  PROVE  ProgsActive >= 1
<1>1. PICK e \in Procs : Found(e)
  BY DEF AnyFound
<1>2. e \in Uncounted
  BY <1>1 DEF IInv, Uncounted, Table, Found, Caller, Running
<1>3. Uncounted \in SUBSET Entries
  BY DEF IInv, SupervisorTypeOK, Uncounted, Table
<1>4. Cardinality(Uncounted) \in Nat /\ Cardinality(Uncounted) >= 1
  BY <1>2, <1>3, EntryTaken
<1>5. ProgsActive \in Nat /\ ProgsActive >= Cardinality(Uncounted)
  BY DEF IInv, ActiveIsEnough, SupervisorTypeOK
<1> QED
  BY <1>4, <1>5

(* ... and in a shutdown it counts as active. *)
LEMMA FoundIsActive ==
  ASSUME IInv, pc \in {"inter", "mail"}, resume # "none", AnyFound
  PROVE  active >= 1
<1>1. PICK e \in Procs : Found(e)
  BY DEF AnyFound
<1>2. e \in Undead
  BY <1>1 DEF IInv, Undead, Found, Caller, Running
<1>3. Undead \in SUBSET Entries
  BY DEF IInv, SupervisorTypeOK, Undead
<1>4. Cardinality(Undead) \in Nat /\ Cardinality(Undead) >= 1
  BY <1>2, <1>3, EntryTaken
<1>5. active \in Nat /\ active >= Cardinality(Undead)
  BY DEF IInv, UndeadAreActive, SupervisorTypeOK
<1> QED
  BY <1>4, <1>5

(* The helpers leave the types alone. *)
LEMMA KilledType ==
  ASSUME SupervisorTypeOK, NEW S
  PROVE  /\ Killed(S) \in [Pids -> {"none", "alive", "zombie"}]
         /\ \A p \in Pids : Killed(S)[p] # "none" <=> Exists(p)
BY DEF Killed, SupervisorTypeOK, Exists

-----------------------------------------------------------------------------
(* The initial states. *)
LEMMA InitIInv == Init => IInv
<1> SUFFICES ASSUME Init PROVE IInv
  OBVIOUS
<1>1. SupervisorTypeOK
  <2>1. status \in [Entries -> Stati]
    BY DEF Init, NewStatus, Stati
  <2>2. /\ pid \in [Entries -> Pids \cup {NOTRUNNING}]
        /\ check \in [Entries -> 0 .. 2]
        /\ proc \in [Pids -> {"none", "alive", "zombie"}]
        /\ of \in [Pids -> Entries \cup {NOTRUNNING}]
    BY DEF Init
  <2>3. reaped \in [RunProgs : Pids \cup {NOTRUNNING}, netshutdown : Pids \cup {NOTRUNNING}]
    BY DEF Init
  <2>4. /\ pc \in Places /\ resume \in {"none", "signal", "wait", "inter", "exhume", "off"}
        /\ initfile \subseteq Entries /\ Procs \subseteq Entries /\ OldProcs \subseteq Entries
        /\ todo \subseteq Entries /\ forked \in Pids \cup {NOTRUNNING}
    BY DEF Init, Places
  <2>5. /\ ProgsActive \in Nat /\ count \in Nat /\ active \in Nat /\ loops \in 0 .. 3
        /\ events \in Nat
    BY DEF Init
  <2>6. FlagsOK
    BY DEF Init, FlagsOK
  <2> QED
    BY <2>1, <2>2, <2>3, <2>4, <2>5, <2>6 DEF SupervisorTypeOK
<1>2. Flow /\ InTable /\ ForkIsOpen
  BY DEF Init, Flow, InTable, ForkIsOpen, Running
<1>3. Held /\ ReapedIsGone
  BY SupervisorAssumption DEF Init, Held, ReapedIsGone, Exists, SupervisorAssumption
<1>4. Uncounted = {}
  BY DEF Init, Uncounted, Table, Running
<1>5. ActiveIsEnough /\ UndeadAreActive
  BY <1>4, FS_EmptySet DEF Init, ActiveIsEnough, UndeadAreActive
<1> QED
  BY <1>1, <1>2, <1>3, <1>5 DEF IInv

(* A step leaves the flags alone, sets or clears them. *)
LEMMA FlagsStep == FlagsOK /\ Next => FlagsOK'
<1> SUFFICES ASSUME FlagsOK, Next PROVE FlagsOK'
  OBVIOUS
<1> USE DEF FlagsOK, outside
<1>1. CASE Top \/ Begin \/ Record \/ End \/ Interrupt \/ NoChild \/ Exhume \/ Inter \/ Mailed
  BY <1>1 DEF Top, Begin, Record, End, Interrupt, NoChild, Exhume, Inter, Mailed
<1>2. CASE doscan \/ ChangeStatus \/ Scan \/ ShutdownCommand
  BY <1>2 DEF doscan, ChangeStatus, Scan, ShutdownCommand
<1>3. ASSUME NEW e \in Entries, Skip(e) \/ Remove(e) \/ Disable(e) \/ Fork(e) \/ Stop(e) \/ Watch(e)
      PROVE  FlagsOK'
  BY <1>3 DEF Skip, Remove, Disable, Fork, Stop, Watch
<1>4. ASSUME NEW p \in Pids, Reap(p) \/ Lose(p) \/ Die(p)
      PROVE  FlagsOK'
  BY <1>4 DEF Reap, Lose, Die
<1>5. CASE KillAll \/ Timeout \/ AllDown \/ Downed
  BY <1>5 DEF KillAll, Timeout, AllDown, Downed
<1>6. CASE Edit \/ NetSig \/ TimeBack
  BY <1>6 DEF Edit, NetSig, TimeBack
<1>7. CASE termin
  <2>1. caught' \in BOOLEAN
    BY <1>7 DEF termin
  <2> QED
    BY <1>7, <2>1 DEF termin
<1> QED
  BY <1>1, <1>2, <1>3, <1>4, <1>5, <1>6, <1>7 DEF Next, RunProgs, netshutdown

(* Steps that do not touch an entry's fields, the processes or a counter.   *)
LEMMA QuietTypes ==
  ASSUME SupervisorTypeOK, FlagsOK',
         Top \/ Begin \/ End \/ Timeout \/ Edit \/ NetSig \/ TimeBack \/ termin
         \/ Interrupt \/ NoChild \/ ShutdownCommand \/ \E e \in Entries : Skip(e) \/ Remove(e) \/ Disable(e)
  PROVE  SupervisorTypeOK'
<1> USE DEF SupervisorTypeOK, outside, table, shutdown, system, Event
<1>1. CASE Top
  BY <1>1 DEF Top, Places
<1>2. CASE Begin
  BY <1>2 DEF Begin, Places
<1>3. CASE End
  BY <1>3 DEF End, Places
<1>4. CASE Timeout
  BY <1>4 DEF Timeout, Places
<1>5. CASE Edit
  BY <1>5 DEF Edit
<1>6. CASE NetSig
  BY <1>6 DEF NetSig
<1>7. CASE TimeBack
  BY <1>7 DEF TimeBack, Shutdown, Places
<1>8. CASE termin
  BY <1>8 DEF termin, Shutdown, Places
<1>9. CASE Interrupt
  BY <1>9 DEF Interrupt, Places
<1>10. CASE NoChild
  BY <1>10 DEF NoChild, Places
<1>11. CASE ShutdownCommand
  BY <1>11 DEF ShutdownCommand, Shutdown, Places
<1>12. ASSUME NEW e \in Entries, Skip(e) \/ Remove(e) \/ Disable(e) PROVE SupervisorTypeOK'
  BY <1>12 DEF Skip, Remove, Disable, Visit, NewStatus, Stati
<1> QED
  BY <1>1, <1>2, <1>3, <1>4, <1>5, <1>6, <1>7, <1>8, <1>9, <1>10, <1>11, <1>12

(* Types are kept by the other steps. *)
LEMMA TypeStep == IInv /\ Next => SupervisorTypeOK'
<1> SUFFICES ASSUME IInv, Next PROVE SupervisorTypeOK'
  OBVIOUS
<1>0. SupervisorTypeOK /\ FlagsOK'
  BY FlagsStep DEF IInv, SupervisorTypeOK
<1> USE <1>0 DEF SupervisorTypeOK, outside, table, shutdown, system
<1>1. CASE doscan
  BY <1>1, KilledType DEF doscan, Places, Stati
<1>2. CASE ChangeStatus
  BY <1>2 DEF ChangeStatus, Answers, Places, Stati
<1>3. CASE Scan
  BY <1>3 DEF Scan, Answers, Places
<1>4. CASE Record
  BY <1>4 DEF IInv, ForkIsOpen, Record, Places, Stati
<1>5. ASSUME NEW e \in Entries, Fork(e) PROVE SupervisorTypeOK'
  BY <1>5 DEF Fork, Visit, Places
<1>6. ASSUME NEW e \in Entries, Stop(e) PROVE SupervisorTypeOK'
  BY <1>6, KilledType DEF Stop, Visit, Stati
<1>7. ASSUME NEW e \in Entries, Watch(e) PROVE SupervisorTypeOK'
  BY <1>7 DEF Watch, Visit
<1>8. ASSUME NEW p \in Pids, Reap(p) PROVE SupervisorTypeOK'
  BY <1>8 DEF Reap, Places, Caller
<1>9. ASSUME NEW p \in Pids, Lose(p) PROVE SupervisorTypeOK'
  BY <1>9 DEF Lose, Event
<1>10. ASSUME NEW p \in Pids, Die(p) PROVE SupervisorTypeOK'
  BY <1>10 DEF Die
<1>11. ASSUME exhume PROVE /\ ProgsActive' \in Nat
                           /\ pid' \in [Entries -> Pids \cup {NOTRUNNING}]
                           /\ check' \in [Entries -> 0 .. 2]
                           /\ proc' \in [Pids -> {"none", "alive", "zombie"}]
  <2>1. Cardinality({e \in Procs : Running(e) /\ Exists(pid[e])}) \in Nat
    BY EntrySets
  <2> QED
    BY <1>11, <2>1, KilledType DEF exhume
<1>12. CASE Exhume
  BY <1>11, <1>12 DEF Exhume, Places
<1>13. CASE Downed
  BY <1>11, <1>13 DEF IInv, Flow, Downed, Places
<1>14. ASSUME Forget, pc \in {"inter", "mail"}
       PROVE  /\ pc' \in Places
              /\ pid' \in [Entries -> Pids \cup {NOTRUNNING}]
              /\ reaped' \in [RunProgs : Pids \cup {NOTRUNNING}, netshutdown : Pids \cup {NOTRUNNING}]
              /\ count' \in Nat /\ active' \in Nat
  <2>1. resume # "none" => count > 0
    BY <1>14 DEF IInv, Flow
  <2>2. resume # "none" /\ AnyFound => active >= 1
    BY <1>14, FoundIsActive
  <2>3. count' \in Nat /\ active' \in Nat
    BY <1>14, <2>1, <2>2 DEF Forget
  <2> QED
    BY <1>14, <2>3 DEF Forget, Places, Caller
<1>15. CASE Inter
  <2>1. ProgsActive' \in Nat
    BY <1>15, FoundIsCounted DEF Inter
  <2> QED
    BY <1>14, <1>15, <2>1 DEF Inter, Places
<1>16. CASE Mailed
  BY <1>14, <1>16 DEF Mailed
<1>17. CASE KillAll
  <2>1. /\ Cardinality(Known) \in Nat
        /\ Cardinality({e \in Known : Exists(pid[e])}) \in Nat
    BY EntrySets DEF Known
  <2> QED
    BY <1>17, <2>1, KilledType DEF IInv, Flow, KillAll, Places
<1>18. CASE AllDown
  BY <1>18 DEF AllDown, Places
<1> QED
  BY <1>1, <1>2, <1>3, <1>4, <1>5, <1>6, <1>7, <1>8, <1>9, <1>10, <1>12, <1>13, <1>15, <1>16,
     <1>17, <1>18, QuietTypes DEF Next, RunProgs, netshutdown

(* Flow: where the two loops are, and who has the table. *)
LEMMA FlowStep == IInv /\ Next => Flow'
<1> SUFFICES ASSUME IInv, Next PROVE Flow'
  OBVIOUS
<1>0. SupervisorTypeOK /\ Flow
  BY DEF IInv
<1> USE <1>0 DEF Flow, outside, table, shutdown, system
<1>1. CASE Top \/ doscan \/ ChangeStatus \/ Scan \/ ShutdownCommand
  BY <1>1 DEF Top, doscan, ChangeStatus, Scan, ShutdownCommand, Shutdown
<1>2. CASE Begin \/ Record \/ End
  BY <1>2 DEF Begin, Record, End
<1>3. ASSUME NEW e \in Entries, Skip(e) \/ Remove(e) \/ Disable(e) \/ Fork(e) \/ Stop(e) \/ Watch(e)
      PROVE  Flow'
  BY <1>3 DEF Skip, Remove, Disable, Fork, Stop, Watch, Visit
<1>4. CASE Interrupt \/ NoChild \/ Exhume
  BY <1>4 DEF Interrupt, NoChild, Exhume
<1>5. CASE Inter \/ Mailed
  BY <1>5 DEF Inter, Mailed, Forget
<1>6. ASSUME NEW p \in Pids, Reap(p) \/ Lose(p) \/ Die(p)
      PROVE  Flow'
  BY <1>6 DEF Reap, Lose, Die, Waits
<1>7. CASE KillAll \/ Timeout \/ AllDown \/ Downed
  BY <1>7 DEF KillAll, Timeout, AllDown, Downed, SupervisorTypeOK
<1>8. CASE Edit \/ NetSig \/ TimeBack \/ termin
  BY <1>8 DEF Edit, NetSig, TimeBack, termin, Shutdown
<1> QED
  BY <1>1, <1>2, <1>3, <1>4, <1>5, <1>6, <1>7, <1>8 DEF Next, RunProgs, netshutdown

(* A number given up in exhume is not in use; one that is kept is. *)
LEMMA ExhumeKeeps ==
  ASSUME SupervisorTypeOK, exhume
  PROVE  /\ \A e \in Entries : pid'[e] = pid[e] \/ (pid'[e] = NOTRUNNING /\ e \in Procs /\ ~Exists(pid[e]))
         /\ \A e \in Procs : pid'[e] # NOTRUNNING => Exists(pid[e])
         /\ \A p \in Pids : Exists(p)' <=> Exists(p)
<1>1. \A p \in Pids : Exists(p)' <=> Exists(p)
  BY KilledType DEF exhume, Exists
<1> QED
  BY <1>1 DEF exhume, SupervisorTypeOK, Running

(* Only an entry of the table gets a process. *)
LEMMA InTableStep == IInv /\ Next => InTable'
<1> SUFFICES ASSUME IInv, Next PROVE InTable'
  OBVIOUS
<1>0. SupervisorTypeOK /\ Flow /\ InTable
  BY DEF IInv
<1> USE <1>0 DEF InTable, Running, outside, table, shutdown, system
<1>1. CASE UNCHANGED <<Procs, OldProcs, pid>>
  BY <1>1
<1>2. CASE Top \/ doscan \/ Scan
  BY <1>2 DEF Top, doscan, Scan, Flow
<1>3. CASE Record
  BY <1>3 DEF Record, IInv, ForkIsOpen, SupervisorTypeOK
<1>4. ASSUME NEW e \in Entries, Remove(e) \/ Watch(e)
      PROVE  InTable'
  BY <1>4 DEF Remove, Watch, SupervisorTypeOK
<1>5. CASE Exhume \/ Downed
  <2>1. CASE exhume /\ UNCHANGED <<Procs, OldProcs>>
    BY <2>1, ExhumeKeeps
  <2> QED
    BY <1>1, <1>5, <2>1 DEF Exhume, Downed
<1>6. CASE Inter \/ Mailed
  <2>1. CASE Forget /\ UNCHANGED <<Procs, OldProcs>>
    BY <2>1 DEF Forget
  <2> QED
    BY <1>1, <1>6, <2>1 DEF Inter, Mailed
<1>7. CASE \/ ChangeStatus \/ ShutdownCommand \/ Begin \/ End \/ Interrupt \/ NoChild
           \/ KillAll \/ Timeout \/ AllDown \/ Edit \/ NetSig \/ TimeBack \/ termin
  BY <1>1, <1>7 DEF ChangeStatus, ShutdownCommand, Begin, End, Interrupt, NoChild, KillAll,
     Timeout, AllDown, Edit, NetSig, TimeBack, termin
<1>8. ASSUME NEW e \in Entries, Skip(e) \/ Disable(e) \/ Fork(e) \/ Stop(e)
      PROVE  InTable'
  BY <1>1, <1>8 DEF Skip, Disable, Fork, Stop
<1>9. ASSUME NEW p \in Pids, Reap(p) \/ Lose(p) \/ Die(p)
      PROVE  InTable'
  BY <1>1, <1>9 DEF Reap, Lose, Die
<1> QED
  BY <1>2, <1>3, <1>4, <1>5, <1>6, <1>7, <1>8, <1>9 DEF Next, RunProgs, netshutdown

(* The process that was just forked stays unrecorded until Record. *)
LEMMA ForkIsOpenStep == IInv /\ Next => ForkIsOpen'
<1> SUFFICES ASSUME IInv, Next PROVE ForkIsOpen'
  OBVIOUS
<1>0. SupervisorTypeOK /\ Flow /\ ForkIsOpen /\ (forked \in Pids => forked # NOTRUNNING)
  BY SupervisorAssumption DEF IInv, SupervisorAssumption
<1> USE <1>0 DEF ForkIsOpen, Running, outside, table, shutdown, system
<1>1. ASSUME NEW e \in Entries, Fork(e)
      PROVE  ForkIsOpen'
  <2>1. PICK p \in Pids : forked' = p /\ of' = [of EXCEPT ![p] = e]
    BY <1>1 DEF Fork
  <2>2. e \in todo /\ pc = "scan"
    BY <1>1 DEF Fork, Visit, First
  <2>3. e \in Procs /\ UNCHANGED <<pid, Procs>> /\ ~Running(e) /\ pc' = "fork"
    BY <1>1, <2>2 DEF Fork, Flow
  <2>4. of'[forked'] = e
    BY <2>1 DEF SupervisorTypeOK
  <2> QED
    BY <2>1, <2>3, <2>4
<1>2. CASE Record
  BY <1>2 DEF Record
<1>3. CASE UNCHANGED forked /\ pc # "fork" /\ pc' # "fork" /\ (resume = "off" => resume' = "off")
  BY <1>3
<1>4. CASE /\ UNCHANGED <<forked, pc, Procs, pid, of>>
           /\ resume = "off" => resume' = "off"
  BY <1>4
<1>5. CASE Top \/ doscan \/ ChangeStatus \/ Scan \/ ShutdownCommand \/ Begin \/ End
  BY <1>3, <1>5 DEF Top, doscan, ChangeStatus, Scan, ShutdownCommand, Begin, End, Shutdown, Flow
<1>6. CASE Interrupt \/ NoChild \/ Exhume \/ Inter \/ Mailed
  BY <1>3, <1>6 DEF Interrupt, NoChild, Exhume, Inter, Mailed, Forget
<1>7. CASE KillAll \/ Timeout \/ AllDown \/ Downed
  BY <1>3, <1>7 DEF KillAll, Timeout, AllDown, Downed, SupervisorTypeOK
<1>8. ASSUME NEW e \in Entries, Skip(e) \/ Remove(e) \/ Disable(e) \/ Stop(e) \/ Watch(e)
      PROVE  ForkIsOpen'
  BY <1>3, <1>8 DEF Skip, Remove, Disable, Stop, Watch, Visit
<1>9. ASSUME NEW p \in Pids, Reap(p) \/ Lose(p)
      PROVE  ForkIsOpen'
  BY <1>3, <1>9 DEF Reap, Lose, Waits
<1>10. CASE Edit \/ NetSig \/ (\E p \in Pids : Die(p))
  BY <1>4, <1>10 DEF Edit, NetSig, Die
<1>11. CASE TimeBack \/ termin
  BY <1>11 DEF TimeBack, termin, Shutdown
<1> QED
  BY <1>1, <1>2, <1>5, <1>6, <1>7, <1>8, <1>9, <1>10, <1>11 DEF Next, RunProgs, netshutdown

(* Processes that exist and to whom they belong stay as they are.           *)
SameProcesses == \A p \in Pids : (Exists(p)' <=> Exists(p)) /\ of'[p] = of[p]

(* Most steps leave the processes, and what netinit knows of them, alone.   *)
LEMMA QuietSteps ==
  ASSUME SupervisorTypeOK,
         \/ Top \/ doscan \/ ShutdownCommand \/ Begin \/ End \/ Interrupt \/ NoChild
         \/ KillAll \/ Timeout \/ AllDown \/ Edit \/ NetSig \/ TimeBack \/ termin
         \/ \E e \in Entries : Skip(e) \/ Remove(e) \/ Disable(e) \/ Stop(e)
         \/ \E p \in Pids : Die(p)
  PROVE  SameProcesses /\ UNCHANGED <<pid, forked, reaped>>
<1> USE DEF SameProcesses, Exists, table, system
<1>1. CASE Top \/ ShutdownCommand \/ Begin \/ End \/ Interrupt \/ NoChild
  BY <1>1 DEF Top, ShutdownCommand, Begin, End, Interrupt, NoChild
<1>2. CASE Timeout \/ AllDown \/ Edit \/ NetSig \/ TimeBack \/ termin
  BY <1>2 DEF Timeout, AllDown, Edit, NetSig, TimeBack, termin
<1>3. CASE doscan
  BY <1>3, KilledType DEF doscan
<1>4. CASE KillAll
  BY <1>4, KilledType DEF KillAll
<1>5. ASSUME NEW e \in Entries, Skip(e) \/ Remove(e) \/ Disable(e)
      PROVE  SameProcesses /\ UNCHANGED <<pid, forked, reaped>>
  BY <1>5 DEF Skip, Remove, Disable
<1>6. ASSUME NEW e \in Entries, Stop(e)
      PROVE  SameProcesses /\ UNCHANGED <<pid, forked, reaped>>
  BY <1>6, KilledType DEF Stop
<1>7. ASSUME NEW p \in Pids, Die(p)
      PROVE  SameProcesses /\ UNCHANGED <<pid, forked, reaped>>
  BY <1>7 DEF Die, SupervisorTypeOK
<1> QED
  BY <1>1, <1>2, <1>3, <1>4, <1>5, <1>6, <1>7

(* A process of netinit's own that answers a command has a new number.      *)
LEMMA AnswerSteps ==
  ASSUME SupervisorTypeOK, ChangeStatus \/ Scan
  PROVE  /\ UNCHANGED <<pid, forked, reaped>>
         /\ \A p \in Pids : Exists(p) => Exists(p)'
         /\ \A p \in Pids : Exists(p)' =>
               \/ Exists(p) /\ of'[p] = of[p]
               \/ Free(p) /\ of'[p] = NOTRUNNING
<1>1. UNCHANGED <<pid, forked, reaped>> /\ Answers
  BY DEF ChangeStatus, Scan
<1> QED
  BY <1>1 DEF Answers, New, Free, Exists, SupervisorTypeOK, system

(* What is not done quietly. *)
LEMMA OtherSteps ==
  ASSUME Next
  PROVE  \/ SameProcesses /\ UNCHANGED <<pid, forked, reaped>>
         \/ ChangeStatus \/ Scan \/ Record \/ Exhume \/ Downed \/ Inter \/ Mailed
         \/ \E e \in Entries : Fork(e) \/ Watch(e)
         \/ \E p \in Pids : Reap(p) \/ Lose(p)
         \/ ~SupervisorTypeOK
BY QuietSteps DEF Next, RunProgs, netshutdown

(* A process of an entry is recorded until it is gone. *)
LEMMA HeldStep == IInv /\ Next => Held'
<1> SUFFICES ASSUME IInv, Next PROVE Held'
  OBVIOUS
<1>0. SupervisorTypeOK /\ Held /\ ForkIsOpen /\ ReapedIsGone
  BY DEF IInv
<1>n. NOTRUNNING \notin Pids /\ NOTRUNNING \notin Entries
  BY SupervisorAssumption DEF SupervisorAssumption
<1> USE <1>0, <1>n DEF Held, Running
<1>1. CASE SameProcesses /\ UNCHANGED <<pid, forked, reaped>>
  BY <1>1 DEF SameProcesses
<1>2. CASE ChangeStatus \/ Scan
  BY <1>2, AnswerSteps
<1>3. CASE Record
  BY <1>3 DEF Record, ForkIsOpen, SupervisorTypeOK, system, Exists
<1>4. ASSUME NEW e \in Entries, Fork(e)
      PROVE  Held'
  <2>1. PICK p \in Pids : /\ New(p) /\ forked' = p
                          /\ proc' = [proc EXCEPT ![p] = "alive"]
                          /\ of' = [of EXCEPT ![p] = e]
    BY <1>4 DEF Fork
  <2>2. UNCHANGED pid /\ ~Running(e) /\ forked = NOTRUNNING
    BY <1>4 DEF Fork, Visit, table, IInv, Flow, ForkIsOpen
  <2> QED
    BY <2>1, <2>2 DEF Exists, SupervisorTypeOK
<1>5. ASSUME NEW e \in Entries, Watch(e)
      PROVE  Held'
  BY <1>5 DEF Watch, Visit, Exists, SupervisorTypeOK, system
<1>6. ASSUME NEW p \in Pids, Reap(p) \/ Lose(p)
      PROVE  Held'
  BY <1>6 DEF Reap, Lose, Exists, SupervisorTypeOK, table
<1>7. CASE Exhume \/ Downed
  <2>1. UNCHANGED <<of, forked>>
    BY <1>7 DEF Exhume, Downed
  <2>2. CASE exhume
    BY <2>1, <2>2, ExhumeKeeps DEF SupervisorTypeOK
  <2>3. CASE UNCHANGED <<proc, pid>>
    BY <2>1, <2>3 DEF Exists
  <2> QED
    BY <1>7, <2>2, <2>3 DEF Exhume, Downed
<1>8. CASE Inter \/ Mailed
  <2>1. UNCHANGED <<of, forked, proc>>
    BY <1>8 DEF Inter, Mailed, system
  <2>2. CASE Forget
    BY <2>1, <2>2 DEF Forget, Found, ReapedIsGone, Caller, Exists, SupervisorTypeOK
  <2>3. CASE UNCHANGED pid
    BY <2>1, <2>3 DEF Exists
  <2> QED
    BY <1>8, <2>2, <2>3 DEF Inter, Mailed
<1> QED
  BY <1>1, <1>2, <1>3, <1>4, <1>5, <1>6, <1>7, <1>8, OtherSteps

(* A number that wait(2) returned is not used before it is forgotten. *)
LEMMA ReapedIsGoneStep == IInv /\ Next => ReapedIsGone'
<1> SUFFICES ASSUME IInv, Next PROVE ReapedIsGone'
  OBVIOUS
<1>0. SupervisorTypeOK /\ ReapedIsGone
  BY DEF IInv
<1>n. NOTRUNNING \notin Pids
  BY SupervisorAssumption DEF SupervisorAssumption
<1> USE <1>0, <1>n DEF ReapedIsGone
<1>1. CASE SameProcesses /\ UNCHANGED <<pid, forked, reaped>>
  BY <1>1 DEF SameProcesses
<1>2. CASE ChangeStatus \/ Scan
  BY <1>2, AnswerSteps DEF Free
<1>3. CASE Record
  BY <1>3 DEF Record, system, Exists
<1>4. ASSUME NEW e \in Entries, Fork(e)
      PROVE  ReapedIsGone'
  BY <1>4 DEF Fork, New, Free, Exists, SupervisorTypeOK
<1>5. ASSUME NEW e \in Entries, Watch(e)
      PROVE  ReapedIsGone'
  BY <1>5 DEF Watch, system, Exists
<1>6. ASSUME NEW p \in Pids, Reap(p) \/ Lose(p)
      PROVE  ReapedIsGone'
  BY <1>6 DEF Reap, Lose, Exists, SupervisorTypeOK, Caller
<1>7. CASE Exhume \/ Downed
  <2>1. UNCHANGED reaped
    BY <1>7 DEF Exhume, Downed
  <2>2. CASE exhume
    BY <2>1, <2>2, ExhumeKeeps
  <2>3. CASE UNCHANGED <<proc, pid>>
    BY <2>1, <2>3 DEF Exists
  <2> QED
    BY <1>7, <2>2, <2>3 DEF Exhume, Downed
<1>8. CASE Inter \/ Mailed
  BY <1>8 DEF Inter, Mailed, Forget, system, Exists, SupervisorTypeOK, Caller
<1> QED
  BY <1>1, <1>2, <1>3, <1>4, <1>5, <1>6, <1>7, <1>8, OtherSteps

(* ProgsActive stays large enough when nothing new is to be counted. *)
LEMMA FewerUncounted ==
  ASSUME IInv, SupervisorTypeOK', Uncounted' \subseteq Uncounted, ProgsActive' = ProgsActive
  PROVE  ActiveIsEnough'
<1>1. Uncounted \in SUBSET Entries
  BY DEF IInv, SupervisorTypeOK, Uncounted, Table
<1>2. /\ Cardinality(Uncounted) \in Nat /\ Cardinality(Uncounted') \in Nat
      /\ Cardinality(Uncounted') <= Cardinality(Uncounted)
  BY <1>1, EntrySets
<1>3. ProgsActive \in Nat /\ ProgsActive >= Cardinality(Uncounted)
  BY DEF IInv, ActiveIsEnough, SupervisorTypeOK
<1>4. ProgsActive' >= Cardinality(Uncounted')
  BY <1>2, <1>3
<1> QED
  BY <1>4 DEF ActiveIsEnough

(* exhume counts anew. *)
LEMMA ExhumeCounts ==
  ASSUME IInv, SupervisorTypeOK', exhume, pc' # "parse", UNCHANGED Procs
  PROVE  ActiveIsEnough'
<1> DEFINE there == {e \in Procs : Running(e) /\ Exists(pid[e])}
<1>1. SupervisorTypeOK
  BY DEF IInv
<1>2. Uncounted' \subseteq there
  BY <1>1, ExhumeKeeps DEF Uncounted, Table, Running, SupervisorTypeOK
<1>3. there \in SUBSET Entries
  BY <1>1 DEF SupervisorTypeOK
<1>4. /\ Cardinality(there) \in Nat /\ Cardinality(Uncounted') \in Nat
      /\ Cardinality(Uncounted') <= Cardinality(there)
  BY <1>2, <1>3, EntrySets
<1>5. ProgsActive' = Cardinality(there)
  BY DEF exhume
<1>6. ProgsActive' >= Cardinality(Uncounted')
  BY <1>4, <1>5
<1> QED
  BY <1>6 DEF ActiveIsEnough

(* A new process is counted. *)
LEMMA RecordCounts ==
  ASSUME IInv, SupervisorTypeOK', Record
  PROVE  ActiveIsEnough'
<1> DEFINE e == of[forked]
<1>1. SupervisorTypeOK /\ Flow /\ ForkIsOpen
  BY DEF IInv
<1>2. e \in Entries
  BY <1>1 DEF Record, ForkIsOpen, SupervisorTypeOK
<1>3. Uncounted' \subseteq Uncounted \cup {e}
  BY <1>1 DEF Record, Uncounted, Table, Running, Flow, SupervisorTypeOK
<1>4. Uncounted \in SUBSET Entries /\ Uncounted \cup {e} \in SUBSET Entries
  BY <1>1, <1>2 DEF SupervisorTypeOK, Uncounted, Table
<1>5. /\ IsFiniteSet(Uncounted) /\ Cardinality(Uncounted) \in Nat
      /\ Cardinality(Uncounted') \in Nat
      /\ Cardinality(Uncounted') <= Cardinality(Uncounted \cup {e})
  BY <1>3, <1>4, EntrySets
<1>6. Cardinality(Uncounted \cup {e}) <= Cardinality(Uncounted) + 1
  BY <1>5, FS_AddElement, SMTT(30)
<1>7. Cardinality(Uncounted \cup {e}) \in Nat
  BY <1>4, EntrySets
<1>8. ProgsActive \in Nat /\ ProgsActive >= Cardinality(Uncounted) /\ ProgsActive' = ProgsActive + 1
  BY DEF IInv, ActiveIsEnough, SupervisorTypeOK, Record
<1>9. ProgsActive' >= Cardinality(Uncounted')
  BY <1>5, <1>6, <1>7, <1>8
<1> QED
  BY <1>9 DEF ActiveIsEnough

(* A process that wait(2) returned is subtracted, and is not counted again. *)
LEMMA InterCounts ==
  ASSUME IInv, SupervisorTypeOK', Inter
  PROVE  ActiveIsEnough'
<1>1. SupervisorTypeOK /\ Flow /\ ReapedIsGone
  BY DEF IInv
<1>2. UNCHANGED <<Procs, OldProcs, resume, proc>> /\ pc = "inter" /\ pc' \in {"mail", "top", "down"}
  BY DEF Inter, Forget, system
<1>3. \A e \in Entries : pid'[e] = pid[e] \/ pid'[e] = NOTRUNNING
  BY <1>1 DEF Inter, Forget, SupervisorTypeOK
<1>4. ASSUME NEW e \in Procs, Found(e)
      PROVE  e \in Uncounted /\ e \notin Uncounted'
  <2>1. e \in Uncounted
    BY <1>2, <1>4 DEF Uncounted, Table, Found, Caller
  <2>2. ASSUME Forget PROVE e \notin Uncounted'
    BY <1>1, <1>4, <2>2 DEF Forget, Uncounted, Running, SupervisorTypeOK
  <2>3. ASSUME pc' = "mail", UNCHANGED <<pid, reaped>> PROVE e \notin Uncounted'
    <3>1. reaped[Caller] \in Pids /\ ~Exists(pid[e])
      BY <1>1, <1>4 DEF Found, Caller, Running, ReapedIsGone, SupervisorTypeOK
    <3>2. Caller' = Caller /\ ~Exists(pid[e])'
      BY <1>2, <2>3, <3>1 DEF Caller, Exists
    <3> QED
      BY <1>2, <1>4, <2>3, <3>2 DEF Uncounted, Found
  <2> QED
    BY <2>1, <2>2, <2>3 DEF Inter
<1>5. Uncounted' \subseteq Uncounted
  BY <1>1, <1>2, <1>3 DEF Uncounted, Table, Running, Exists, SupervisorTypeOK
<1>6. CASE ~AnyFound
  BY <1>5, <1>6, FewerUncounted DEF Inter
<1>7. CASE AnyFound
  <2>1. PICK e \in Procs : Found(e)
    BY <1>7 DEF AnyFound
  <2>2. e \in Uncounted /\ Uncounted' \subseteq Uncounted \ {e}
    BY <1>4, <1>5, <2>1
  <2>3. Uncounted \in SUBSET Entries
    BY <1>1 DEF SupervisorTypeOK, Uncounted, Table
  <2>4. /\ Cardinality(Uncounted) \in Nat /\ Cardinality(Uncounted \ {e}) \in Nat
        /\ Cardinality(Uncounted \ {e}) = Cardinality(Uncounted) - 1
    BY <2>2, <2>3, EntryTaken
  <2>5. Cardinality(Uncounted') \in Nat /\ Cardinality(Uncounted') <= Cardinality(Uncounted \ {e})
    BY <2>2, <2>3, EntrySets
  <2>6. ProgsActive \in Nat /\ ProgsActive >= Cardinality(Uncounted) /\ ProgsActive' = ProgsActive - 1
    BY <1>7 DEF IInv, ActiveIsEnough, SupervisorTypeOK, Inter
  <2>7. ProgsActive' >= Cardinality(Uncounted')
    BY <2>4, <2>5, <2>6
  <2> QED
    BY <2>7 DEF ActiveIsEnough
<1> QED
  BY <1>6, <1>7

(* ProgsActive is never too small, whatever happens. *)
LEMMA ActiveIsEnoughStep == IInv /\ Next => ActiveIsEnough'
<1> SUFFICES ASSUME IInv, Next PROVE ActiveIsEnough'
  OBVIOUS
<1>0. SupervisorTypeOK /\ Flow /\ InTable /\ ReapedIsGone
  BY DEF IInv
<1>t. SupervisorTypeOK'
  BY TypeStep
<1>n. NOTRUNNING \notin Pids
  BY SupervisorAssumption DEF SupervisorAssumption
<1>1. CASE Top \/ doscan
  <2>1. UNCHANGED <<pid, resume, ProgsActive>> /\ resume = "none" /\ pc # "mail" /\ pc' # "mail"
    BY <1>0, <1>1 DEF Top, doscan, table, Flow
  <2>2. Table' \subseteq Table \/ \A e \in Table' \ Table : ~Running(e)
    BY <1>0, <1>1 DEF Top, doscan, table, Table, Flow, InTable, SupervisorTypeOK
  <2>3. Uncounted' \subseteq Uncounted
    BY <2>1, <2>2 DEF Uncounted, Running
  <2> QED
    BY <1>t, <2>1, <2>3, FewerUncounted
<1>2. CASE ChangeStatus \/ Scan
  <2>1. UNCHANGED <<pid, resume, ProgsActive>> /\ resume = "none" /\ pc' \notin {"mail", "inter"}
    BY <1>0, <1>2 DEF ChangeStatus, Scan, Flow
  <2>2. Table' = Table /\ pc # "mail"
    BY <1>2 DEF ChangeStatus, Scan, Table
  <2>3. Uncounted' \subseteq Uncounted
    BY <2>1, <2>2 DEF Uncounted, Running
  <2> QED
    BY <1>t, <2>1, <2>3, FewerUncounted
<1>3. CASE \/ Begin \/ End \/ Interrupt \/ NoChild
           \/ \E e \in Entries : Skip(e) \/ Remove(e) \/ Disable(e) \/ Fork(e) \/ Stop(e) \/ Watch(e)
  <2>1. /\ UNCHANGED <<resume, ProgsActive>> /\ resume = "none"
        /\ pc \notin {"mail", "parse"} /\ pc' \notin {"mail", "parse"}
        /\ Procs' \subseteq Procs
        /\ \A e \in Entries : pid'[e] = pid[e] \/ pid'[e] = NOTRUNNING
    <3>1. CASE Begin \/ End \/ Interrupt \/ NoChild
      BY <1>0, <3>1 DEF Begin, End, Interrupt, NoChild, table, Flow
    <3>2. ASSUME NEW e \in Entries, Skip(e) \/ Remove(e) \/ Disable(e)
          PROVE  <2>1!1 /\ <2>1!2 /\ <2>1!3 /\ <2>1!4
      BY <1>0, <3>2 DEF Skip, Remove, Disable, Visit, table, Flow
    <3>3. ASSUME NEW e \in Entries, Fork(e) \/ Stop(e) \/ Watch(e)
          PROVE  <2>1!1 /\ <2>1!2 /\ <2>1!3 /\ <2>1!4
      BY <1>0, <3>3 DEF Fork, Stop, Watch, Visit, table, Flow, SupervisorTypeOK
    <3> QED
      BY <1>3, <3>1, <3>2, <3>3
  <2>2. Uncounted' \subseteq Uncounted
    BY <1>0, <2>1 DEF Uncounted, Table, Running, SupervisorTypeOK
  <2> QED
    BY <1>t, <2>1, <2>2, FewerUncounted
<1>4. CASE Record
  BY <1>4, <1>t, RecordCounts
<1>5. CASE Inter
  BY <1>5, <1>t, InterCounts
<1>6. ASSUME NEW p \in Pids, Reap(p)
      PROVE  ActiveIsEnough'
  <2>1. UNCHANGED <<resume, pid, Procs, ProgsActive>> /\ pc' = "inter" /\ pc \in {"wait", "down"}
    BY <1>6 DEF Reap, Waits, table
  <2>2. Exists(p) /\ \A q \in Pids : Exists(q)' => Exists(q)
    BY <1>0, <1>6 DEF Reap, Exists, Zombies, SupervisorTypeOK
  <2>3. resume = "off" => reaped'.netshutdown = p
    BY <1>0, <1>6 DEF Reap, Caller, SupervisorTypeOK
  <2>4. Uncounted' \subseteq Uncounted
    BY <1>0, <2>1, <2>2, <2>3 DEF Uncounted, Table, Running, SupervisorTypeOK
  <2> QED
    BY <1>t, <2>1, <2>4, FewerUncounted
<1>7. ASSUME NEW p \in Pids, Lose(p) \/ Die(p)
      PROVE  ActiveIsEnough'
  <2>1. UNCHANGED <<resume, pid, pc, Procs, OldProcs, reaped, ProgsActive>>
    BY <1>7 DEF Lose, Die, table
  <2>2. \A q \in Pids : Exists(q)' => Exists(q)
    BY <1>0, <1>7 DEF Lose, Die, Exists, SupervisorTypeOK
  <2>3. Uncounted' \subseteq Uncounted
    BY <1>0, <2>1, <2>2 DEF Uncounted, Table, Running, Caller, SupervisorTypeOK
  <2> QED
    BY <1>t, <2>1, <2>3, FewerUncounted
<1>8. CASE Mailed
  <2>1. UNCHANGED <<resume, proc, Procs, ProgsActive>> /\ pc = "mail" /\ pc' \in {"top", "down"}
    BY <1>8 DEF Mailed, Forget, system
  <2>2. \A e \in Entries : pid'[e] = IF Found(e) THEN NOTRUNNING ELSE pid[e]
    BY <1>8 DEF Mailed, Forget
  <2>3. Uncounted' \subseteq Uncounted
    BY <1>0, <2>1, <2>2 DEF Uncounted, Table, Running, Exists, Found, SupervisorTypeOK
  <2> QED
    BY <1>t, <2>1, <2>3, FewerUncounted
<1>9. CASE Exhume
  BY <1>9, <1>t, ExhumeCounts DEF Exhume
<1>10. CASE Downed
  <2>1. pc' = resume /\ pc' # "parse" /\ pc' # "mail" /\ UNCHANGED <<Procs, reaped>> /\ pc = "downed"
    BY <1>0, <1>10 DEF Downed, Flow, SupervisorTypeOK
  <2>2. CASE active > 0
    <3>1. UNCHANGED <<ProgsActive, pid, proc>>
      BY <1>10, <2>2 DEF Downed
    <3>2. resume' = "off" <=> resume = "off"
      BY <1>10 DEF Downed
    <3>3. Uncounted' \subseteq Uncounted
      BY <1>0, <2>1, <3>1, <3>2 DEF Uncounted, Table, Running, Exists
    <3> QED
      BY <1>t, <3>1, <3>3, FewerUncounted
  <2>3. CASE exhume
    BY <1>t, <2>1, <2>3, ExhumeCounts
  <2> QED
    BY <1>10, <2>2, <2>3 DEF Downed
<1>11. CASE KillAll \/ Timeout \/ AllDown
  <2>1. /\ UNCHANGED <<resume, Procs, pid, ProgsActive>>
        /\ pc \in {"kill", "down"} /\ pc' \in {"kill", "down", "downed"}
    BY <1>11 DEF KillAll, Timeout, AllDown, table
  <2>2. \A q \in Pids : Exists(q)' <=> Exists(q)
    BY <1>0, <1>11, QuietSteps DEF SameProcesses
  <2>3. Uncounted' \subseteq Uncounted
    BY <1>0, <2>1, <2>2 DEF Uncounted, Table, Running, SupervisorTypeOK
  <2> QED
    BY <1>t, <2>1, <2>3, FewerUncounted
<1>12. CASE Edit \/ NetSig
  <2>1. UNCHANGED <<resume, pc, Procs, OldProcs, pid, proc, reaped, ProgsActive>>
    BY <1>12 DEF Edit, NetSig, table, system
  <2>2. Uncounted' = Uncounted
    BY <2>1 DEF Uncounted, Table, Running, Exists, Caller
  <2> QED
    BY <1>t, <2>1, <2>2, FewerUncounted
<1>13. CASE TimeBack
  <2>1. /\ UNCHANGED <<Procs, pid, ProgsActive>> /\ pc' = "kill" /\ pc \notin {"parse", "mail"}
        /\ resume # "off" /\ resume' # "off"
    BY <1>13 DEF TimeBack, Shutdown, table
  <2>2. Uncounted' \subseteq Uncounted
    BY <2>1 DEF Uncounted, Table, Running
  <2> QED
    BY <1>t, <2>1, <2>2, FewerUncounted
<1>14. CASE ShutdownCommand \/ termin
  <2>1. /\ UNCHANGED <<Procs, pid, proc, reaped, ProgsActive>> /\ pc' = "kill"
        /\ resume # "off" /\ resume' = "off"
    BY <1>0, <1>14 DEF ShutdownCommand, termin, Shutdown, table, system, Flow
  <2>2. \A e \in Entries : Exists(pid[e]) /\ Running(e) => pid[e] # reaped[Caller]
    BY <1>0, <1>n DEF ReapedIsGone, Caller, Running, SupervisorTypeOK
  <2>3. Procs \subseteq Table
    BY <1>0 DEF Table, Flow
  <2>4. Uncounted' \subseteq Uncounted
    BY <1>0, <2>1, <2>2, <2>3 DEF Uncounted, Table, Running, Exists, SupervisorTypeOK
  <2> QED
    BY <1>t, <2>1, <2>4, FewerUncounted
<1> QED
  BY <1>1, <1>2, <1>3, <1>4, <1>5, <1>6, <1>7, <1>8, <1>9, <1>10, <1>11, <1>12, <1>13, <1>14
     DEF Next, RunProgs, netshutdown

(* Nor is active, in a shutdown. *)
LEMMA FewerUndead ==
  ASSUME IInv, SupervisorTypeOK', Undead' \subseteq Undead, active' = active,
         pc \in {"down", "inter", "mail"}, resume # "none"
  PROVE  UndeadAreActive'
<1>1. Undead \in SUBSET Entries
  BY DEF IInv, SupervisorTypeOK, Undead
<1>2. /\ Cardinality(Undead) \in Nat /\ Cardinality(Undead') \in Nat
      /\ Cardinality(Undead') <= Cardinality(Undead)
  BY <1>1, EntrySets
<1>3. active \in Nat /\ active >= Cardinality(Undead)
  BY DEF IInv, UndeadAreActive, SupervisorTypeOK
<1>4. active' >= Cardinality(Undead')
  BY <1>2, <1>3
<1> QED
  BY <1>4 DEF UndeadAreActive

(* An entry whose end wait(2) reported leaves Undead when active goes down. *)
LEMMA ForgetCounts ==
  ASSUME IInv, SupervisorTypeOK', pc \in {"inter", "mail"}, resume # "none",
         Forget, UNCHANGED <<Procs, proc>>
  PROVE  UndeadAreActive'
<1>1. SupervisorTypeOK
  BY DEF IInv
<1>2. pc' = "down" /\ \A e \in Entries : pid'[e] = IF Found(e) THEN NOTRUNNING ELSE pid[e]
  BY DEF Forget
<1>3. Undead' \subseteq {e \in Undead : ~Found(e)}
  BY <1>1, <1>2 DEF Undead, Running, Exists, SupervisorTypeOK
<1>4. CASE ~AnyFound
  BY <1>3, <1>4, FewerUndead DEF Forget
<1>5. CASE AnyFound
  <2>1. PICK e \in Procs : Found(e)
    BY <1>5 DEF AnyFound
  <2>2. e \in Undead /\ Undead' \subseteq Undead \ {e}
    BY <1>3, <2>1 DEF Undead, Found, Caller
  <2>3. Undead \in SUBSET Entries
    BY <1>1 DEF SupervisorTypeOK, Undead
  <2>4. /\ Cardinality(Undead) \in Nat /\ Cardinality(Undead \ {e}) \in Nat
        /\ Cardinality(Undead \ {e}) = Cardinality(Undead) - 1
    BY <2>2, <2>3, EntryTaken
  <2>5. Cardinality(Undead') \in Nat /\ Cardinality(Undead') <= Cardinality(Undead \ {e})
    BY <2>2, <2>3, EntrySets
  <2>6. active \in Nat /\ active >= Cardinality(Undead) /\ active' = active - 1
    BY <1>5 DEF IInv, UndeadAreActive, SupervisorTypeOK, Forget
  <2>7. active' >= Cardinality(Undead')
    BY <2>4, <2>5, <2>6
  <2> QED
    BY <2>7 DEF UndeadAreActive
<1> QED
  BY <1>4, <1>5

(* active is never too small, until netshutdown is through with its loop.   *)
LEMMA UndeadAreActiveStep == IInv /\ Next => UndeadAreActive'
<1> SUFFICES ASSUME IInv, Next PROVE UndeadAreActive'
  OBVIOUS
<1>0. SupervisorTypeOK /\ Flow
  BY DEF IInv
<1>t. SupervisorTypeOK'
  BY TypeStep
<1>1. CASE pc' \notin {"down", "inter", "mail"} \/ resume' = "none"
  BY <1>1 DEF UndeadAreActive
<1>2. CASE Top \/ doscan \/ ChangeStatus \/ Scan \/ ShutdownCommand \/ Begin \/ Record \/ End
  BY <1>0, <1>1, <1>2
     DEF Top, doscan, ChangeStatus, Scan, ShutdownCommand, Begin, Record, End, Shutdown, Flow
<1>3. ASSUME NEW e \in Entries, Skip(e) \/ Remove(e) \/ Disable(e) \/ Fork(e) \/ Stop(e) \/ Watch(e)
      PROVE  UndeadAreActive'
  BY <1>0, <1>1, <1>3 DEF Skip, Remove, Disable, Fork, Stop, Watch, Visit, Flow
<1>4. CASE Interrupt \/ NoChild \/ Exhume \/ Timeout \/ AllDown
  BY <1>0, <1>1, <1>4 DEF Interrupt, NoChild, Exhume, Timeout, AllDown, Flow
<1>5. CASE Downed
  BY <1>1, <1>5 DEF Downed
<1>6. CASE TimeBack \/ termin
  BY <1>1, <1>6 DEF TimeBack, termin, Shutdown
<1>7. CASE Edit \/ NetSig
  <2>1. UNCHANGED <<resume, pc, Procs, pid, proc, reaped, active>>
    BY <1>7 DEF Edit, NetSig, table, shutdown, system
  <2>2. Undead' = Undead
    BY <2>1 DEF Undead, Running, Exists
  <2> QED
    BY <1>t, <1>1, <2>1, <2>2, FewerUndead
<1>8. CASE KillAll
  <2>1. /\ pc' = "down" /\ UNCHANGED <<Procs, pid>>
        /\ active' = Cardinality({e \in Known : Exists(pid[e])})
    BY <1>8 DEF KillAll, table
  <2>2. \A q \in Pids : Exists(q)' <=> Exists(q)
    BY <1>0, <1>8, QuietSteps DEF SameProcesses
  <2>3. Undead' = {e \in Known : Exists(pid[e])}
    BY <1>0, <2>1, <2>2 DEF Undead, Known, Running, SupervisorTypeOK
  <2>4. Cardinality(Undead') \in Nat
    BY <1>t, EntrySets DEF Undead, SupervisorTypeOK
  <2> QED
    BY <2>1, <2>3, <2>4 DEF UndeadAreActive
<1>9. ASSUME NEW p \in Pids, Reap(p)
      PROVE  UndeadAreActive'
  <2>1. CASE pc = "down"
    <3>1. UNCHANGED <<resume, pid, Procs, active>> /\ pc' = "inter" /\ resume # "none"
      BY <1>0, <1>9, <2>1 DEF Reap, table, shutdown, Flow
    <3>2. Exists(p) /\ \A q \in Pids : Exists(q)' => Exists(q)
      BY <1>0, <1>9 DEF Reap, Exists, Zombies, SupervisorTypeOK
    <3>3. reaped'.netshutdown = p
      BY <1>0, <1>9, <3>1 DEF Reap, Caller, SupervisorTypeOK
    <3>4. Undead' \subseteq Undead
      BY <1>0, <3>1, <3>2, <3>3 DEF Undead, Running, SupervisorTypeOK
    <3> QED
      BY <1>t, <2>1, <3>1, <3>4, FewerUndead
  <2>2. CASE pc = "wait"
    BY <1>0, <1>1, <1>9, <2>2 DEF Reap, Flow
  <2> QED
    BY <1>9, <2>1, <2>2 DEF Reap, Waits
<1>10. ASSUME NEW p \in Pids, Lose(p) \/ Die(p)
       PROVE  UndeadAreActive'
  <2>1. UNCHANGED <<resume, pid, pc, Procs, reaped, active>>
    BY <1>10 DEF Lose, Die, table, shutdown
  <2>2. \A q \in Pids : Exists(q)' => Exists(q)
    BY <1>0, <1>10 DEF Lose, Die, Exists, SupervisorTypeOK
  <2>3. Undead' \subseteq Undead
    BY <1>0, <2>1, <2>2 DEF Undead, Running, SupervisorTypeOK
  <2> QED
    BY <1>t, <1>1, <2>1, <2>3, FewerUndead
<1>11. CASE Inter \/ Mailed
  <2>1. UNCHANGED <<resume, Procs, proc>> /\ pc \in {"inter", "mail"}
    BY <1>11 DEF Inter, Mailed, system
  <2>2. CASE Forget
    BY <1>t, <1>1, <2>1, <2>2, ForgetCounts
  <2>3. CASE pc' = "mail" /\ UNCHANGED <<pid, reaped, count, active>>
    <3>1. Undead' \subseteq Undead
      BY <1>0, <1>11, <2>1, <2>3 DEF Inter, Mailed, Forget, Undead, Running, Exists
    <3> QED
      BY <1>t, <1>1, <2>1, <2>3, <3>1, FewerUndead
  <2> QED
    BY <1>11, <2>2, <2>3 DEF Inter, Mailed
<1> QED
  BY <1>2, <1>3, <1>4, <1>5, <1>6, <1>7, <1>8, <1>9, <1>10, <1>11 DEF Next, RunProgs, netshutdown

-----------------------------------------------------------------------------
(* The invariant is inductive. *)
LEMMA IInvStep == IInv /\ [Next]_vars => IInv'
<1> SUFFICES ASSUME IInv, [Next]_vars PROVE IInv'
  OBVIOUS
<1>1. CASE Next
  BY <1>1, TypeStep, FlowStep, InTableStep, ForkIsOpenStep, HeldStep, ReapedIsGoneStep,
     ActiveIsEnoughStep, UndeadAreActiveStep DEF IInv
<1>2. CASE UNCHANGED vars
  <2> USE <1>2 DEF vars, outside, table, shutdown, system
  <2>1. SupervisorTypeOK'
    <3>1. FlagsOK'
      BY DEF IInv, SupervisorTypeOK, FlagsOK
    <3> QED
      BY <3>1 DEF IInv, SupervisorTypeOK
  <2>2. Flow' /\ InTable' /\ ForkIsOpen'
    BY DEF IInv, Flow, InTable, ForkIsOpen, Running
  <2>3. Held' /\ ReapedIsGone'
    BY DEF IInv, Held, ReapedIsGone, Running, Exists
  <2>4. Uncounted' = Uncounted /\ Undead' = Undead
    BY DEF Uncounted, Undead, Table, Running, Exists, Caller
  <2>5. ActiveIsEnough' /\ UndeadAreActive'
    BY <2>4 DEF IInv, ActiveIsEnough, UndeadAreActive
  <2> QED
    BY <2>1, <2>2, <2>3, <2>5 DEF IInv
<1> QED
  BY <1>1, <1>2

LEMMA Invariance == Spec => []IInv
BY InitIInv, IInvStep, PTL DEF Spec

(* The counters of netinit stay in their types: neither ProgsActive nor the *)
(* counts of netshutdown go below 0, whichever wait(2) takes the news of a  *)
(* child's end.                                                             *)
THEOREM SupervisorTypes == Spec => []SupervisorTypeOK
<1>1. IInv => SupervisorTypeOK
  BY DEF IInv
<1> QED
  BY Invariance, <1>1, PTL

(* No entry has two live processes: the two would have to be recorded in    *)
(* one field, or one of them had just been forked for an entry that had     *)
(* none.                                                                    *)
THEOREM SupervisorOneCopy == Spec => []OneCopy
<1>1. IInv => OneCopy
  <2> SUFFICES ASSUME IInv, NEW p \in Pids, NEW q \in Pids,
                      proc[p] = "alive", proc[q] = "alive", of[p] = of[q], of[p] # NOTRUNNING
               PROVE  p = q
    BY DEF OneCopy
  <2>1. Exists(p) /\ Exists(q)
    BY DEF Exists
  <2>2. /\ pid[of[p]] = p \/ (forked = p /\ ~Running(of[p]))
        /\ pid[of[p]] = q \/ (forked = q /\ ~Running(of[p]))
    BY <2>1 DEF IInv, Held
  <2> QED
    BY <2>2, SupervisorAssumption DEF Running, SupervisorAssumption
<1> QED
  BY Invariance, <1>1, PTL

(* netinit does not pause while an entry has a process: ProgsActive is at   *)
(* least the number of these.                                               *)
THEOREM SupervisorNeverPausesInVain == Spec => []NeverPausesInVain
<1>1. IInv => NeverPausesInVain
  <2> SUFFICES ASSUME IInv, pc = "wait", ProgsActive = 0, NEW e \in Procs, Running(e)
               PROVE  FALSE
    BY DEF NeverPausesInVain
  <2>1. e \in Uncounted
    BY DEF IInv, Flow, Uncounted, Table
  <2>2. Uncounted \in SUBSET Entries
    BY DEF IInv, SupervisorTypeOK, Uncounted, Table
  <2>3. Cardinality(Uncounted) \in Nat /\ Cardinality(Uncounted) >= 1
    BY <2>1, <2>2, EntryTaken
  <2>4. 0 >= Cardinality(Uncounted)
    BY DEF IInv, ActiveIsEnough
  <2> QED
    BY <2>3, <2>4
<1> QED
  BY Invariance, <1>1, PTL

-----------------------------------------------------------------------------
(* What a shutdown leaves.  netshutdown ends with exhume, which kills what  *)
(* is known, unless a wait was given up; and that it is only after the      *)
(* SIGKILLs, for active does not exceed count.  A known process is one that *)
(* was forked and recorded: SIGTERM in between is the exception (caught).   *)
NoLive ==
  \A p \in Pids : proc[p] = "alive" => of[p] \in Foreign \cup {NOTRUNNING}

KilledOrCounted ==
  /\ resume # "none" /\ pc \in {"down", "inter", "mail"} => active <= count
  /\ pc = "downed" /\ active > 0 => loops = 0
  /\ resume = "off" /\ ~caught =>
       /\ forked = NOTRUNNING /\ OldProcs = {}
       /\ loops = 0 \/ pc = "off" => NoLive

LEMMA InitKilled == Init => KilledOrCounted
BY DEF Init, KilledOrCounted

(* A live process that netinit can signal is recorded in the table. *)
LEMMA LiveIsKnown ==
  ASSUME IInv, forked = NOTRUNNING, OldProcs = {},
         NEW p \in Pids, proc[p] = "alive", of[p] \notin Foreign \cup {NOTRUNNING}
  PROVE  /\ of[p] \in Procs \ Foreign /\ Running(of[p])
         /\ pid[of[p]] = p /\ Exists(p)
<1>1. Exists(p) /\ of[p] \in Entries /\ p # NOTRUNNING
  BY SupervisorAssumption DEF IInv, SupervisorTypeOK, Exists, SupervisorAssumption
<1>2. pid[of[p]] = p
  BY <1>1 DEF IInv, Held
<1>3. Running(of[p])
  BY <1>1, <1>2 DEF Running
<1> QED
  BY <1>1, <1>2, <1>3 DEF IInv, InTable

(* SIGKILL to all that are known leaves only those it does not reach. *)
LEMMA KillLeavesNone ==
  ASSUME IInv, forked = NOTRUNNING, OldProcs = {}, UNCHANGED of, NEW S,
         \A e \in Procs : Running(e) /\ Exists(pid[e]) => e \in S,
         proc' = Killed(S)
  PROVE  NoLive'
<1> SUFFICES ASSUME NEW p \in Pids, proc'[p] = "alive", of[p] \notin Foreign \cup {NOTRUNNING}
             PROVE  FALSE
  BY DEF NoLive
<1>1. proc[p] = "alive" /\ ~(Exists(p) /\ \E e \in S \ Foreign : pid[e] = p)
  BY DEF Killed
<1>2. /\ of[p] \in Procs \ Foreign /\ Running(of[p])
      /\ pid[of[p]] = p /\ Exists(p)
  BY <1>1, LiveIsKnown
<1> QED
  BY <1>1, <1>2

LEMMA KilledStep == IInv /\ KilledOrCounted /\ Next => KilledOrCounted'
<1> SUFFICES ASSUME IInv, KilledOrCounted, Next PROVE KilledOrCounted'
  OBVIOUS
<1>0. SupervisorTypeOK /\ Flow /\ ForkIsOpen
  BY DEF IInv
<1>n. Flow' /\ SupervisorTypeOK'
  BY FlowStep, TypeStep
<1> USE DEF outside, table, shutdown, system
<1>1. CASE resume' = "none"
  BY <1>n, <1>1 DEF KilledOrCounted, Flow
<1>2. CASE resume = "none" /\ resume' # "none"
  <2>1. ShutdownCommand \/ TimeBack \/ termin
    <3>1. CASE Top \/ doscan \/ ChangeStatus \/ Scan \/ Begin \/ Record \/ End
      BY <1>2, <3>1 DEF Top, doscan, ChangeStatus, Scan, Begin, Record, End
    <3>2. ASSUME NEW e \in Entries, Skip(e) \/ Remove(e) \/ Disable(e) \/ Fork(e) \/ Stop(e) \/ Watch(e)
          PROVE  FALSE
      BY <1>2, <3>2 DEF Skip, Remove, Disable, Fork, Stop, Watch
    <3>3. CASE Interrupt \/ NoChild \/ Exhume \/ Inter \/ Mailed \/ KillAll \/ Timeout \/ AllDown \/ Downed
      BY <1>2, <3>3 DEF Interrupt, NoChild, Exhume, Inter, Mailed, KillAll, Timeout, AllDown, Downed
    <3>4. ASSUME NEW p \in Pids, Reap(p) \/ Lose(p) \/ Die(p)
          PROVE  FALSE
      BY <1>2, <3>4 DEF Reap, Lose, Die
    <3>5. CASE Edit \/ NetSig
      BY <1>2, <3>5 DEF Edit, NetSig
    <3> QED
      BY <3>1, <3>2, <3>3, <3>4, <3>5 DEF Next, RunProgs, netshutdown
  <2>2. pc' = "kill" /\ loops' = 3 /\ UNCHANGED <<forked, OldProcs>>
    BY <2>1 DEF ShutdownCommand, TimeBack, termin, Shutdown
  <2>3. resume' = "off" /\ ~caught' => pc \notin {"fork", "parse"}
    <3>1. CASE ShutdownCommand
      BY <3>1 DEF ShutdownCommand
    <3>2. CASE TimeBack
      BY <3>2 DEF TimeBack
    <3>3. CASE termin
      BY <3>3 DEF termin
    <3> QED
      BY <2>1, <3>1, <3>2, <3>3
  <2> QED
    BY <1>0, <1>2, <2>2, <2>3 DEF KilledOrCounted, Flow, ForkIsOpen
<1>3. CASE resume # "none" /\ resume' # "none"
  <2>1. CASE termin
    <3>1. pc' = "kill" /\ loops' = 3 /\ UNCHANGED <<forked, OldProcs>> /\ resume # "off"
      BY <2>1 DEF termin, Shutdown
    <3>2. ~caught' => pc \notin {"fork", "parse"}
      BY <2>1 DEF termin
    <3> QED
      BY <1>0, <3>1, <3>2 DEF KilledOrCounted, Flow, ForkIsOpen
  <2>2. CASE Edit
    BY <2>2 DEF Edit, KilledOrCounted
  <2>3. ASSUME NEW p \in Pids, Reap(p) \/ Lose(p) \/ Die(p)
        PROVE  KilledOrCounted'
    <3>1. /\ UNCHANGED <<resume, active, count, loops, caught, forked, OldProcs>>
          /\ pc' = pc \/ (pc = "down" /\ pc' = "inter")
      BY <1>0, <1>3, <2>3 DEF Reap, Lose, Die, Waits, Flow
    <3>2. \A q \in Pids : proc'[q] = "alive" => proc[q] = "alive" /\ of'[q] = of[q]
      BY <1>0, <2>3 DEF Reap, Lose, Die, Zombies, SupervisorTypeOK
    <3>3. NoLive => NoLive'
      BY <3>2 DEF NoLive
    <3> QED
      BY <3>1, <3>3 DEF KilledOrCounted
  <2>4. CASE Inter \/ Mailed
    <3>1. /\ UNCHANGED <<resume, loops, caught, forked, OldProcs, proc, of>>
          /\ pc \in {"inter", "mail"} /\ pc' \in {"down", "mail"}
      BY <2>4, <1>3 DEF Inter, Mailed, Forget
    <3>2. active' <= count'
      <4>1. active <= count /\ count > 0 /\ active \in Nat /\ count \in Nat
        BY <1>0, <1>3, <3>1 DEF KilledOrCounted, Flow, SupervisorTypeOK
      <4>2. \/ active' = active /\ count' = count
            \/ active' = active - 1 /\ count' = count - 1
        BY <1>3, <2>4 DEF Inter, Mailed, Forget
      <4> QED
        BY <4>1, <4>2
    <3> QED
      BY <3>1, <3>2 DEF KilledOrCounted, NoLive
  <2>5. CASE KillAll
    <3>1. /\ UNCHANGED <<resume, caught, forked, OldProcs, of>> /\ pc' = "down"
          /\ count' = Cardinality(Known)
          /\ active' = Cardinality({e \in Known : Exists(pid[e])})
          /\ loops' = 0 => proc' = Killed(Known)
      BY <2>5 DEF KillAll
    <3>2. active' <= count'
      BY <1>0, <3>1, EntrySets DEF Known, SupervisorTypeOK
    <3>3. ASSUME resume = "off", ~caught, loops' = 0
          PROVE  NoLive'
      <4>1. forked = NOTRUNNING /\ OldProcs = {}
        BY <3>3 DEF KilledOrCounted
      <4> QED
        BY <3>1, <3>3, <4>1, KillLeavesNone DEF Known
    <3> QED
      BY <3>1, <3>2, <3>3 DEF KilledOrCounted
  <2>6. CASE Timeout
    BY <1>0, <2>6 DEF Timeout, KilledOrCounted, NoLive, SupervisorTypeOK
  <2>7. CASE AllDown
    <3>1. /\ UNCHANGED <<resume, caught, forked, OldProcs, of, proc, loops>>
          /\ pc = "down" /\ pc' = "downed"
          /\ active' = IF count = 0 THEN active ELSE 0
      BY <2>7 DEF AllDown
    <3>2. active <= count /\ active \in Nat /\ count \in Nat
      BY <1>0, <1>3, <3>1 DEF KilledOrCounted, SupervisorTypeOK
    <3>3. ~(active' > 0)
      BY <3>1, <3>2
    <3> QED
      BY <3>1, <3>3 DEF KilledOrCounted, NoLive
  <2>8. CASE Downed
    <3>1. /\ resume' = "off" /\ resume = "off" /\ pc' = "off" /\ pc = "downed"
          /\ UNCHANGED <<caught, forked, OldProcs, of, loops>>
      BY <1>3, <2>8 DEF Downed
    <3>2. ASSUME ~caught PROVE NoLive'
      <4>1. forked = NOTRUNNING /\ OldProcs = {} /\ (active > 0 => NoLive)
        BY <3>1, <3>2 DEF KilledOrCounted
      <4>2. CASE active > 0
        BY <2>8, <3>1, <4>1, <4>2 DEF Downed, NoLive
      <4>3. CASE exhume
        BY <3>1, <4>1, <4>3, KillLeavesNone DEF exhume
      <4> QED
        BY <2>8, <4>2, <4>3 DEF Downed
    <3> QED
      BY <3>1, <3>2 DEF KilledOrCounted
  <2>9. CASE Top \/ doscan \/ ChangeStatus \/ Scan \/ ShutdownCommand \/ Begin \/ Record \/ End
    BY <1>0, <1>3, <2>9 DEF Top, doscan, ChangeStatus, Scan, ShutdownCommand, Begin, Record, End, Flow
  <2>10. ASSUME NEW e \in Entries, Skip(e) \/ Remove(e) \/ Disable(e) \/ Fork(e) \/ Stop(e) \/ Watch(e)
         PROVE  FALSE
    BY <1>0, <1>3, <2>10 DEF Skip, Remove, Disable, Fork, Stop, Watch, Visit, Flow
  <2>11. CASE Interrupt \/ NoChild \/ Exhume \/ NetSig \/ TimeBack
    BY <1>0, <1>3, <2>11 DEF Interrupt, NoChild, Exhume, NetSig, TimeBack, Flow
  <2> QED
    BY <2>1, <2>2, <2>3, <2>4, <2>5, <2>6, <2>7, <2>8, <2>9, <2>10, <2>11
       DEF Next, RunProgs, netshutdown
<1> QED
  BY <1>1, <1>2, <1>3

(* netinit that has shut down leaves none of its processes alive that it    *)
(* can signal, whatever commands, rescans, steps of the clock and lost ends *)
(* there were; excepted is a SIGTERM between fork() and the assignment of   *)
(* its result, or while doscan has the table.                               *)
THEOREM SupervisorNoneLeft == Spec => []NoneLeft
<1>1. KilledOrCounted /\ UNCHANGED vars => KilledOrCounted'
  BY DEF KilledOrCounted, NoLive, vars, table, shutdown, system
<1>2. IInv /\ KilledOrCounted /\ [Next]_vars => KilledOrCounted'
  BY <1>1, KilledStep
<1>3. IInv /\ KilledOrCounted => NoneLeft
  BY DEF IInv, Flow, KilledOrCounted, NoneLeft, NoLive
<1> QED
  BY Invariance, InitKilled, <1>2, <1>3, PTL DEF Spec
=============================================================================
