-------------------------- MODULE LinkLock_proofs --------------------------
(***************************************************************************)
(* Proofs about LinkLock, for any number of callers, files, broken waits   *)
(* and deaths.                                                             *)
(***************************************************************************)
EXTENDS LinkLock, TLAPS

(* A process has the file open that it waits for, and until it is unlocked, *)
(* locked.                                                                  *)
Locked == \A p \in Pids :
  /\ pc[p] \in {"lock", "test", "write", "flock"} => fd[p] \in 1 .. made
  /\ pc[p] \in {"test", "write"} => lock[fd[p]] = p

(* A daemon's writer lives no longer than its reader waits for it.          *)
WriterEnded == \A c \in Callers :
  pc[Reader(c)] \notin {"daemon", "flock", "reap", "gone"} => ~Alive(Writer(c))

(* While a caller writes its numbers in the lock file, no daemon is active. *)
TakenFree == races = {} =>
  \A c, d \in Callers :
     pc[Reader(c)] = "write" /\ fd[Reader(c)] = file => ~Active(d)

(* The inductive invariant. *)
IInv == LockTypeOK /\ Locked /\ WriterEnded /\ TakenFree /\ LockIsThere

(* The processes of two callers are different ones. *)
LEMMA PidFacts ==
  /\ \A c \in Callers : Reader(c) \in Pids /\ Writer(c) \in Pids
  /\ \A c, d \in Callers : Reader(c) # Writer(d)
  /\ \A c, d \in Callers : Reader(c) = Reader(d) \/ Writer(c) = Writer(d) => c = d
  /\ \A p \in Pids : \E c \in Callers : p = Reader(c) \/ p = Writer(c)
BY DEF Reader, Writer, Pids

(* Whoever leaves the steps between lock and unlock has unlocked.           *)
LEMMA TypeStep ==
  ASSUME LockTypeOK, Locked, WriterEnded, Next
  PROVE  LockTypeOK'
<1>1. ASSUME NEW c \in Callers, Start(c) PROVE LockTypeOK'
  BY <1>1, PidFacts DEF Start, Goto, LockTypeOK, SetLockSteps, States
<1>2. ASSUME NEW c \in Callers, Stat(c) PROVE LockTypeOK'
  BY <1>2, PidFacts DEF Stat, Goto, LockTypeOK, SetLockSteps, States
<1>3. ASSUME NEW c \in Callers, MakeLock(c) PROVE LockTypeOK'
  <2>1. made \in Nat /\ MaxFiles \in Nat /\ file \in Nat /\ made <= MaxFiles /\ file <= made
    BY LinkLockAssumption DEF LockTypeOK
  <2>2. made' \in 0 .. MaxFiles /\ file' \in 0 .. made'
    BY <1>3, <2>1 DEF MakeLock
  <2>3. lck_pid' \in [Files -> Pids \cup {NoPid, OldPid}]
    BY <1>3 DEF MakeLock, LockTypeOK
  <2>4. races' \subseteq {"create", "move", "half", "unlinked", "unlink"}
    <3>1. races' \in {races, races \cup {"create"}}
      BY <1>3 DEF MakeLock, Raced
    <3>2. QED
      BY <3>1 DEF LockTypeOK
  <2>5. pc' \in [Pids -> States] /\ UNCHANGED <<fd, lock, looping>>
    BY <1>3 DEF MakeLock, Goto, LockTypeOK, SetLockSteps, States
  <2>6. \A p \in Pids : pc'[p] = IF p = Reader(c) THEN "open" ELSE pc[p]
    BY <1>3 DEF MakeLock, Goto, LockTypeOK
  <2>7. pc[Reader(c)] = "make"
    BY <1>3 DEF MakeLock
  <2>8. ASSUME NEW f \in Files, lock[f] # NoPid
        PROVE  pc'[lock[f]] \in {"test", "write", "reap", "unlock"} /\ fd[lock[f]] = f
    BY <2>6, <2>7, <2>8 DEF LockTypeOK
  <2>9. QED
    BY <2>2, <2>3, <2>4, <2>5, <2>8 DEF LockTypeOK
<1>4. ASSUME NEW c \in Callers, Alarm(c) PROVE LockTypeOK'
  <2>1. pc' = [pc EXCEPT ![Reader(c)] = IF c \in looping THEN "gone" ELSE "stat"]
    BY <1>4 DEF Alarm, Goto
  <2>2. races' \subseteq {"create", "move", "half", "unlinked", "unlink"}
    <3>1. races' \in {races, races \cup {"move"}}
      BY <1>4 DEF Alarm, Raced
    <3>2. QED
      BY <3>1 DEF LockTypeOK
  <2>3. file' \in {0, file} /\ looping' \in {looping, looping \cup {c}}
    BY <1>4 DEF Alarm
  <2>4. pc[Reader(c)] = "lock" /\ UNCHANGED <<fd, made, lck_pid, lock>>
    BY <1>4 DEF Alarm
  <2>5. file' \in 0 .. made /\ looping' \subseteq Callers
    BY <2>3 DEF LockTypeOK
  <2>6. QED
    BY <2>1, <2>2, <2>4, <2>5, PidFacts DEF LockTypeOK, SetLockSteps, States
<1>5. ASSUME NEW c \in Callers, Refused(c) PROVE LockTypeOK'
  BY <1>5, PidFacts DEF Refused, Goto, UnLock, LockTypeOK, States
<1>6. ASSUME NEW c \in Callers, Granted(c) PROVE LockTypeOK'
  BY <1>6, PidFacts DEF Granted, Goto, LockTypeOK, SetLockSteps, Raced, States
<1>7. ASSUME NEW c \in Callers, write_lock(c) PROVE LockTypeOK'
  BY <1>7, PidFacts DEF write_lock, Goto, UnLock, LockTypeOK, Locked, Files,
       Raced, States
<1>8. ASSUME NEW c \in Callers, GiveUp(c) PROVE LockTypeOK'
  BY <1>8, PidFacts DEF GiveUp, Goto, Unlinking, LockTypeOK, Raced, States
<1>9. ASSUME NEW c \in Callers, Fork(c) PROVE LockTypeOK'
  <2>1. \A p \in Pids : pc'[p] = CASE p = Reader(c) -> "daemon" [] p = Writer(c) -> "open" [] OTHER -> pc[p]
    BY <1>9 DEF Fork, LockTypeOK
  <2>2. pc' \in [Pids -> States]
    BY <1>9 DEF Fork, LockTypeOK, SetLockSteps, States
  <2>3. UNCHANGED <<fd, file, made, lck_pid, lock, looping, races>>
    BY <1>9 DEF Fork
  <2>4. pc[Reader(c)] = "held" /\ ~Alive(Writer(c))
    BY <1>9 DEF Fork, WriterEnded
  <2>5. pc[Writer(c)] \in {"idle", "gone"}
    BY <2>4, PidFacts DEF Alive
  <2>6. ASSUME NEW f \in Files, lock[f] # NoPid
        PROVE  pc'[lock[f]] \in {"test", "write", "reap", "unlock"}
    BY <2>1, <2>4, <2>5, <2>6 DEF LockTypeOK
  <2>7. QED
    BY <2>2, <2>3, <2>6 DEF LockTypeOK
<1>10. ASSUME NEW c \in Callers, ReSetTest(c) PROVE LockTypeOK'
  BY <1>10, PidFacts DEF ReSetTest, Goto, UnLock, LockTypeOK, SetLockSteps,
       States
<1>11. ASSUME NEW c \in Callers, ReSetWrite(c) PROVE LockTypeOK'
  BY <1>11, PidFacts DEF ReSetWrite, Goto, UnLock, LockTypeOK, Locked, Files,
       States
<1>12. ASSUME NEW c \in Callers, WriterEnds(c) PROVE LockTypeOK'
  BY <1>12, PidFacts DEF WriterEnds, Goto, LockTypeOK, States
<1>13. ASSUME NEW c \in Callers, Finish(c) PROVE LockTypeOK'
  BY <1>13, LinkLockAssumption, PidFacts DEF Finish, Goto, LockTypeOK,
       FinishSteps, States
<1>14. ASSUME NEW c \in Callers, FinishLock(c) PROVE LockTypeOK'
  BY <1>14, PidFacts DEF FinishLock, Goto, LockTypeOK, FinishSteps, Locked,
       Files, States
<1>15. ASSUME NEW c \in Callers, Reap(c) PROVE LockTypeOK'
  BY <1>15, PidFacts DEF Reap, Goto, LockTypeOK, FinishSteps, Files, States
<1>16. ASSUME NEW c \in Callers, FinishUnLock(c) PROVE LockTypeOK'
  BY <1>16, PidFacts DEF FinishUnLock, Goto, UnLock, LockTypeOK, States
<1>17. ASSUME NEW c \in Callers, FinishUnlink(c) PROVE LockTypeOK'
  BY <1>17, PidFacts DEF FinishUnlink, Goto, Unlinking, LockTypeOK, Raced,
       States
<1>18. ASSUME NEW c \in Callers, Exit(c) PROVE LockTypeOK'
  BY <1>18, PidFacts DEF Exit, Goto, LockTypeOK, States
<1>19. ASSUME NEW p \in Pids, Open(p) PROVE LockTypeOK'
  BY <1>19, LinkLockAssumption DEF Open, Goto, LockTypeOK, SetLockSteps,
       States
<1>20. ASSUME NEW p \in Pids, LockFile(p) PROVE LockTypeOK'
  BY <1>20 DEF LockFile, Goto, LockTypeOK, SetLockSteps, Locked, Files, States
<1>21. ASSUME NEW p \in Pids, Die(p) PROVE LockTypeOK'
  BY <1>21 DEF Die, Goto, UnLock, LockTypeOK, States
<1>22. QED
  BY <1>1, <1>2, <1>3, <1>4, <1>5, <1>6, <1>7, <1>8, <1>9, <1>10, <1>11,
       <1>12, <1>13, <1>14, <1>15, <1>16, <1>17, <1>18, <1>19, <1>20, <1>21
       DEF Next, SetLock, ReSetLock, finish

(* A process that has opened the file keeps it open, and locked once it is. *)
LEMMA LockedStep ==
  ASSUME LockTypeOK, Locked, Next
  PROVE  Locked'
<1>1. ASSUME NEW c \in Callers, Start(c) PROVE Locked'
  BY <1>1 DEF Start, Goto, LockTypeOK, Locked
<1>2. ASSUME NEW c \in Callers, Stat(c) PROVE Locked'
  BY <1>2 DEF Stat, Goto, LockTypeOK, Locked
<1>3. ASSUME NEW c \in Callers, MakeLock(c) PROVE Locked'
  BY <1>3 DEF MakeLock, Goto, LockTypeOK, Locked
<1>4. ASSUME NEW c \in Callers, Alarm(c) PROVE Locked'
  BY <1>4 DEF Alarm, Goto, LockTypeOK, Locked
<1>5. ASSUME NEW c \in Callers, Refused(c) PROVE Locked'
  BY <1>5 DEF Refused, Goto, UnLock, LockTypeOK, Locked, Files
<1>6. ASSUME NEW c \in Callers, Granted(c) PROVE Locked'
  BY <1>6 DEF Granted, Goto, LockTypeOK, Locked
<1>7. ASSUME NEW c \in Callers, write_lock(c) PROVE Locked'
  BY <1>7 DEF write_lock, Goto, UnLock, LockTypeOK, Locked, Files
<1>8. ASSUME NEW c \in Callers, GiveUp(c) PROVE Locked'
  BY <1>8 DEF GiveUp, Goto, Unlinking, LockTypeOK, Locked
<1>9. ASSUME NEW c \in Callers, Fork(c) PROVE Locked'
  BY <1>9 DEF Fork, LockTypeOK, Locked
<1>10. ASSUME NEW c \in Callers, ReSetTest(c) PROVE Locked'
  BY <1>10, LinkLockAssumption DEF ReSetTest, Goto, UnLock, LockTypeOK,
       Locked, Files
<1>11. ASSUME NEW c \in Callers, ReSetWrite(c) PROVE Locked'
  BY <1>11 DEF ReSetWrite, Goto, UnLock, LockTypeOK, Locked, Files
<1>12. ASSUME NEW c \in Callers, WriterEnds(c) PROVE Locked'
  BY <1>12 DEF WriterEnds, Goto, LockTypeOK, Locked
<1>13. ASSUME NEW c \in Callers, Finish(c) PROVE Locked'
  BY <1>13 DEF Finish, Goto, LockTypeOK, Locked
<1>14. ASSUME NEW c \in Callers, FinishLock(c) PROVE Locked'
  BY <1>14, LinkLockAssumption DEF FinishLock, Goto, LockTypeOK, Locked
<1>15. ASSUME NEW c \in Callers, Reap(c) PROVE Locked'
  BY <1>15 DEF Reap, Goto, LockTypeOK, Locked
<1>16. ASSUME NEW c \in Callers, FinishUnLock(c) PROVE Locked'
  BY <1>16 DEF FinishUnLock, Goto, UnLock, LockTypeOK, Locked, Files
<1>17. ASSUME NEW c \in Callers, FinishUnlink(c) PROVE Locked'
  BY <1>17 DEF FinishUnlink, Goto, Unlinking, LockTypeOK, Locked
<1>18. ASSUME NEW c \in Callers, Exit(c) PROVE Locked'
  BY <1>18 DEF Exit, Goto, LockTypeOK, Locked
<1>19. ASSUME NEW p \in Pids, Open(p) PROVE Locked'
  BY <1>19 DEF Open, Goto, LockTypeOK, Locked
<1>20. ASSUME NEW p \in Pids, LockFile(p) PROVE Locked'
  BY <1>20, LinkLockAssumption DEF LockFile, Goto, LockTypeOK, Locked, Files
<1>21. ASSUME NEW p \in Pids, Die(p) PROVE Locked'
  BY <1>21 DEF Die, Goto, UnLock, LockTypeOK, Locked, Files
<1>22. QED
  BY <1>1, <1>2, <1>3, <1>4, <1>5, <1>6, <1>7, <1>8, <1>9, <1>10, <1>11,
       <1>12, <1>13, <1>14, <1>15, <1>16, <1>17, <1>18, <1>19, <1>20, <1>21
       DEF Next, SetLock, ReSetLock, finish

(* Only Fork starts a writer, and finish waits for its end.                 *)
LEMMA EndedStep ==
  ASSUME LockTypeOK, WriterEnded, Next
  PROVE  WriterEnded'
<1>1. ASSUME NEW c \in Callers, Start(c) PROVE WriterEnded'
  BY <1>1, PidFacts DEF Start, Goto, LockTypeOK, WriterEnded, Alive
<1>2. ASSUME NEW c \in Callers, Stat(c) PROVE WriterEnded'
  BY <1>2 DEF Stat, Goto, LockTypeOK, WriterEnded, Alive
<1>3. ASSUME NEW c \in Callers, MakeLock(c) PROVE WriterEnded'
  BY <1>3 DEF MakeLock, Goto, LockTypeOK, WriterEnded, Alive
<1>4. ASSUME NEW c \in Callers, Alarm(c) PROVE WriterEnded'
  BY <1>4, PidFacts DEF Alarm, Goto, LockTypeOK, WriterEnded, Alive
<1>5. ASSUME NEW c \in Callers, Refused(c) PROVE WriterEnded'
  BY <1>5 DEF Refused, Goto, UnLock, LockTypeOK, WriterEnded, Alive
<1>6. ASSUME NEW c \in Callers, Granted(c) PROVE WriterEnded'
  BY <1>6 DEF Granted, Goto, LockTypeOK, WriterEnded, Alive
<1>7. ASSUME NEW c \in Callers, write_lock(c) PROVE WriterEnded'
  BY <1>7 DEF write_lock, Goto, UnLock, LockTypeOK, WriterEnded, Alive
<1>8. ASSUME NEW c \in Callers, GiveUp(c) PROVE WriterEnded'
  BY <1>8 DEF GiveUp, Goto, Unlinking, LockTypeOK, WriterEnded, Alive
<1>9. ASSUME NEW c \in Callers, Fork(c) PROVE WriterEnded'
  BY <1>9, PidFacts DEF Fork, LockTypeOK, WriterEnded, Alive
<1>10. ASSUME NEW c \in Callers, ReSetTest(c) PROVE WriterEnded'
  BY <1>10 DEF ReSetTest, Goto, UnLock, LockTypeOK, WriterEnded, Alive
<1>11. ASSUME NEW c \in Callers, ReSetWrite(c) PROVE WriterEnded'
  BY <1>11 DEF ReSetWrite, Goto, UnLock, LockTypeOK, WriterEnded, Alive
<1>12. ASSUME NEW c \in Callers, WriterEnds(c) PROVE WriterEnded'
  BY <1>12 DEF WriterEnds, Goto, LockTypeOK, WriterEnded, Alive
<1>13. ASSUME NEW c \in Callers, Finish(c) PROVE WriterEnded'
  BY <1>13 DEF Finish, Goto, LockTypeOK, WriterEnded, Alive
<1>14. ASSUME NEW c \in Callers, FinishLock(c) PROVE WriterEnded'
  BY <1>14 DEF FinishLock, Goto, LockTypeOK, WriterEnded, Alive
<1>15. ASSUME NEW c \in Callers, Reap(c) PROVE WriterEnded'
  BY <1>15, PidFacts DEF Reap, Goto, LockTypeOK, WriterEnded, Alive
<1>16. ASSUME NEW c \in Callers, FinishUnLock(c) PROVE WriterEnded'
  BY <1>16 DEF FinishUnLock, Goto, UnLock, LockTypeOK, WriterEnded, Alive
<1>17. ASSUME NEW c \in Callers, FinishUnlink(c) PROVE WriterEnded'
  BY <1>17 DEF FinishUnlink, Goto, Unlinking, LockTypeOK, WriterEnded, Alive
<1>18. ASSUME NEW c \in Callers, Exit(c) PROVE WriterEnded'
  BY <1>18 DEF Exit, Goto, LockTypeOK, WriterEnded, Alive
<1>19. ASSUME NEW p \in Pids, Open(p) PROVE WriterEnded'
  BY <1>19 DEF Open, Goto, LockTypeOK, WriterEnded, Alive
<1>20. ASSUME NEW p \in Pids, LockFile(p) PROVE WriterEnded'
  BY <1>20 DEF LockFile, Goto, LockTypeOK, WriterEnded, Alive
<1>21. ASSUME NEW p \in Pids, Die(p) PROVE WriterEnded'
  BY <1>21 DEF Die, Goto, UnLock, LockTypeOK, WriterEnded, Alive
<1>22. QED
  BY <1>1, <1>2, <1>3, <1>4, <1>5, <1>6, <1>7, <1>8, <1>9, <1>10, <1>11,
       <1>12, <1>13, <1>14, <1>15, <1>16, <1>17, <1>18, <1>19, <1>20, <1>21
       DEF Next, SetLock, ReSetLock, finish

(* A lock is granted when no daemon is active, and until the file is        *)
(* written no other caller is granted it: the file is locked.               *)
LEMMA FreeStep ==
  ASSUME IInv, Next
  PROVE  TakenFree'
<1>1. ASSUME NEW c \in Callers, Start(c) PROVE TakenFree'
  BY <1>1, PidFacts DEF Start, Goto, IInv, LockTypeOK, FinishSteps, TakenFree,
       Alive, Active
<1>2. ASSUME NEW c \in Callers, Stat(c) PROVE TakenFree'
  BY <1>2 DEF Stat, Goto, IInv, LockTypeOK, FinishSteps, TakenFree, Alive,
       Active
<1>3. ASSUME NEW c \in Callers, MakeLock(c) PROVE TakenFree'
  BY <1>3 DEF MakeLock, Goto, IInv, LockTypeOK, FinishSteps, TakenFree,
       LockIsThere, Raced, Alive, Active
<1>4. ASSUME NEW c \in Callers, Alarm(c) PROVE TakenFree'
  BY <1>4, PidFacts DEF Alarm, Goto, IInv, LockTypeOK, FinishSteps, TakenFree,
       Locked, Alive, Active
<1>5. ASSUME NEW c \in Callers, Refused(c) PROVE TakenFree'
  BY <1>5 DEF Refused, Goto, UnLock, IInv, LockTypeOK, FinishSteps, TakenFree,
       Alive, Active
<1>6. ASSUME NEW c \in Callers, Granted(c) PROVE TakenFree'
  BY <1>6, PidFacts DEF Granted, Goto, IInv, LockTypeOK, FinishSteps,
       TakenFree, WriterEnded, LockIsThere, Own, Half, Raced, Alive, Active
<1>7. ASSUME NEW c \in Callers, write_lock(c) PROVE TakenFree'
  BY <1>7, PidFacts DEF write_lock, Goto, UnLock, IInv, LockTypeOK, TakenFree,
       Locked, Raced
<1>8. ASSUME NEW c \in Callers, GiveUp(c) PROVE TakenFree'
  BY <1>8, PidFacts DEF GiveUp, Goto, Unlinking, IInv, LockTypeOK, TakenFree,
       Locked
<1>9. ASSUME NEW c \in Callers, Fork(c) PROVE TakenFree'
  BY <1>9, PidFacts DEF Fork, IInv, LockTypeOK, TakenFree, Active
<1>10. ASSUME NEW c \in Callers, ReSetTest(c) PROVE TakenFree'
  BY <1>10, PidFacts DEF ReSetTest, Goto, UnLock, IInv, LockTypeOK, TakenFree,
       Alive, Active
<1>11. ASSUME NEW c \in Callers, ReSetWrite(c) PROVE TakenFree'
  BY <1>11 DEF ReSetWrite, Goto, UnLock, IInv, LockTypeOK, TakenFree, Alive,
       Active
<1>12. ASSUME NEW c \in Callers, WriterEnds(c) PROVE TakenFree'
  BY <1>12 DEF WriterEnds, Goto, IInv, LockTypeOK, TakenFree, Alive, Active
<1>13. ASSUME NEW c \in Callers, Finish(c) PROVE TakenFree'
  BY <1>13 DEF Finish, Goto, IInv, LockTypeOK, TakenFree, Active
<1>14. ASSUME NEW c \in Callers, FinishLock(c) PROVE TakenFree'
  BY <1>14 DEF FinishLock, Goto, IInv, LockTypeOK, FinishSteps, TakenFree,
       Active
<1>15. ASSUME NEW c \in Callers, Reap(c) PROVE TakenFree'
  BY <1>15 DEF Reap, Goto, IInv, LockTypeOK, FinishSteps, TakenFree, Active
<1>16. ASSUME NEW c \in Callers, FinishUnLock(c) PROVE TakenFree'
  BY <1>16 DEF FinishUnLock, Goto, UnLock, IInv, LockTypeOK, FinishSteps,
       TakenFree, Active
<1>17. ASSUME NEW c \in Callers, FinishUnlink(c) PROVE TakenFree'
  BY <1>17, PidFacts DEF FinishUnlink, Goto, Unlinking, IInv, LockTypeOK,
       TakenFree, Locked
<1>18. ASSUME NEW c \in Callers, Exit(c) PROVE TakenFree'
  BY <1>18 DEF Exit, Goto, IInv, LockTypeOK, FinishSteps, TakenFree, Alive,
       Active
<1>19. ASSUME NEW p \in Pids, Open(p) PROVE TakenFree'
  BY <1>19 DEF Open, Goto, IInv, LockTypeOK, FinishSteps, TakenFree, Alive,
       Active
<1>20. ASSUME NEW p \in Pids, LockFile(p) PROVE TakenFree'
  BY <1>20 DEF LockFile, Goto, IInv, LockTypeOK, FinishSteps, TakenFree,
       Alive, Active
<1>21. ASSUME NEW p \in Pids, Die(p) PROVE TakenFree'
  BY <1>21 DEF Die, Goto, UnLock, IInv, LockTypeOK, FinishSteps, TakenFree,
       Alive, Active
<1>22. QED
  BY <1>1, <1>2, <1>3, <1>4, <1>5, <1>6, <1>7, <1>8, <1>9, <1>10, <1>11,
       <1>12, <1>13, <1>14, <1>15, <1>16, <1>17, <1>18, <1>19, <1>20, <1>21
       DEF Next, SetLock, ReSetLock, finish

(* What becomes active has its number in the file; the file changes, or     *)
(* goes, only when its daemon is not active.                                *)
LEMMA ThereStep ==
  ASSUME IInv, Next
  PROVE  LockIsThere'
<1>1. ASSUME NEW c \in Callers, Start(c) PROVE LockIsThere'
  BY <1>1, PidFacts DEF Start, Goto, IInv, LockTypeOK, FinishSteps,
       LockIsThere, Alive, Active
<1>2. ASSUME NEW c \in Callers, Stat(c) PROVE LockIsThere'
  BY <1>2 DEF Stat, Goto, IInv, LockTypeOK, FinishSteps, LockIsThere, Alive,
       Active
<1>3. ASSUME NEW c \in Callers, MakeLock(c) PROVE LockIsThere'
  <2>1. CASE file = 0
    <3>1. races' = races /\ pc' = [pc EXCEPT ![Reader(c)] = "open"] /\ pc[Reader(c)] = "make"
      BY <1>3, <2>1 DEF MakeLock, Goto
    <3>2. ASSUME NEW d \in Callers, Active(d)' PROVE Active(d)
      BY <3>1, <3>2 DEF Active, LockTypeOK, FinishSteps, Alive
    <3>3. QED
      BY <2>1, <3>1, <3>2 DEF IInv, LockIsThere
  <2>2. CASE file # 0
    <3>1. /\ pc' = [pc EXCEPT ![Reader(c)] = "open"] /\ pc[Reader(c)] = "make"
          /\ file' = file
      BY <1>3, <2>2 DEF MakeLock, Goto
    <3>2. races' = {} => races = {} /\ lck_pid[file] = NoPid
      BY <1>3, <2>2 DEF MakeLock, Raced
    <3>3. ASSUME NEW d \in Callers, Active(d)' PROVE Active(d)
      BY <3>1, <3>3 DEF Active, LockTypeOK, FinishSteps, Alive
    <3>4. races' = {} => \A d \in Callers : ~Active(d)
      BY <3>2, LinkLockAssumption, PidFacts DEF IInv, LockIsThere, Own
    <3>5. QED
      BY <3>2, <3>3, <3>4 DEF IInv, LockIsThere
  <2>3. QED
    BY <2>1, <2>2
<1>4. ASSUME NEW c \in Callers, Alarm(c) PROVE LockIsThere'
  <2>1. /\ pc' = [pc EXCEPT ![Reader(c)] = IF c \in looping THEN "gone" ELSE "stat"]
        /\ pc[Reader(c)] = "lock"
        /\ lck_pid' = lck_pid
    BY <1>4 DEF Alarm, Goto
  <2>2. ASSUME NEW d \in Callers, Active(d)' PROVE Active(d)
    BY <2>1, <2>2 DEF Active, LockTypeOK, FinishSteps, Alive
  <2>3. races' = {} => races = {} /\ file' = file
    BY <1>4 DEF Alarm, Raced
  <2>4. QED
    BY <2>1, <2>2, <2>3 DEF IInv, LockIsThere
<1>5. ASSUME NEW c \in Callers, Refused(c) PROVE LockIsThere'
  BY <1>5 DEF Refused, Goto, UnLock, IInv, LockTypeOK, FinishSteps,
       LockIsThere, Alive, Active
<1>6. ASSUME NEW c \in Callers, Granted(c) PROVE LockIsThere'
  BY <1>6 DEF Granted, Goto, IInv, LockTypeOK, FinishSteps, LockIsThere,
       Raced, Alive, Active
<1>7. ASSUME NEW c \in Callers, write_lock(c) PROVE LockIsThere'
  BY <1>7 DEF write_lock, Goto, UnLock, IInv, LockTypeOK, TakenFree, Locked,
       LockIsThere, Own, Files, Raced, Alive, Active
<1>8. ASSUME NEW c \in Callers, GiveUp(c) PROVE LockIsThere'
  BY <1>8, PidFacts DEF GiveUp, Goto, Unlinking, IInv, LockTypeOK,
       FinishSteps, WriterEnded, LockIsThere, Own, Raced, Alive, Active
<1>9. ASSUME NEW c \in Callers, Fork(c) PROVE LockIsThere'
  BY <1>9, PidFacts DEF Fork, IInv, LockTypeOK, LockIsThere, Alive, Active
<1>10. ASSUME NEW c \in Callers, ReSetTest(c) PROVE LockIsThere'
  BY <1>10, PidFacts DEF ReSetTest, Goto, UnLock, IInv, LockTypeOK,
       LockIsThere, Alive, Active
<1>11. ASSUME NEW c \in Callers, ReSetWrite(c) PROVE LockIsThere'
  BY <1>11, PidFacts DEF ReSetWrite, Goto, UnLock, IInv, LockTypeOK,
       LockIsThere, Own, Alive, Active
<1>12. ASSUME NEW c \in Callers, WriterEnds(c) PROVE LockIsThere'
  BY <1>12, PidFacts DEF WriterEnds, Goto, IInv, LockTypeOK, LockIsThere,
       Alive, Active
<1>13. ASSUME NEW c \in Callers, Finish(c) PROVE LockIsThere'
  BY <1>13 DEF Finish, Goto, IInv, LockTypeOK, LockIsThere, Alive, Active
<1>14. ASSUME NEW c \in Callers, FinishLock(c) PROVE LockIsThere'
  BY <1>14 DEF FinishLock, Goto, IInv, LockTypeOK, FinishSteps, LockIsThere,
       Alive, Active
<1>15. ASSUME NEW c \in Callers, Reap(c) PROVE LockIsThere'
  BY <1>15 DEF Reap, Goto, IInv, LockTypeOK, FinishSteps, LockIsThere, Alive,
       Active
<1>16. ASSUME NEW c \in Callers, FinishUnLock(c) PROVE LockIsThere'
  BY <1>16 DEF FinishUnLock, Goto, UnLock, IInv, LockTypeOK, FinishSteps,
       LockIsThere, Alive, Active
<1>17. ASSUME NEW c \in Callers, FinishUnlink(c) PROVE LockIsThere'
  BY <1>17, PidFacts DEF FinishUnlink, Goto, Unlinking, IInv, LockTypeOK,
       FinishSteps, WriterEnded, LockIsThere, Own, Raced, Alive, Active
<1>18. ASSUME NEW c \in Callers, Exit(c) PROVE LockIsThere'
  BY <1>18 DEF Exit, Goto, IInv, LockTypeOK, FinishSteps, LockIsThere, Alive,
       Active
<1>19. ASSUME NEW p \in Pids, Open(p) PROVE LockIsThere'
  BY <1>19 DEF Open, Goto, IInv, LockTypeOK, FinishSteps, LockIsThere, Alive,
       Active
<1>20. ASSUME NEW p \in Pids, LockFile(p) PROVE LockIsThere'
  BY <1>20 DEF LockFile, Goto, IInv, LockTypeOK, FinishSteps, LockIsThere,
       Alive, Active
<1>21. ASSUME NEW p \in Pids, Die(p) PROVE LockIsThere'
  BY <1>21 DEF Die, Goto, UnLock, IInv, LockTypeOK, FinishSteps, LockIsThere,
       Alive, Active
<1>22. QED
  BY <1>1, <1>2, <1>3, <1>4, <1>5, <1>6, <1>7, <1>8, <1>9, <1>10, <1>11,
       <1>12, <1>13, <1>14, <1>15, <1>16, <1>17, <1>18, <1>19, <1>20, <1>21
       DEF Next, SetLock, ReSetLock, finish

LEMMA InitIInv == Init => IInv
BY LinkLockAssumption, PidFacts DEF Init, IInv, LockTypeOK, FinishSteps,
     TakenFree, WriterEnded, Locked, LockIsThere, Alive, Active, States

LEMMA NextIInv == IInv /\ [Next]_vars => IInv'
<1> SUFFICES ASSUME IInv, [Next]_vars PROVE IInv'
  OBVIOUS
<1>1. CASE Next
  <2>1. LockTypeOK'
    BY <1>1, TypeStep DEF IInv
  <2>2. Locked'
    BY <1>1, LockedStep DEF IInv
  <2>3. WriterEnded'
    BY <1>1, EndedStep DEF IInv
  <2>4. TakenFree' /\ LockIsThere'
    BY <1>1, FreeStep, ThereStep
  <2>5. QED
    BY <2>1, <2>2, <2>3, <2>4 DEF IInv
<1>2. CASE UNCHANGED vars
  BY <1>2 DEF vars, IInv, LockTypeOK, TakenFree, WriterEnded, Locked,
       LockIsThere, Alive, Active
<1>3. QED
  BY <1>1, <1>2

LEMMA Invariant == Spec => []IInv
BY InitIInv, NextIInv, PTL DEF Spec

(* The lock's state stays in its types, and a file is locked only by a      *)
(* process between its lock and its unlock, with that file open: every way  *)
(* out of SetLock, ReSetLock and finish gives the lock back.                *)
THEOREM LinkLockTypeOK == Spec => []LockTypeOK
<1>1. IInv => LockTypeOK
  BY DEF IInv
<1>2. QED
  BY <1>1, Invariant, PTL

(* The lock of an active daemon is there, and names one of its processes,   *)
(* from the moment its caller is granted the link until finish.             *)
THEOREM LinkLockIsThere == Spec => []LockIsThere
<1>1. IInv => LockIsThere
  BY DEF IInv
<1>2. QED
  BY <1>1, Invariant, PTL

(* Two daemons are not active on one link, unless one of the named races    *)
(* has happened: one lock file cannot name a process of each.               *)
THEOREM LinkOneDaemon == Spec => []OneDaemonUnlessRaced
<1>1. IInv => OneDaemonUnlessRaced
  <2> SUFFICES ASSUME IInv, races = {},
                      NEW c \in Callers, NEW d \in Callers, Active(c), Active(d)
               PROVE  c = d
    BY DEF OneDaemonUnlessRaced, OneDaemon
  <2>1. lck_pid[file] \in Own(c) /\ lck_pid[file] \in Own(d)
    BY DEF IInv, LockIsThere
  <2>2. QED
    BY <2>1, PidFacts DEF Own
<1>2. QED
  BY <1>1, Invariant, PTL
=============================================================================
