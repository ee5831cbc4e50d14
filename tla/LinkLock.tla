------------------------------ MODULE LinkLock ------------------------------
(***************************************************************************)
(* Lib/SetLock.c and its users: the file cmds/lock, which is to prevent    *)
(* two daemons from becoming active on one link.                           *)
(*                                                                         *)
(* A caller (VCsetup/call.c, or shell.c when the other end calls) sets the *)
(* lock and executes the daemon.  The daemon forks a writer, which puts    *)
(* its own process number into the file (ReSetLock); the reader removes    *)
(* the file in the end (finish in VCdaemon/main.c).  A file that was       *)
(* opened lives on when its name is removed.                               *)
(*                                                                         *)
(* Left out: other nodes on a shared file system, process numbers that are *)
(* used again, the options to ignore or keep an old lock, forkdaemon, and  *)
(* system calls that fail for other reasons than these.                    *)
(***************************************************************************)
EXTENDS Naturals, FiniteSets

CONSTANTS
  Callers,    \* processes that start a daemon for the link
  MaxFiles,   \* bound: lock files made
  MaxAlarms,  \* bound: waits for a lock that are broken off
  MaxDeaths   \* bound: processes killed

Reader(c) == <<c, "reader">>
Writer(c) == <<c, "writer">>
Pids == Callers \X {"reader", "writer"}
Files == 1 .. MaxFiles

CONSTANTS
  NoPid,      \* an empty lock file
  OldPid      \* a process that ended long ago

ASSUME LinkLockAssumption ==
  /\ NoPid \notin Pids /\ OldPid \notin Pids /\ NoPid # OldPid
  /\ MaxFiles \in Nat \ {0} /\ MaxAlarms \in Nat /\ MaxDeaths \in Nat

VARIABLES
  pc,        \* pc[p]: where process p is
  fd,        \* fd[p]: the file it has open, or 0
  file,      \* the file that has the name cmds/lock, or 0
  made,      \* files made so far
  lck_pid,   \* lck_pid[f]: the process number in file f
  lock,      \* lock[f]: the process that has file f locked (fcntl)
  looping,   \* callers that have broken off a wait before
  races,     \* history: the known ways round the lock that have happened
  alarms, deaths

vars == <<pc, fd, file, made, lck_pid, lock, looping, races, alarms, deaths>>

SetLockSteps == {"stat", "make", "open", "lock", "test", "write"}
FinishSteps == {"flock", "reap", "unlock"}
States == {"idle", "held", "daemon", "run", "unlink", "exit", "gone"} \cup SetLockSteps \cup FinishSteps

Alive(p) == p \in Pids /\ pc[p] \notin {"idle", "gone"}

(* Either process of the daemon that caller c started, or c itself. *)
Own(c) == {Reader(c), Writer(c)}

Init ==
  /\ pc = [p \in Pids |-> "idle"]
  /\ fd = [p \in Pids |-> 0]
  /\ file \in {0, 1} /\ made = file
  /\ lck_pid = [f \in Files |-> IF f <= made THEN OldPid ELSE NoPid]
  /\ lock = [f \in Files |-> NoPid]
  /\ looping = {} /\ races = {}
  /\ alarms = 0 /\ deaths = 0

Goto(p, s) == pc' = [pc EXCEPT ![p] = s]
UnLock(p) == lock' = [f \in Files |-> IF lock[f] = p THEN NoPid ELSE lock[f]]
Raced(r, condition) == races' = IF condition THEN races \cup {r} ELSE races
Bounds == <<alarms, deaths>>

-----------------------------------------------------------------------------
(* SetLock: is there a lock file? *)
Start(c) ==
  /\ pc[Reader(c)] = "idle"
  /\ Goto(Reader(c), "stat")
  /\ UNCHANGED <<fd, file, made, lck_pid, lock, looping, races, Bounds>>

Stat(c) ==
  /\ pc[Reader(c)] = "stat"
  /\ Goto(Reader(c), IF file = 0 THEN "make" ELSE "open")
  /\ UNCHANGED <<fd, file, made, lck_pid, lock, looping, races, Bounds>>

(* MakeLock: creat(2) makes the file, or empties one that was made since.   *)
MakeLock(c) ==
  /\ pc[Reader(c)] = "make"
  /\ Goto(Reader(c), "open")
  /\ IF file = 0
     THEN /\ made < MaxFiles
          /\ made' = made + 1 /\ file' = made'
          /\ UNCHANGED <<lck_pid, races>>
     ELSE /\ lck_pid' = [lck_pid EXCEPT ![file] = NoPid]
          /\ Raced("create", lck_pid[file] # NoPid)
          /\ UNCHANGED <<made, file>>
  /\ UNCHANGED <<fd, lock, looping, Bounds>>

(* SetLock, by a caller, and ReSetLock, by its writer, open the file; they  *)
(* fail if it is gone.                                                      *)
Open(p) ==
  /\ pc[p] = "open"
  /\ fd' = [fd EXCEPT ![p] = file]
  /\ Goto(p, IF file = 0 THEN "gone" ELSE "lock")
  /\ UNCHANGED <<file, made, lck_pid, lock, looping, races, Bounds>>

(* Wrong: the file is not locked. *)
LockFileAnyway(p) ==
  /\ pc[p] = "lock"
  /\ Goto(p, "test")
  /\ UNCHANGED <<fd, file, made, lck_pid, lock, looping, races, Bounds>>

(* lockfile *)
LockFile(p) ==
  /\ pc[p] = "lock"
  /\ lock[fd[p]] = NoPid
  /\ lock' = [lock EXCEPT ![fd[p]] = p]
  /\ Goto(p, "test")
  /\ UNCHANGED <<fd, file, made, lck_pid, looping, races, Bounds>>

(* The wait has taken LOCK_ALRM seconds.  The file is moved out of the way, *)
(* once.                                                                    *)
Alarm(c) ==
  LET p == Reader(c)
  IN  /\ pc[p] = "lock"
      /\ alarms < MaxAlarms /\ alarms' = alarms + 1
      /\ IF c \in looping
         THEN Goto(p, "gone") /\ UNCHANGED <<looping, file, races>>
         ELSE /\ Goto(p, "stat")
              /\ looping' = looping \cup {c}
              /\ file' = 0
              /\ Raced("move", file # 0)
      /\ UNCHANGED <<fd, made, lck_pid, lock, deaths>>

(* Wrong: the file stays locked. *)
RefusedLocked(c) ==
  /\ pc[Reader(c)] = "test"
  /\ Alive(lck_pid[fd[Reader(c)]])
  /\ Goto(Reader(c), "gone")
  /\ UNCHANGED <<fd, file, made, lck_pid, lock, looping, races, Bounds>>

(* The lock is refused if the process in the file exists; "half" is a lock  *)
(* whose process has ended while the other one of its daemon has not.       *)
Refused(c) ==
  /\ pc[Reader(c)] = "test"
  /\ Alive(lck_pid[fd[Reader(c)]])
  /\ UnLock(Reader(c))
  /\ Goto(Reader(c), "gone")
  /\ UNCHANGED <<fd, file, made, lck_pid, looping, races, Bounds>>

Half(pid) == \E c \in Callers : pid \in Own(c) /\ \E p \in Own(c) : Alive(p)

Granted(c) ==
  LET opid == lck_pid[fd[Reader(c)]]
  IN  /\ pc[Reader(c)] = "test"
      /\ ~Alive(opid)
      /\ Goto(Reader(c), "write")
      /\ Raced("half", Half(opid))
      /\ UNCHANGED <<fd, file, made, lck_pid, lock, looping, Bounds>>

(* write_lock: the caller's number goes into the file, whether that has     *)
(* still its name or not.                                                   *)
write_lock(c) ==
  LET p == Reader(c)
  IN  /\ pc[p] = "write"
      /\ lck_pid' = [lck_pid EXCEPT ![fd[p]] = p]
      /\ UnLock(p)
      /\ Goto(p, "held")
      /\ Raced("unlinked", fd[p] # file)
      /\ UNCHANGED <<fd, file, made, looping, Bounds>>

(* The caller finishes without a daemon: unlink, and exit. *)
Unlinking(c) ==
  /\ file' = 0
  /\ Raced("unlink", file # 0 /\ lck_pid[file] \notin Own(c))

GiveUp(c) ==
  /\ pc[Reader(c)] = "held"
  /\ Unlinking(c)
  /\ Goto(Reader(c), "exit")
  /\ UNCHANGED <<fd, made, lck_pid, lock, looping, Bounds>>

(* It executes the daemon, which forks. *)
Fork(c) ==
  /\ pc[Reader(c)] = "held"
  /\ pc' = [pc EXCEPT ![Reader(c)] = "daemon", ![Writer(c)] = "open"]
  /\ UNCHANGED <<fd, file, made, lck_pid, lock, looping, races, Bounds>>

-----------------------------------------------------------------------------
(* ReSetLock in the writer: only the reader's number is replaced.  When the *)
(* reader finishes meanwhile, it keeps the file locked until its writer has *)
(* ended, and the writer's wait is broken off.                              *)
ReSetTest(c) ==
  LET p == Writer(c)
      same == lck_pid[fd[p]] = Reader(c)
  IN  /\ pc[p] = "test"
      /\ Goto(p, IF same THEN "write" ELSE "run")
      /\ IF same THEN UNCHANGED lock ELSE UnLock(p)
      /\ UNCHANGED <<fd, file, made, lck_pid, looping, races, Bounds>>

ReSetWrite(c) ==
  LET p == Writer(c)
  IN  /\ pc[p] = "write"
      /\ lck_pid' = [lck_pid EXCEPT ![fd[p]] = p]
      /\ UnLock(p)
      /\ Goto(p, "run")
      /\ UNCHANGED <<fd, file, made, looping, races, Bounds>>

(* The writer ends, of itself or told by the reader. *)
WriterEnds(c) ==
  /\ pc[Writer(c)] = "run" \/ (pc[Writer(c)] = "lock" /\ pc[Reader(c)] \in FinishSteps)
  /\ Goto(Writer(c), "gone")
  /\ UNCHANGED <<fd, file, made, lck_pid, lock, looping, races, Bounds>>

(* finish, in the reader: open and lock the file if it is there, ... *)
Finish(c) ==
  LET p == Reader(c)
  IN  /\ pc[p] = "daemon"
      /\ fd' = [fd EXCEPT ![p] = file]
      /\ Goto(p, IF file = 0 THEN "reap" ELSE "flock")
      /\ UNCHANGED <<file, made, lck_pid, lock, looping, races, Bounds>>

FinishLock(c) ==
  LET p == Reader(c)
  IN  /\ pc[p] = "flock"
      /\ lock[fd[p]] = NoPid
      /\ lock' = [lock EXCEPT ![fd[p]] = p]
      /\ Goto(p, "reap")
      /\ UNCHANGED <<fd, file, made, lck_pid, looping, races, Bounds>>

(* Wrong: the writer is not waited for. *)
ReapAtOnce(c) ==
  LET p == Reader(c)
  IN  /\ pc[p] = "reap"
      /\ Goto(p, IF fd[p] = 0 THEN "exit" ELSE "unlock")
      /\ UNCHANGED <<fd, file, made, lck_pid, lock, looping, races, Bounds>>

(* ... wait for the writer, ... *)
Reap(c) ==
  LET p == Reader(c)
  IN  /\ pc[p] = "reap"
      /\ pc[Writer(c)] = "gone"
      /\ Goto(p, IF fd[p] = 0 THEN "exit" ELSE "unlock")
      /\ UNCHANGED <<fd, file, made, lck_pid, lock, looping, races, Bounds>>

(* ... unlock, and then unlink. *)
FinishUnLock(c) ==
  /\ pc[Reader(c)] = "unlock"
  /\ UnLock(Reader(c))
  /\ Goto(Reader(c), "unlink")
  /\ UNCHANGED <<fd, file, made, lck_pid, looping, races, Bounds>>

FinishUnlink(c) ==
  /\ pc[Reader(c)] = "unlink"
  /\ Unlinking(c)
  /\ Goto(Reader(c), "exit")
  /\ UNCHANGED <<fd, made, lck_pid, lock, looping, Bounds>>

Exit(c) ==
  /\ pc[Reader(c)] = "exit"
  /\ Goto(Reader(c), "gone")
  /\ UNCHANGED <<fd, file, made, lck_pid, lock, looping, races, Bounds>>

(* Any process may be killed. *)
Die(p) ==
  /\ Alive(p)
  /\ deaths < MaxDeaths /\ deaths' = deaths + 1
  /\ Goto(p, "gone")
  /\ UnLock(p)
  /\ UNCHANGED <<fd, file, made, lck_pid, looping, races, alarms>>

SetLock(c) ==
  Start(c) \/ Stat(c) \/ MakeLock(c) \/ Alarm(c) \/ Refused(c) \/ Granted(c) \/ write_lock(c)

ReSetLock(c) == ReSetTest(c) \/ ReSetWrite(c)

finish(c) == Finish(c) \/ FinishLock(c) \/ Reap(c) \/ FinishUnLock(c) \/ FinishUnlink(c) \/ Exit(c)

Next ==
  \/ \E c \in Callers :
        SetLock(c) \/ GiveUp(c) \/ Fork(c) \/ ReSetLock(c) \/ WriterEnds(c) \/ finish(c)
  \/ \E p \in Pids : Open(p) \/ LockFile(p) \/ Die(p)

Spec == Init /\ [][Next]_vars

-----------------------------------------------------------------------------
(* Types; and who has a file locked is at a step that says so. *)
LockTypeOK ==
  /\ pc \in [Pids -> States]
  /\ fd \in [Pids -> 0 .. MaxFiles]
  /\ made \in 0 .. MaxFiles /\ file \in 0 .. made
  /\ lck_pid \in [Files -> Pids \cup {NoPid, OldPid}]
  /\ lock \in [Files -> Pids \cup {NoPid}]
  /\ \A f \in Files : lock[f] # NoPid =>
        pc[lock[f]] \in {"test", "write", "reap", "unlock"} /\ fd[lock[f]] = f
  /\ looping \subseteq Callers
  /\ races \subseteq {"create", "move", "half", "unlinked", "unlink"}

(* The daemon of caller c is active, or c may make it so. *)
Active(c) ==
  \/ pc[Reader(c)] \in {"held", "daemon"} \cup FinishSteps
  \/ Alive(Writer(c))

(* ``The file cmds/lock is used to prevent two daemons from becoming active *)
(* simultaneously'' (netdaemon.8).                                          *)
OneDaemon == \A c, d \in Callers : Active(c) /\ Active(d) => c = d

(* It does, whatever is killed and whatever lock file is found, but for     *)
(* five races: a file emptied by creat(2) after it was taken, one removed   *)
(* by a process that has unlocked it (or never locked it) after another has *)
(* taken it, one taken after it was removed, one taken because the process  *)
(* in it had ended before the other one of its daemon, and one moved away   *)
(* because it was locked for too long.                                      *)
OneDaemonUnlessRaced == races = {} => OneDaemon

(* And the lock of an active daemon is there: the file names one of its     *)
(* processes.                                                               *)
LockIsThere ==
  races = {} => \A c \in Callers : Active(c) => file # 0 /\ lck_pid[file] \in Own(c)
=============================================================================
