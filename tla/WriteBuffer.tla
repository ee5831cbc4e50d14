---------------------------- MODULE WriteBuffer ----------------------------
(***************************************************************************)
(* The write-behind buffer of an incoming message file (WriteData and      *)
(* FlushWData of VCdaemon/bufferio.c).  Packets arrive at any address of   *)
(* the message; small ones collect in a buffer that covers the addresses   *)
(* bufstart .. bufend-1, is written out at block boundaries, and never has *)
(* a hole.  ch_bufstart is meant to be the file's write point, so that     *)
(* sequential data costs no seek.                                          *)
(*                                                                         *)
(* A byte is represented by the address it belongs at: the file and the    *)
(* buffer hold, at each place, the address of the byte stored there.  A    *)
(* step is the code between two system calls that change the file.         *)
(***************************************************************************)
EXTENDS Integers

CONSTANTS MsgSize,        (* bytes in the message                          *)
          FILEBUFFERSIZE, (* size of the buffer and of a file block        *)
          MaxPkt          (* most data bytes in one packet                 *)

ASSUME SizeAssumption == /\ MsgSize \in Nat \ {0}
                         /\ FILEBUFFERSIZE \in Nat \ {0}
                         /\ MaxPkt \in Nat \ {0}

Addr == 0 .. MsgSize - 1
Hole == -1                 (* a place of the file never written            *)
Slot == 0 .. FILEBUFFERSIZE - 1

VARIABLES file,      (* what each place of the message file holds          *)
          pos,       (* the file's write point, kept by the kernel         *)
          bufstart, bufend, databuffer,   (* fields of Chan                *)
          pc,        (* where WriteData is                                 *)
          addr, size, data,   (* its arguments, as it advances them        *)
          written    (* history: every address ever handed to WriteData    *)

fileVars == <<file, pos>>
bufVars  == <<bufstart, bufend, databuffer>>
callVars == <<pc, addr, size, data>>
vars     == <<fileVars, bufVars, callVars, written>>

Init ==
  /\ file = [x \in Addr |-> Hole] /\ pos = 0
  /\ bufstart = 0 /\ bufend = 0 /\ databuffer = [i \in Slot |-> Hole]
  /\ pc = "idle" /\ addr = 0 /\ size = 0 /\ data = 0
  /\ written = {}

(* The first address after the block that a lies in.                       *)
BlockEnd(a) == (a \div FILEBUFFERSIZE) * FILEBUFFERSIZE + FILEBUFFERSIZE

(* write(2) of n bytes beginning with byte d at file place p.              *)
Put(f, p, d, n) == [x \in Addr |-> IF p <= x /\ x < p + n THEN d + (x - p) ELSE f[x]]

(* bcopy of n bytes beginning with byte d to offset o of the buffer.       *)
Copy(b, o, d, n) == [i \in Slot |-> IF o <= i /\ i < o + n THEN d + (i - o) ELSE b[i]]

(* The file after FlushWData: b[0 .. n-1] goes to the write point.         *)
Flushed(f, p, b, n) == [x \in Addr |-> IF p <= x /\ x < p + n THEN b[x - p] ELSE f[x]]

(* FlushWData: write out the buffer at the write point; the buffer is then *)
(* empty and starts where it ended.                                        *)
FlushWData ==
  /\ file' = Flushed(file, pos, databuffer, bufend - bufstart)
  /\ pos' = pos + (bufend - bufstart)
  /\ bufstart' = bufend
  /\ UNCHANGED <<bufend, databuffer>>

Return == pc' = "idle" /\ addr' = 0 /\ size' = 0 /\ data' = 0

-----------------------------------------------------------------------------
(* The receiver calls WriteData for a data packet inside the message.      *)
WriteData(a, n) ==
  /\ pc = "idle"
  /\ a + n <= MsgSize
  /\ pc' = "enter" /\ addr' = a /\ size' = n /\ data' = a
  /\ written' = written \cup (a .. a + n - 1)
  /\ UNCHANGED <<fileVars, bufVars>>

(* The receiver flushes between calls: at the end of the message, and when *)
(* the reader shuts down.                                                  *)
Flush ==
  /\ pc = "idle"
  /\ bufend > bufstart
  /\ FlushWData
  /\ UNCHANGED <<callVars, written>>

(* Large data beyond the buffer is written without buffering ...           *)
Big == size > FILEBUFFERSIZE \div 2 /\ addr >= bufend

(* ... after flushing what is buffered ...                                 *)
FlushForBig ==
  /\ pc = "enter" /\ Big
  /\ bufend > bufstart
  /\ FlushWData
  /\ UNCHANGED <<callVars, written>>

(* Wrong: large data does not wait for the flush.                          *)
WriteBigUnflushed ==
  /\ pc = "enter" /\ Big
  /\ LET p == IF bufstart # addr THEN addr ELSE pos IN
       /\ file' = Put(file, p, data, size)
       /\ pos'  = p + size
  /\ bufstart' = addr + size /\ bufend' = addr + size
  /\ Return
  /\ UNCHANGED <<databuffer, written>>

(* ... with a seek only if it does not follow on.                          *)
WriteBig ==
  /\ pc = "enter" /\ Big
  /\ bufend <= bufstart
  /\ LET p == IF bufstart # addr THEN addr ELSE pos IN
       /\ file' = Put(file, p, data, size)
       /\ pos'  = p + size
  /\ bufstart' = addr + size /\ bufend' = addr + size
  /\ Return
  /\ UNCHANGED <<databuffer, written>>

(* Wrong: the write point stays where the data below the buffer ended.     *)
WriteBelowNoSeek ==
  /\ pc = "enter" /\ ~Big
  /\ addr < bufstart /\ addr + size <= bufstart
  /\ file' = Put(file, addr, data, size)
  /\ pos'  = addr + size
  /\ Return
  /\ UNCHANGED <<bufVars, written>>

(* Data wholly below the buffer goes straight to the file, and the write   *)
(* point goes back to bufstart.                                            *)
WriteBelow ==
  /\ pc = "enter" /\ ~Big
  /\ addr < bufstart /\ addr + size <= bufstart
  /\ file' = Put(file, addr, data, size)
  /\ pos'  = IF bufstart # addr + size THEN bufstart ELSE addr + size
  /\ Return
  /\ UNCHANGED <<bufVars, written>>

(* Data that runs into the buffer: the part below goes to the file.        *)
WriteBelowPart ==
  /\ pc = "enter" /\ ~Big
  /\ addr < bufstart /\ addr + size > bufstart
  /\ LET left == bufstart - addr IN
       /\ file' = Put(file, addr, data, left)
       /\ pos'  = addr + left
       /\ addr' = addr + left /\ size' = size - left /\ data' = data + left
  /\ pc' = "gap"
  /\ UNCHANGED <<bufVars, written>>

AtGap == pc = "gap" \/ (pc = "enter" /\ ~Big /\ addr >= bufstart)

(* Data beyond the end of the buffer: no gaps in the buffer, so flush it   *)
(* and start it afresh at addr.                                            *)
SkipAhead ==
  /\ AtGap /\ addr > bufend
  /\ file' = Flushed(file, pos, databuffer, bufend - bufstart)
  /\ pos' = addr
  /\ bufstart' = addr /\ bufend' = addr
  /\ pc' = "loop"
  /\ UNCHANGED <<databuffer, addr, size, data, written>>

AtLoop == pc = "loop" \/ (AtGap /\ addr <= bufend)

(* Data that crosses a block boundary: fill the block, write it out, and   *)
(* start the buffer at the next.                                           *)
FillBlock ==
  /\ AtLoop
  /\ addr + size > BlockEnd(bufstart)
  /\ LET left == IF addr < BlockEnd(bufstart) THEN BlockEnd(bufstart) - addr ELSE 0
         b    == Copy(databuffer, addr - bufstart, data, left)
         e    == IF left > 0 THEN BlockEnd(bufstart) ELSE bufend
     IN /\ databuffer' = b
        /\ file' = Flushed(file, pos, b, e - bufstart)
        /\ addr' = addr + left /\ size' = size - left /\ data' = data + left
        /\ bufstart' = addr + left /\ bufend' = addr + left
        /\ pos' = IF addr + left # e THEN addr + left ELSE pos + (e - bufstart)
  /\ pc' = "loop"
  /\ UNCHANGED written

(* Wrong: the buffer ends where the last data does.                        *)
BufferCutsEnd ==
  /\ AtLoop
  /\ addr + size <= BlockEnd(bufstart)
  /\ databuffer' = Copy(databuffer, addr - bufstart, data, size)
  /\ bufend' = addr + size
  /\ Return
  /\ UNCHANGED <<fileVars, bufstart, written>>

(* The rest fits in the block: buffer it.                                  *)
Buffer ==
  /\ AtLoop
  /\ addr + size <= BlockEnd(bufstart)
  /\ databuffer' = Copy(databuffer, addr - bufstart, data, size)
  /\ bufend' = IF addr + size > bufend THEN addr + size ELSE bufend
  /\ Return
  /\ UNCHANGED <<fileVars, bufstart, written>>

(* The daemon dies, at any point: what was only in the buffer is gone.     *)
Crash ==
  /\ pc # "down"
  /\ pc' = "down" /\ addr' = 0 /\ size' = 0 /\ data' = 0
  /\ pos' = 0 /\ bufstart' = 0 /\ bufend' = 0
  /\ databuffer' = [i \in Slot |-> Hole]
  /\ written' = {x \in Addr : file[x] # Hole}
  /\ UNCHANGED file

(* A later daemon goes on with the message (Recv_SOM, receiver.c:834-847): *)
(* both pointers start at an address no further than the file's end.       *)
Restart(a) ==
  /\ pc = "down"
  /\ a = 0 \/ \E x \in Addr : x >= a - 1 /\ file[x] # Hole
  /\ pos' = a /\ bufstart' = a /\ bufend' = a
  /\ pc' = "idle"
  /\ UNCHANGED <<file, databuffer, addr, size, data, written>>

Next ==
  \/ \E a \in Addr : \E n \in 1 .. MaxPkt : WriteData(a, n)
  \/ Crash
  \/ \E a \in 0 .. MsgSize : Restart(a)
  \/ Flush
  \/ FlushForBig \/ WriteBig
  \/ WriteBelow \/ WriteBelowPart
  \/ SkipAhead \/ FillBlock \/ Buffer

Spec == Init /\ [][Next]_vars

-----------------------------------------------------------------------------
(* What a reader of the message would find: the buffer laid over the file. *)
InBuffer(x) == bufstart <= x /\ x < bufend
ImageAt(x)  == IF InBuffer(x) THEN databuffer[x - bufstart] ELSE file[x]
Stored      == {x \in Addr : ImageAt(x) = x}
Safe        == {x \in Addr : file[x] = x}
Pending     == addr .. addr + size - 1

TypeOK ==
  /\ file \in [Addr -> Int] /\ pos \in Nat
  /\ bufstart \in 0 .. MsgSize /\ bufend \in bufstart .. MsgSize
  /\ databuffer \in [Slot -> Int]
  /\ pc \in {"idle", "enter", "gap", "loop", "down"}
  /\ addr \in 0 .. MsgSize /\ size \in 0 .. MsgSize /\ data \in Nat
  /\ addr + size <= MsgSize
  /\ written \subseteq Addr

(* No byte of the file is ever at the wrong place: each place holds its    *)
(* own byte or was never written (the data pointer, the write point and    *)
(* the address advance together through every branch of WriteData).        *)
NothingMisplaced == \A x \in Addr : file[x] \in {x, Hole}

(* Every byte handed to WriteData is in the file or in the buffer, except  *)
(* the part of the packet still being written.                             *)
NothingLost == (written \ Pending) \subseteq Stored

(* What has reached the file stays: no later write, flush, seek or restart *)
(* puts something else over it.                                            *)
Durable == [][\A x \in Addr : file[x] # Hole => file'[x] = file[x]]_vars

(* ``ch_bufstart represents write point in file'' (bufferio.c:224).        *)
WritePoint == pos = bufstart

(* The buffer stays inside one block, so a copy into it never runs past    *)
(* its end.                                                                *)
BufferFits == bufend <= BlockEnd(bufstart) /\ bufend - bufstart <= FILEBUFFERSIZE

(* The buffered file implements a file that stores every packet in place   *)
(* and forgets nothing but, in a crash, what was still in the buffer.      *)
MF == INSTANCE MessageFile WITH
        stored <- Stored, safe <- Safe, todo <- Pending, up <- (pc # "down")
StoresInPlace == MF!Spec
=============================================================================
