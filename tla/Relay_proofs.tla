---------------------------- MODULE Relay_proofs ----------------------------
(***************************************************************************)
(* A message leaves a node as it came in, for every message and header     *)
(* size, block size and packet size on either side, and every order of     *)
(* acknowledgements, repeats and restarts.                                 *)
(*                                                                         *)
(* First the write-behind buffer (WriteBuffer): its invariants, and that   *)
(* it implements MessageFile.  Then the whole relay: RelayedRight and      *)
(* NeverRunsDry, from the invariant of the buffer while the message        *)
(* arrives and one of the reading side while it is sent.                   *)
(***************************************************************************)
EXTENDS Relay, SequenceTheorems, TLAPS

USE SizeAssumption, RelayAssumption

(* The buffer holds the bytes of its own range, the data pointer stays in  *)
(* step with the address, inside WriteData the address has reached the     *)
(* buffer, and a dead daemon buffers nothing.                              *)
BufferRight == \A x \in Addr : InBuffer(x) => databuffer[x - bufstart] = x
InStep ==
  /\ data = addr
  /\ pc \in {"idle", "down"} <=> size = 0
  /\ pc = "down" => bufstart = 0 /\ bufend = 0
  /\ pc = "gap"  => addr = bufstart
  /\ pc = "loop" => addr = bufstart /\ addr = bufend
IInv == /\ TypeOK
        /\ WritePoint
        /\ BufferFits
        /\ BufferRight
        /\ InStep
        /\ NothingMisplaced
        /\ NothingLost

(* The end of the block of a lies beyond a, by no more than a block.       *)
LEMMA BlockEndBeyond ==
  \A a \in Nat :
    BlockEnd(a) \in Nat /\ a < BlockEnd(a) /\ BlockEnd(a) <= a + FILEBUFFERSIZE
BY DEF BlockEnd

(* An empty file, an empty buffer and no call under way satisfy the        *)
(* invariant.                                                              *)
THEOREM InitInv == Init => IInv
BY BlockEndBeyond DEF Init, IInv, TypeOK, WritePoint, BufferFits, BufferRight, InStep,
   NothingMisplaced, NothingLost, Stored, ImageAt, InBuffer, Pending, Addr, Slot, Hole

(* The call takes its arguments: all of the packet is pending.             *)
LEMMA WriteDataInv ==
  ASSUME NEW a \in Addr, NEW n \in 1 .. MaxPkt, IInv, WriteData(a, n)
  PROVE  IInv'
<1>0. BlockEnd(bufstart) \in Nat /\ bufstart < BlockEnd(bufstart)
  BY BlockEndBeyond DEF IInv, TypeOK
<1>a. bufstart' \in Nat => /\ BlockEnd(bufstart') \in Nat
                           /\ bufstart' < BlockEnd(bufstart')
                           /\ BlockEnd(bufstart') <= bufstart' + FILEBUFFERSIZE
  BY BlockEndBeyond
<1> USE <1>a DEF IInv, Addr, Slot
<1>1. TypeOK'
  BY <1>0 DEF TypeOK, BufferFits, InStep, WritePoint, Hole, WriteData, fileVars, bufVars
<1>2. WritePoint'
  BY <1>0 DEF TypeOK, WritePoint, BufferFits, InStep, WriteData, fileVars, bufVars
<1>3. BufferFits'
  BY <1>0, <1>1 DEF TypeOK, BufferFits, InStep, WriteData, fileVars, bufVars
<1>4. BufferRight'
  BY <1>0 DEF TypeOK, BufferRight, BufferFits, InStep, InBuffer, WriteData, fileVars, bufVars
<1>5. InStep'
  BY <1>0 DEF TypeOK, InStep, WriteData, fileVars, bufVars
<1>6. NothingMisplaced'
  BY <1>0 DEF TypeOK, NothingMisplaced, BufferRight, BufferFits, InStep, InBuffer, WritePoint, WriteData, fileVars, bufVars
<1>7. NothingLost'
  BY <1>0, <1>1, <1>4 DEF TypeOK, NothingLost, Stored, Pending, ImageAt, InBuffer, BufferRight,
     BufferFits, InStep, WritePoint, NothingMisplaced, WriteData, fileVars, bufVars
<1>8. QED
  BY <1>1, <1>2, <1>3, <1>4, <1>5, <1>6, <1>7

(* A flush before a gap puts the buffer's bytes where the write point      *)
(* stands, which BufferRight and WritePoint make the right place.          *)
LEMMA FlushInv ==
  ASSUME IInv, Flush
  PROVE  IInv'
<1>0. BlockEnd(bufstart) \in Nat /\ bufstart < BlockEnd(bufstart)
  BY BlockEndBeyond DEF IInv, TypeOK
<1>a. bufstart' \in Nat => /\ BlockEnd(bufstart') \in Nat
                           /\ bufstart' < BlockEnd(bufstart')
                           /\ BlockEnd(bufstart') <= bufstart' + FILEBUFFERSIZE
  BY BlockEndBeyond
<1> USE <1>a DEF IInv, Addr, Slot
<1>1. TypeOK'
  BY <1>0 DEF TypeOK, BufferFits, InStep, WritePoint, Hole, Flush, FlushWData, Flushed, callVars
<1>2. WritePoint'
  BY <1>0 DEF TypeOK, WritePoint, BufferFits, InStep, Flush, FlushWData, Flushed, callVars
<1>3. BufferFits'
  BY <1>0, <1>1 DEF TypeOK, BufferFits, InStep, Flush, FlushWData, Flushed, callVars
<1>4. BufferRight'
  BY <1>0 DEF TypeOK, BufferRight, BufferFits, InStep, InBuffer, Flush, FlushWData, Flushed, callVars
<1>5. InStep'
  BY <1>0 DEF TypeOK, InStep, Flush, FlushWData, Flushed, callVars
<1>6. NothingMisplaced'
  BY <1>0 DEF TypeOK, NothingMisplaced, BufferRight, BufferFits, InStep, InBuffer, WritePoint, Flush, FlushWData, Flushed, callVars
<1>7. NothingLost'
  BY <1>0, <1>1, <1>4 DEF TypeOK, NothingLost, Stored, Pending, ImageAt, InBuffer, BufferRight,
     BufferFits, InStep, WritePoint, NothingMisplaced, Flush, FlushWData, Flushed, callVars
<1>8. QED
  BY <1>1, <1>2, <1>3, <1>4, <1>5, <1>6, <1>7

(* The same flush before a big packet is written past the buffer.          *)
LEMMA FlushForBigInv ==
  ASSUME IInv, FlushForBig
  PROVE  IInv'
<1>0. BlockEnd(bufstart) \in Nat /\ bufstart < BlockEnd(bufstart)
  BY BlockEndBeyond DEF IInv, TypeOK
<1>a. bufstart' \in Nat => /\ BlockEnd(bufstart') \in Nat
                           /\ bufstart' < BlockEnd(bufstart')
                           /\ BlockEnd(bufstart') <= bufstart' + FILEBUFFERSIZE
  BY BlockEndBeyond
<1> USE <1>a DEF IInv, Addr, Slot
<1>1. TypeOK'
  BY <1>0 DEF TypeOK, BufferFits, InStep, WritePoint, Hole, FlushForBig, FlushWData, Flushed, callVars
<1>2. WritePoint'
  BY <1>0 DEF TypeOK, WritePoint, BufferFits, InStep, FlushForBig, FlushWData, Flushed, callVars
<1>3. BufferFits'
  BY <1>0, <1>1 DEF TypeOK, BufferFits, InStep, FlushForBig, FlushWData, Flushed, callVars
<1>4. BufferRight'
  BY <1>0 DEF TypeOK, BufferRight, BufferFits, InStep, InBuffer, FlushForBig, FlushWData, Flushed, callVars
<1>5. InStep'
  BY <1>0 DEF TypeOK, InStep, FlushForBig, FlushWData, Flushed, callVars
<1>6. NothingMisplaced'
  BY <1>0 DEF TypeOK, NothingMisplaced, BufferRight, BufferFits, InStep, InBuffer, WritePoint, FlushForBig, FlushWData, Flushed, callVars
<1>7. NothingLost'
  BY <1>0, <1>1, <1>4 DEF TypeOK, NothingLost, Stored, Pending, ImageAt, InBuffer, BufferRight,
     BufferFits, InStep, WritePoint, NothingMisplaced, FlushForBig, FlushWData, Flushed, callVars
<1>8. QED
  BY <1>1, <1>2, <1>3, <1>4, <1>5, <1>6, <1>7

(* A big packet is written at the write point after the seek, and the      *)
(* empty buffer moves behind it.                                           *)
LEMMA WriteBigInv ==
  ASSUME IInv, WriteBig
  PROVE  IInv'
<1>0. BlockEnd(bufstart) \in Nat /\ bufstart < BlockEnd(bufstart)
  BY BlockEndBeyond DEF IInv, TypeOK
<1>a. bufstart' \in Nat => /\ BlockEnd(bufstart') \in Nat
                           /\ bufstart' < BlockEnd(bufstart')
                           /\ BlockEnd(bufstart') <= bufstart' + FILEBUFFERSIZE
  BY BlockEndBeyond
<1> USE <1>a DEF IInv, Addr, Slot
<1>1. TypeOK'
  BY <1>0 DEF TypeOK, BufferFits, InStep, WritePoint, Hole, WriteBig, Big, Put, Return
<1>2. WritePoint'
  BY <1>0 DEF TypeOK, WritePoint, BufferFits, InStep, WriteBig, Big, Put, Return
<1>3. BufferFits'
  BY <1>0, <1>1 DEF TypeOK, BufferFits, InStep, WriteBig, Big, Put, Return
<1>4. BufferRight'
  BY <1>0 DEF TypeOK, BufferRight, BufferFits, InStep, InBuffer, WriteBig, Big, Put, Return
<1>5. InStep'
  BY <1>0 DEF TypeOK, InStep, WriteBig, Big, Put, Return
<1>6. NothingMisplaced'
  BY <1>0 DEF TypeOK, NothingMisplaced, BufferRight, BufferFits, InStep, InBuffer, WritePoint, WriteBig, Big, Put, Return
<1>7. NothingLost'
  BY <1>0, <1>1, <1>4 DEF TypeOK, NothingLost, Stored, Pending, ImageAt, InBuffer, BufferRight,
     BufferFits, InStep, WritePoint, NothingMisplaced, WriteBig, Big, Put, Return
<1>8. QED
  BY <1>1, <1>2, <1>3, <1>4, <1>5, <1>6, <1>7

(* Data that lies below the buffer is written in place and the write point *)
(* is restored.                                                            *)
LEMMA WriteBelowInv ==
  ASSUME IInv, WriteBelow
  PROVE  IInv'
<1>0. BlockEnd(bufstart) \in Nat /\ bufstart < BlockEnd(bufstart)
  BY BlockEndBeyond DEF IInv, TypeOK
<1>a. bufstart' \in Nat => /\ BlockEnd(bufstart') \in Nat
                           /\ bufstart' < BlockEnd(bufstart')
                           /\ BlockEnd(bufstart') <= bufstart' + FILEBUFFERSIZE
  BY BlockEndBeyond
<1> USE <1>a DEF IInv, Addr, Slot
<1>1. TypeOK'
  BY <1>0 DEF TypeOK, BufferFits, InStep, WritePoint, Hole, WriteBelow, Put, Return, bufVars
<1>2. WritePoint'
  BY <1>0 DEF TypeOK, WritePoint, BufferFits, InStep, WriteBelow, Put, Return, bufVars
<1>3. BufferFits'
  BY <1>0, <1>1 DEF TypeOK, BufferFits, InStep, WriteBelow, Put, Return, bufVars
<1>4. BufferRight'
  BY <1>0 DEF TypeOK, BufferRight, BufferFits, InStep, InBuffer, WriteBelow, Put, Return, bufVars
<1>5. InStep'
  BY <1>0 DEF TypeOK, InStep, WriteBelow, Put, Return, bufVars
<1>6. NothingMisplaced'
  BY <1>0 DEF TypeOK, NothingMisplaced, BufferRight, BufferFits, InStep, InBuffer, WritePoint, WriteBelow, Put, Return, bufVars
<1>7. NothingLost'
  BY <1>0, <1>1, <1>4 DEF TypeOK, NothingLost, Stored, Pending, ImageAt, InBuffer, BufferRight,
     BufferFits, InStep, WritePoint, NothingMisplaced, WriteBelow, Put, Return, bufVars
<1>8. QED
  BY <1>1, <1>2, <1>3, <1>4, <1>5, <1>6, <1>7

(* The part of a packet that lies below the buffer is written in place;    *)
(* the rest starts at the buffer.                                          *)
LEMMA WriteBelowPartInv ==
  ASSUME IInv, WriteBelowPart
  PROVE  IInv'
<1>0. BlockEnd(bufstart) \in Nat /\ bufstart < BlockEnd(bufstart)
  BY BlockEndBeyond DEF IInv, TypeOK
<1>a. bufstart' \in Nat => /\ BlockEnd(bufstart') \in Nat
                           /\ bufstart' < BlockEnd(bufstart')
                           /\ BlockEnd(bufstart') <= bufstart' + FILEBUFFERSIZE
  BY BlockEndBeyond
<1> USE <1>a DEF IInv, Addr, Slot
<1>1. TypeOK'
  BY <1>0 DEF TypeOK, BufferFits, InStep, WritePoint, Hole, WriteBelowPart, Put, bufVars
<1>2. WritePoint'
  BY <1>0 DEF TypeOK, WritePoint, BufferFits, InStep, WriteBelowPart, Put, bufVars
<1>3. BufferFits'
  BY <1>0, <1>1 DEF TypeOK, BufferFits, InStep, WriteBelowPart, Put, bufVars
<1>4. BufferRight'
  BY <1>0 DEF TypeOK, BufferRight, BufferFits, InStep, InBuffer, WriteBelowPart, Put, bufVars
<1>5. InStep'
  BY <1>0 DEF TypeOK, InStep, WriteBelowPart, Put, bufVars
<1>6. NothingMisplaced'
  BY <1>0 DEF TypeOK, NothingMisplaced, BufferRight, BufferFits, InStep, InBuffer, WritePoint, WriteBelowPart, Put, bufVars
<1>7. NothingLost'
  BY <1>0, <1>1, <1>4 DEF TypeOK, NothingLost, Stored, Pending, ImageAt, InBuffer, BufferRight,
     BufferFits, InStep, WritePoint, NothingMisplaced, WriteBelowPart, Put, bufVars
<1>8. QED
  BY <1>1, <1>2, <1>3, <1>4, <1>5, <1>6, <1>7

(* With the buffer empty, its start and the write point move together to   *)
(* the packet's address.                                                   *)
LEMMA SkipAheadInv ==
  ASSUME IInv, SkipAhead
  PROVE  IInv'
<1>0. BlockEnd(bufstart) \in Nat /\ bufstart < BlockEnd(bufstart)
  BY BlockEndBeyond DEF IInv, TypeOK
<1>a. bufstart' \in Nat => /\ BlockEnd(bufstart') \in Nat
                           /\ bufstart' < BlockEnd(bufstart')
                           /\ BlockEnd(bufstart') <= bufstart' + FILEBUFFERSIZE
  BY BlockEndBeyond
<1> USE <1>a DEF IInv, Addr, Slot
<1>1. TypeOK'
  BY <1>0, SMTT(30) DEF TypeOK, BufferFits, InStep, WritePoint, Hole, SkipAhead, AtGap, Flushed
<1>2. WritePoint'
  BY <1>0 DEF TypeOK, WritePoint, BufferFits, InStep, SkipAhead, AtGap, Flushed
<1>3. BufferFits'
  BY <1>0, <1>1 DEF TypeOK, BufferFits, InStep, SkipAhead, AtGap, Flushed
<1>4. BufferRight'
  BY <1>0 DEF TypeOK, BufferRight, BufferFits, InStep, InBuffer, SkipAhead, AtGap, Flushed
<1>5. InStep'
  BY <1>0 DEF TypeOK, InStep, SkipAhead, AtGap, Flushed
<1>6. NothingMisplaced'
  BY <1>0 DEF TypeOK, NothingMisplaced, BufferRight, BufferFits, InStep, InBuffer, WritePoint, SkipAhead, AtGap, Flushed
<1>7. NothingLost'
  BY <1>0, <1>1, <1>4 DEF TypeOK, NothingLost, Stored, Pending, ImageAt, InBuffer, BufferRight,
     BufferFits, InStep, WritePoint, NothingMisplaced, SkipAhead, AtGap, Flushed
<1>8. QED
  BY <1>1, <1>2, <1>3, <1>4, <1>5, <1>6, <1>7

(* What FillBlock does: everything below the new address is in the file,   *)
(* the buffer is empty and starts there.                                   *)
LEMMA FillBlockEffect ==
  ASSUME IInv, FillBlock
  PROVE  /\ addr' \in Nat /\ addr <= addr' /\ bufend <= addr' /\ addr' < addr + size
         /\ size' = addr + size - addr' /\ data' = addr'
         /\ bufstart' = addr' /\ bufend' = addr' /\ pos' = addr'
         /\ pc' = "loop" /\ written' = written
         /\ databuffer' \in [Slot -> Int] /\ file' \in [Addr -> Int]
         /\ \A x \in Addr : file'[x] = IF x \in bufstart .. addr' - 1 THEN x ELSE file[x]
<1> DEFINE E    == BlockEnd(bufstart)
           left == E - addr
           b    == Copy(databuffer, addr - bufstart, data, left)
<1>t. /\ pos = bufstart
      /\ bufstart \in Nat /\ bufend \in Nat /\ bufstart <= bufend /\ bufend <= MsgSize
      /\ addr \in Nat /\ size \in Nat /\ data = addr /\ addr + size <= MsgSize
      /\ databuffer \in [Slot -> Int] /\ file \in [Addr -> Int]
  BY DEF IInv, TypeOK, InStep, WritePoint
<1>0. E \in Nat /\ bufstart < E /\ E <= bufstart + FILEBUFFERSIZE
  BY BlockEndBeyond, <1>t
<1>1. /\ bufstart <= addr /\ addr <= bufend /\ bufend <= E /\ E < addr + size
      /\ pc' = "loop" /\ written' = written
  BY <1>0, <1>t DEF IInv, BufferFits, InStep, FillBlock, AtLoop, AtGap
<1>b. \A x \in Addr : bufstart <= x /\ x < bufend =>
        /\ x - bufstart \in Slot
        /\ databuffer[x - bufstart] = x
  BY <1>0, <1>1, <1>t DEF IInv, BufferRight, InBuffer, Slot, Addr
<1>2. CASE addr < E
  <2>1. /\ databuffer' = b
        /\ file' = Flushed(file, pos, b, E - bufstart)
        /\ addr' = addr + left /\ size' = size - left /\ data' = data + left
        /\ bufstart' = addr + left /\ bufend' = addr + left
        /\ pos' = IF addr + left # E THEN addr + left ELSE pos + (E - bufstart)
    <3>1. left > 0
      BY <1>0, <1>t, <1>2
    <3>2. QED
      BY <1>2, <3>1 DEF FillBlock
  <2> HIDE DEF E
  <2>2. /\ addr' = E /\ data' = E /\ bufstart' = E /\ bufend' = E /\ pos' = E
        /\ size' = addr + size - E
    BY <1>0, <1>1, <1>2, <1>t, <2>1
  <2>3. b \in [Slot -> Int]
    BY <1>0, <1>t DEF Copy, Slot
  <2>4. ASSUME NEW x \in bufstart .. E - 1
        PROVE  x - bufstart \in Slot /\ b[x - bufstart] = x
    <3>1. x \in Addr /\ x - bufstart \in Slot
      BY <1>0, <1>1, <1>t DEF Addr, Slot
    <3>2. CASE x < addr
      BY <3>1, <3>2, <1>0, <1>1, <1>t, <1>b DEF Copy
    <3>3. CASE x >= addr
      BY <3>1, <3>3, <1>0, <1>1, <1>2, <1>t DEF Copy
    <3>4. QED
      BY <3>1, <3>2, <3>3, <1>t DEF Addr
  <2> HIDE DEF b
  <2>5. \A x \in Addr : file'[x] = IF bufstart <= x /\ x < bufstart + (E - bufstart)
                                    THEN b[x - bufstart] ELSE file[x]
    BY <1>t, <2>1 DEF Flushed
  <2>6. \A x \in Addr : file'[x] = IF x \in bufstart .. E - 1 THEN x ELSE file[x]
    <3>1. SUFFICES ASSUME NEW x \in Addr
                   PROVE  file'[x] = IF x \in bufstart .. E - 1 THEN x ELSE file[x]
      OBVIOUS
    <3>2. bufstart <= x /\ x < bufstart + (E - bufstart) <=> x \in bufstart .. E - 1
      BY <1>0, <1>t DEF Addr
    <3>3. file'[x] = IF x \in bufstart .. E - 1 THEN b[x - bufstart] ELSE file[x]
      BY <2>5, <3>2
    <3>4. QED
      BY <2>4, <3>3
  <2>7. file' = [x \in Addr |-> file'[x]] /\ \A x \in Addr : file'[x] \in Int
    <3>1. file' = [x \in Addr |-> file'[x]]
      BY <2>1 DEF Flushed
    <3>2. \A x \in Addr : file'[x] \in Int
      BY <2>6, <1>t DEF Addr
    <3>3. QED
      BY <3>1, <3>2
  <2>8. QED
    BY <1>0, <1>1, <1>2, <1>t, <2>1, <2>2, <2>3, <2>6, <2>7
<1>3. CASE addr >= E
  <2>1. bufend = addr /\ E = addr
    BY <1>0, <1>1, <1>3, <1>t
  <2>2. /\ databuffer' = Copy(databuffer, addr - bufstart, data, 0)
        /\ file' = Flushed(file, pos, databuffer', bufend - bufstart)
        /\ addr' = addr + 0 /\ size' = size - 0 /\ data' = data + 0
        /\ bufstart' = addr + 0 /\ bufend' = addr + 0
        /\ pos' = IF addr + 0 # bufend THEN addr + 0 ELSE pos + (bufend - bufstart)
    <3>1. ~(addr < E)
      BY <1>0, <1>t, <1>3
    <3>2. QED
      BY <3>1 DEF FillBlock
  <2>3. /\ addr' = addr /\ data' = addr /\ bufstart' = addr /\ bufend' = addr /\ pos' = addr
        /\ size' = size
    BY <1>0, <1>1, <1>t, <2>1, <2>2
  <2>4. databuffer' \in [Slot -> Int] /\ \A i \in Slot : databuffer'[i] = databuffer[i]
    BY <1>t, <2>2 DEF Copy, Slot
  <2>5. \A x \in Addr : file'[x] = IF bufstart <= x /\ x < bufstart + (bufend - bufstart)
                                    THEN databuffer'[x - bufstart] ELSE file[x]
    BY <1>t, <2>2 DEF Flushed
  <2>6. \A x \in Addr : file'[x] = IF x \in bufstart .. bufend - 1 THEN x ELSE file[x]
    BY <2>5, <2>4, <1>b, <1>t DEF Addr
  <2>7. file' = [x \in Addr |-> file'[x]] /\ \A x \in Addr : file'[x] \in Int
    <3>1. file' = [x \in Addr |-> file'[x]]
      BY <2>2 DEF Flushed
    <3>2. \A x \in Addr : file'[x] \in Int
      BY <2>6, <1>t DEF Addr
    <3>3. QED
      BY <3>1, <3>2
  <2>8. QED
    BY <1>0, <1>1, <1>3, <1>t, <2>1, <2>2, <2>3, <2>4, <2>6, <2>7
<1>4. QED
  BY <1>0, <1>t, <1>2, <1>3

(* FillBlockEffect gives each conjunct.                                    *)
LEMMA FillBlockInv ==
  ASSUME IInv, FillBlock
  PROVE  IInv'
<1>1. /\ bufstart \in Nat /\ bufend \in Nat /\ addr \in Nat /\ size \in Nat
      /\ addr + size <= MsgSize /\ written \subseteq Addr /\ file \in [Addr -> Int]
      /\ bufstart <= bufend
  BY DEF IInv, TypeOK
<1>2. bufstart' \in Nat => bufstart' < BlockEnd(bufstart') /\ BlockEnd(bufstart') \in Nat
  BY BlockEndBeyond
<1>3. TypeOK'
  BY <1>1, FillBlockEffect DEF TypeOK
<1>4. WritePoint' /\ InStep'
  BY <1>1, FillBlockEffect DEF WritePoint, InStep
<1>5. BufferFits' /\ BufferRight'
  BY <1>1, <1>2, FillBlockEffect DEF BufferFits, BufferRight, InBuffer, Addr
<1>6. NothingMisplaced'
  BY FillBlockEffect DEF IInv, NothingMisplaced
<1>7. NothingLost'
  <2>1. ASSUME NEW x \in written, x \notin addr' .. addr + size - 1
        PROVE  file'[x] = x
    <3>1. x \in Addr /\ (x \in addr .. addr + size - 1 \/ InBuffer(x) \/ file[x] = x)
      BY <1>1 DEF IInv, NothingLost, Stored, ImageAt, Pending
    <3>2. x \in Int /\ bufstart <= addr
      BY <1>1 DEF Addr, IInv, InStep, FillBlock, AtLoop, AtGap
    <3>3. CASE x \in bufstart .. addr' - 1
      BY <3>1, <3>3, FillBlockEffect
    <3>4. CASE x \notin bufstart .. addr' - 1
      BY <3>1, <3>2, <3>4, <2>1, <1>1, FillBlockEffect DEF InBuffer
    <3>5. QED
      BY <3>3, <3>4
  <2>2. written' = written /\ Pending' = addr' .. addr + size - 1
    BY <1>1, FillBlockEffect DEF Pending
  <2>3. \A x \in Addr : file'[x] = x => x \in Stored'
    BY FillBlockEffect, <1>1 DEF Stored, ImageAt, InBuffer, Addr
  <2>4. QED
    BY <1>1, <2>1, <2>2, <2>3 DEF NothingLost
<1>8. QED
  BY <1>3, <1>4, <1>5, <1>6, <1>7 DEF IInv

(* What fits is copied behind the buffered bytes and the buffer stays      *)
(* within its block.                                                       *)
LEMMA BufferInv ==
  ASSUME IInv, Buffer
  PROVE  IInv'
<1>0. BlockEnd(bufstart) \in Nat /\ bufstart < BlockEnd(bufstart)
  BY BlockEndBeyond DEF IInv, TypeOK
<1>a. bufstart' \in Nat => /\ BlockEnd(bufstart') \in Nat
                           /\ bufstart' < BlockEnd(bufstart')
                           /\ BlockEnd(bufstart') <= bufstart' + FILEBUFFERSIZE
  BY BlockEndBeyond
<1> USE <1>a DEF IInv, Addr, Slot
<1>1. TypeOK'
  BY <1>0 DEF TypeOK, BufferFits, InStep, WritePoint, Hole, Buffer, AtLoop, AtGap, Copy, Return, fileVars
<1>2. WritePoint'
  BY <1>0 DEF TypeOK, WritePoint, BufferFits, InStep, Buffer, AtLoop, AtGap, Copy, Return, fileVars
<1>3. BufferFits'
  BY <1>0, <1>1 DEF TypeOK, BufferFits, InStep, Buffer, AtLoop, AtGap, Copy, Return, fileVars
<1>4. BufferRight'
  BY <1>0 DEF TypeOK, BufferRight, BufferFits, InStep, InBuffer, Buffer, AtLoop, AtGap, Copy, Return, fileVars
<1>5. InStep'
  BY <1>0 DEF TypeOK, InStep, Buffer, AtLoop, AtGap, Copy, Return, fileVars
<1>6. NothingMisplaced'
  BY <1>0 DEF TypeOK, NothingMisplaced, BufferRight, BufferFits, InStep, InBuffer, WritePoint, Buffer, AtLoop, AtGap, Copy, Return, fileVars
<1>7. NothingLost'
  BY <1>0, <1>1, <1>4 DEF TypeOK, NothingLost, Stored, Pending, ImageAt, InBuffer, BufferRight,
     BufferFits, InStep, WritePoint, NothingMisplaced, Buffer, AtLoop, AtGap, Copy, Return, fileVars
<1>8. QED
  BY <1>1, <1>2, <1>3, <1>4, <1>5, <1>6, <1>7

(* A new daemon starts with an empty buffer at the write point.            *)
LEMMA RestartInv ==
  ASSUME NEW a \in 0 .. MsgSize, IInv, Restart(a)
  PROVE  IInv'
<1>0. BlockEnd(bufstart) \in Nat /\ bufstart < BlockEnd(bufstart)
  BY BlockEndBeyond DEF IInv, TypeOK
<1>a. bufstart' \in Nat => /\ BlockEnd(bufstart') \in Nat
                           /\ bufstart' < BlockEnd(bufstart')
                           /\ BlockEnd(bufstart') <= bufstart' + FILEBUFFERSIZE
  BY BlockEndBeyond
<1> USE <1>a DEF IInv, Addr, Slot
<1>1. TypeOK'
  BY <1>0 DEF TypeOK, BufferFits, InStep, WritePoint, Hole, Restart
<1>2. WritePoint'
  BY <1>0 DEF TypeOK, WritePoint, BufferFits, InStep, Restart
<1>3. BufferFits'
  BY <1>0, <1>1 DEF TypeOK, BufferFits, InStep, Restart
<1>4. BufferRight'
  BY <1>0 DEF TypeOK, BufferRight, BufferFits, InStep, InBuffer, Restart
<1>5. InStep'
  BY <1>0 DEF TypeOK, InStep, Restart
<1>6. NothingMisplaced'
  BY <1>0 DEF TypeOK, NothingMisplaced, BufferRight, BufferFits, InStep, InBuffer, WritePoint, Restart
<1>7. NothingLost'
  BY <1>0, <1>1, <1>4 DEF TypeOK, NothingLost, Stored, Pending, ImageAt, InBuffer, BufferRight,
     BufferFits, InStep, WritePoint, NothingMisplaced, Restart
<1>8. QED
  BY <1>1, <1>2, <1>3, <1>4, <1>5, <1>6, <1>7

(* A dead daemon buffers nothing, and the file is as it was.               *)
LEMMA CrashInv ==
  ASSUME IInv, Crash
  PROVE  IInv'
<1>0. BlockEnd(bufstart) \in Nat /\ bufstart < BlockEnd(bufstart)
  BY BlockEndBeyond DEF IInv, TypeOK
<1>a. bufstart' \in Nat => /\ BlockEnd(bufstart') \in Nat
                           /\ bufstart' < BlockEnd(bufstart')
                           /\ BlockEnd(bufstart') <= bufstart' + FILEBUFFERSIZE
  BY BlockEndBeyond
<1> USE <1>a DEF IInv, Addr, Slot
<1>1. TypeOK'
  BY <1>0 DEF TypeOK, BufferFits, InStep, WritePoint, Hole, Crash
<1>2. WritePoint'
  BY <1>0 DEF TypeOK, WritePoint, BufferFits, InStep, Crash
<1>3. BufferFits'
  BY <1>0, <1>1 DEF TypeOK, BufferFits, InStep, Crash
<1>4. BufferRight'
  BY <1>0 DEF TypeOK, BufferRight, BufferFits, InStep, InBuffer, Crash
<1>5. InStep'
  BY <1>0 DEF TypeOK, InStep, Crash
<1>6. NothingMisplaced'
  BY <1>0 DEF TypeOK, NothingMisplaced, BufferRight, BufferFits, InStep, InBuffer, WritePoint, Crash
<1>7. NothingLost'
  BY <1>0, <1>1, <1>4 DEF TypeOK, NothingLost, Stored, Pending, ImageAt, InBuffer, BufferRight,
     BufferFits, InStep, WritePoint, NothingMisplaced, Crash
<1>8. QED
  BY <1>1, <1>2, <1>3, <1>4, <1>5, <1>6, <1>7

(* Every step keeps the invariant, by the lemmas on the actions.           *)
LEMMA NextInv == IInv /\ [Next]_vars => IInv'
<1> SUFFICES ASSUME IInv, [Next]_vars PROVE IInv'
  OBVIOUS
<1>1. CASE UNCHANGED vars
  BY <1>1 DEF IInv, vars, fileVars, bufVars, callVars, TypeOK, WritePoint, BufferFits, BufferRight,
     InStep, NothingMisplaced, NothingLost, Stored, ImageAt, InBuffer, Pending
<1>2. CASE Next
  BY <1>2, WriteDataInv, FlushInv, FlushForBigInv, WriteBigInv, WriteBelowInv,
     WriteBelowPartInv, SkipAheadInv, FillBlockInv, BufferInv, RestartInv, CrashInv DEF Next
<1>3. QED
  BY <1>1, <1>2

(* Always, for every message size, block size and packet size: the write   *)
(* point is bufstart, the buffer stays within its block and holds its own  *)
(* bytes, nothing is misplaced in the file and nothing written is lost.    *)
THEOREM BufferInvariant == Spec => []IInv
BY InitInv, NextInv, PTL DEF Spec

(* Every pointer of the buffer stays within the message (TypeOK).          *)
THEOREM BufferTypeOK == Spec => []TypeOK
BY BufferInvariant, PTL DEF IInv

(* No branch of WriteData writes a byte where it does not belong           *)
(* (NothingMisplaced).                                                     *)
THEOREM BufferNothingMisplaced == Spec => []NothingMisplaced
BY BufferInvariant, PTL DEF IInv

(* A byte that was handed over is in the file or the buffer, pending, or   *)
(* gone in a crash (NothingLost).                                          *)
THEOREM BufferNothingLost == Spec => []NothingLost
BY BufferInvariant, PTL DEF IInv

(* bufstart is the kernel's file offset between calls (WritePoint), as the *)
(* code assumes whenever it writes without a seek.                         *)
THEOREM BufferWritePoint == Spec => []WritePoint
BY BufferInvariant, PTL DEF IInv

(* The buffer does not grow past its block (BufferFits), so the copy in    *)
(* WriteData stays inside databuffer.                                      *)
THEOREM BufferStaysInBlock == Spec => []BufferFits
BY BufferInvariant, PTL DEF IInv

-----------------------------------------------------------------------------
(* A step of WriteData or a flush stores exactly the part of the packet it *)
(* deals with.                                                             *)
Progress == /\ Pending' \subseteq Pending
            /\ Stored' = Stored \cup (Pending \ Pending')
            /\ \A x \in Addr : file'[x] = file[x] \/ file'[x] = x

(* One lemma per step of WriteData: what it stores is what is no longer    *)
(* pending.                                                                *)
LEMMA FlushProgress ==
  ASSUME IInv, Flush PROVE Progress
<1>1. IInv'
  BY FlushInv
<1>2. /\ Stored  = {x \in Addr : InBuffer(x) \/ file[x] = x}
      /\ Stored' = {x \in Addr : InBuffer(x)' \/ file'[x] = x}
  BY <1>1 DEF IInv, BufferRight, Stored, ImageAt
<1>3. Pending' \subseteq Pending /\ Pending \subseteq Addr
  BY DEF IInv, TypeOK, Pending, Addr, InStep, Flush, FlushWData, Flushed, callVars
<1>4. \A x \in Addr : file'[x] = file[x] \/ file'[x] = x
  BY DEF IInv, TypeOK, InStep, WritePoint, BufferFits, BufferRight, InBuffer, Addr, Slot, Hole, Flush, FlushWData, Flushed, callVars
<1>5. \A x \in Addr : \/ InBuffer(x)' \/ file'[x] = x
                     <=> InBuffer(x) \/ file[x] = x \/ x \in Pending \ Pending'
  BY DEF IInv, TypeOK, InStep, WritePoint, BufferFits, BufferRight, InBuffer, Pending,
     NothingMisplaced, Addr, Slot, Hole, Flush, FlushWData, Flushed, callVars
<1>6. QED
  BY <1>2, <1>3, <1>4, <1>5 DEF Progress

(* A flush stores nothing new.                                             *)
LEMMA FlushForBigProgress ==
  ASSUME IInv, FlushForBig PROVE Progress
<1>1. IInv'
  BY FlushForBigInv
<1>2. /\ Stored  = {x \in Addr : InBuffer(x) \/ file[x] = x}
      /\ Stored' = {x \in Addr : InBuffer(x)' \/ file'[x] = x}
  BY <1>1 DEF IInv, BufferRight, Stored, ImageAt
<1>3. Pending' \subseteq Pending /\ Pending \subseteq Addr
  BY DEF IInv, TypeOK, Pending, Addr, InStep, FlushForBig, FlushWData, Flushed, callVars
<1>4. \A x \in Addr : file'[x] = file[x] \/ file'[x] = x
  BY DEF IInv, TypeOK, InStep, WritePoint, BufferFits, BufferRight, InBuffer, Addr, Slot, Hole, FlushForBig, FlushWData, Flushed, callVars
<1>5. \A x \in Addr : \/ InBuffer(x)' \/ file'[x] = x
                     <=> InBuffer(x) \/ file[x] = x \/ x \in Pending \ Pending'
  BY DEF IInv, TypeOK, InStep, WritePoint, BufferFits, BufferRight, InBuffer, Pending,
     NothingMisplaced, Addr, Slot, Hole, FlushForBig, FlushWData, Flushed, callVars
<1>6. QED
  BY <1>2, <1>3, <1>4, <1>5 DEF Progress

(* All of the packet is stored at once.                                    *)
LEMMA WriteBigProgress ==
  ASSUME IInv, WriteBig PROVE Progress
<1>1. IInv'
  BY WriteBigInv
<1>2. /\ Stored  = {x \in Addr : InBuffer(x) \/ file[x] = x}
      /\ Stored' = {x \in Addr : InBuffer(x)' \/ file'[x] = x}
  BY <1>1 DEF IInv, BufferRight, Stored, ImageAt
<1>3. Pending' \subseteq Pending /\ Pending \subseteq Addr
  BY DEF IInv, TypeOK, Pending, Addr, InStep, WriteBig, Big, Put, Return
<1>4. \A x \in Addr : file'[x] = file[x] \/ file'[x] = x
  BY DEF IInv, TypeOK, InStep, WritePoint, BufferFits, BufferRight, InBuffer, Addr, Slot, Hole, WriteBig, Big, Put, Return
<1>5. \A x \in Addr : \/ InBuffer(x)' \/ file'[x] = x
                     <=> InBuffer(x) \/ file[x] = x \/ x \in Pending \ Pending'
  BY DEF IInv, TypeOK, InStep, WritePoint, BufferFits, BufferRight, InBuffer, Pending,
     NothingMisplaced, Addr, Slot, Hole, WriteBig, Big, Put, Return
<1>6. QED
  BY <1>2, <1>3, <1>4, <1>5 DEF Progress

(* All of the packet is stored at once.                                    *)
LEMMA WriteBelowProgress ==
  ASSUME IInv, WriteBelow PROVE Progress
<1>1. IInv'
  BY WriteBelowInv
<1>2. /\ Stored  = {x \in Addr : InBuffer(x) \/ file[x] = x}
      /\ Stored' = {x \in Addr : InBuffer(x)' \/ file'[x] = x}
  BY <1>1 DEF IInv, BufferRight, Stored, ImageAt
<1>3. Pending' \subseteq Pending /\ Pending \subseteq Addr
  BY DEF IInv, TypeOK, Pending, Addr, InStep, WriteBelow, Put, Return, bufVars
<1>4. \A x \in Addr : file'[x] = file[x] \/ file'[x] = x
  BY DEF IInv, TypeOK, InStep, WritePoint, BufferFits, BufferRight, InBuffer, Addr, Slot, Hole, WriteBelow, Put, Return, bufVars
<1>5. \A x \in Addr : \/ InBuffer(x)' \/ file'[x] = x
                     <=> InBuffer(x) \/ file[x] = x \/ x \in Pending \ Pending'
  BY DEF IInv, TypeOK, InStep, WritePoint, BufferFits, BufferRight, InBuffer, Pending,
     NothingMisplaced, Addr, Slot, Hole, WriteBelow, Put, Return, bufVars
<1>6. QED
  BY <1>2, <1>3, <1>4, <1>5 DEF Progress

(* The part below the buffer is stored.                                    *)
LEMMA WriteBelowPartProgress ==
  ASSUME IInv, WriteBelowPart PROVE Progress
<1>1. IInv'
  BY WriteBelowPartInv
<1>2. /\ Stored  = {x \in Addr : InBuffer(x) \/ file[x] = x}
      /\ Stored' = {x \in Addr : InBuffer(x)' \/ file'[x] = x}
  BY <1>1 DEF IInv, BufferRight, Stored, ImageAt
<1>3. Pending' \subseteq Pending /\ Pending \subseteq Addr
  BY DEF IInv, TypeOK, Pending, Addr, InStep, WriteBelowPart, Put, bufVars
<1>4. \A x \in Addr : file'[x] = file[x] \/ file'[x] = x
  BY DEF IInv, TypeOK, InStep, WritePoint, BufferFits, BufferRight, InBuffer, Addr, Slot, Hole, WriteBelowPart, Put, bufVars
<1>5. \A x \in Addr : \/ InBuffer(x)' \/ file'[x] = x
                     <=> InBuffer(x) \/ file[x] = x \/ x \in Pending \ Pending'
  BY DEF IInv, TypeOK, InStep, WritePoint, BufferFits, BufferRight, InBuffer, Pending,
     NothingMisplaced, Addr, Slot, Hole, WriteBelowPart, Put, bufVars
<1>6. QED
  BY <1>2, <1>3, <1>4, <1>5 DEF Progress

(* Nothing is stored.                                                      *)
LEMMA SkipAheadProgress ==
  ASSUME IInv, SkipAhead PROVE Progress
<1>1. IInv'
  BY SkipAheadInv
<1>2. /\ Stored  = {x \in Addr : InBuffer(x) \/ file[x] = x}
      /\ Stored' = {x \in Addr : InBuffer(x)' \/ file'[x] = x}
  BY <1>1 DEF IInv, BufferRight, Stored, ImageAt
<1>3. Pending' \subseteq Pending /\ Pending \subseteq Addr
  BY DEF IInv, TypeOK, Pending, Addr, InStep, SkipAhead, AtGap, Flushed
<1>4. \A x \in Addr : file'[x] = file[x] \/ file'[x] = x
  BY DEF IInv, TypeOK, InStep, WritePoint, BufferFits, BufferRight, InBuffer, Addr, Slot, Hole, SkipAhead, AtGap, Flushed
<1>5. \A x \in Addr : \/ InBuffer(x)' \/ file'[x] = x
                     <=> InBuffer(x) \/ file[x] = x \/ x \in Pending \ Pending'
  BY DEF IInv, TypeOK, InStep, WritePoint, BufferFits, BufferRight, InBuffer, Pending,
     NothingMisplaced, Addr, Slot, Hole, SkipAhead, AtGap, Flushed
<1>6. QED
  BY <1>2, <1>3, <1>4, <1>5 DEF Progress

(* The rest of the packet is stored in the buffer.                         *)
LEMMA BufferProgress ==
  ASSUME IInv, Buffer PROVE Progress
<1>1. IInv'
  BY BufferInv
<1>2. /\ Stored  = {x \in Addr : InBuffer(x) \/ file[x] = x}
      /\ Stored' = {x \in Addr : InBuffer(x)' \/ file'[x] = x}
  BY <1>1 DEF IInv, BufferRight, Stored, ImageAt
<1>3. Pending' \subseteq Pending /\ Pending \subseteq Addr
  BY DEF IInv, TypeOK, Pending, Addr, InStep, Buffer, AtLoop, AtGap, Copy, Return, fileVars
<1>4. \A x \in Addr : file'[x] = file[x] \/ file'[x] = x
  BY DEF IInv, TypeOK, InStep, WritePoint, BufferFits, BufferRight, InBuffer, Addr, Slot, Hole, Buffer, AtLoop, AtGap, Copy, Return, fileVars
<1>5. \A x \in Addr : \/ InBuffer(x)' \/ file'[x] = x
                     <=> InBuffer(x) \/ file[x] = x \/ x \in Pending \ Pending'
  BY DEF IInv, TypeOK, InStep, WritePoint, BufferFits, BufferRight, InBuffer, Pending,
     NothingMisplaced, Addr, Slot, Hole, Buffer, AtLoop, AtGap, Copy, Return, fileVars
<1>6. QED
  BY <1>2, <1>3, <1>4, <1>5 DEF Progress

(* The part that completes a block is stored and written.                  *)
LEMMA FillBlockProgress ==
  ASSUME IInv, FillBlock PROVE Progress
<1>1. IInv'
  BY FillBlockInv
<1>2. /\ Stored  = {x \in Addr : InBuffer(x) \/ file[x] = x}
      /\ Stored' = {x \in Addr : InBuffer(x)' \/ file'[x] = x}
  BY <1>1 DEF IInv, BufferRight, Stored, ImageAt
<1>5. bufstart \in Nat /\ bufend \in Nat /\ addr \in Nat /\ size \in Nat /\ bufstart <= addr
      /\ addr <= bufend /\ addr + size <= MsgSize
  BY DEF IInv, TypeOK, InStep, FillBlock, AtLoop, AtGap
<1>3. Pending' \subseteq Pending /\ Pending \subseteq Addr
  BY <1>5, FillBlockEffect, SMTT(30) DEF Pending, Addr
<1>4. \A x \in Addr : file'[x] = file[x] \/ file'[x] = x
  BY FillBlockEffect
<1>6. ASSUME NEW x \in Addr
      PROVE  \/ InBuffer(x)' \/ file'[x] = x
             <=> InBuffer(x) \/ file[x] = x \/ x \in Pending \ Pending'
  <2>1. x \in Int
    BY DEF Addr
  <2>2. InBuffer(x)' <=> FALSE
    BY <2>1, <1>5, FillBlockEffect DEF InBuffer
  <2>3. x \in Pending \ Pending' <=> addr <= x /\ x < addr'
    BY <2>1, <1>5, FillBlockEffect DEF Pending
  <2>4. file'[x] = x <=> file[x] = x \/ (bufstart <= x /\ x < addr')
    BY <2>1, <1>5, FillBlockEffect
  <2>5. QED
    BY <2>1, <2>2, <2>3, <2>4, <1>5, FillBlockEffect DEF InBuffer
<1>7. QED
  BY <1>2, <1>3, <1>4, <1>6 DEF Progress

(* The steps that write: everything but the call itself, crash and restart.*)
Writing == \/ Flush \/ FlushForBig \/ WriteBig \/ WriteBelow \/ WriteBelowPart
           \/ SkipAhead \/ FillBlock \/ Buffer

(* Hence every step of a call makes progress in this sense.                *)
LEMMA WritingProgress ==
  ASSUME IInv, Writing PROVE Progress
BY FlushProgress, FlushForBigProgress, WriteBigProgress, WriteBelowProgress,
   WriteBelowPartProgress, SkipAheadProgress, FillBlockProgress, BufferProgress DEF Writing

(* The next-state relation, split as MessageFile splits it.                *)
LEMMA NextSplit ==
  ASSUME Next
  PROVE  \/ \E a \in Addr : \E n \in 1 .. MaxPkt : WriteData(a, n)
         \/ Crash
         \/ \E a \in 0 .. MsgSize : Restart(a)
         \/ Writing
BY DEF Next, Writing

(* What has reached the message file is never overwritten by anything      *)
(* else, whatever order packets come in and wherever the daemon dies.      *)
THEOREM BufferDurable == Spec => Durable
<1>1. IInv /\ [Next]_vars => [\A x \in Addr : file[x] # Hole => file'[x] = file[x]]_vars
  <2> SUFFICES ASSUME IInv, [Next]_vars, NEW x \in Addr, file[x] # Hole
               PROVE  file'[x] = file[x]
    OBVIOUS
  <2>1. file[x] = x
    BY DEF IInv, NothingMisplaced
  <2>2. CASE Writing
    BY <2>1, <2>2, WritingProgress DEF Progress
  <2>3. ASSUME NEW a \in Addr, NEW n \in 1 .. MaxPkt, WriteData(a, n)
        PROVE  file' = file
    BY <2>3 DEF WriteData, fileVars
  <2>4. ASSUME NEW a \in 0 .. MsgSize, Restart(a)
        PROVE  file' = file
    BY <2>4 DEF Restart
  <2>5. CASE Crash
    BY <2>5 DEF Crash
  <2>6. CASE UNCHANGED vars
    BY <2>6 DEF vars, fileVars
  <2>7. QED
    BY <2>2, <2>3, <2>4, <2>5, <2>6, NextSplit
<1>2. QED
  BY <1>1, BufferInvariant, PTL DEF Spec, Durable

(* A step of the buffer is a step of MessageFile, or changes nothing of it. *)
LEMMA BufferStepRefines == IInv /\ [Next]_vars => [MF!Next]_(MF!vars)
<1> SUFFICES ASSUME IInv, [Next]_vars
             PROVE  MF!Next \/ UNCHANGED <<Stored, Safe, Pending, pc # "down">>
  BY DEF MF!vars
<1>1. CASE Writing
  <2>1. Progress
    BY <1>1, WritingProgress
  <2>2. pc # "down" /\ pc' # "down"
    BY <1>1 DEF Writing, Flush, FlushForBig, WriteBig, WriteBelow, WriteBelowPart, SkipAhead,
       FillBlock, Buffer, AtLoop, AtGap, Return, callVars
  <2>3. Safe \subseteq Safe'
    BY <2>1 DEF Safe, Progress
  <2>4. Safe' \subseteq Stored'
    <3>1. IInv'
      BY NextInv
    <3>2. QED
      BY <3>1 DEF Safe, Stored, ImageAt, IInv, BufferRight
  <2>5. MF!Store(Pending \ Pending', Safe')
    BY <2>1, <2>2, <2>3, <2>4 DEF MF!Store, Progress
  <2>6. Safe' \in SUBSET MF!Addr
    BY DEF Safe, MF!Addr, Addr
  <2>7. QED
    BY <2>5, <2>6 DEF MF!Next
<1>2. ASSUME NEW a \in Addr, NEW n \in 1 .. MaxPkt, WriteData(a, n)
      PROVE  MF!Next
  <2>1. Stored' = Stored /\ Safe' = Safe
    BY <1>2 DEF WriteData, Stored, Safe, ImageAt, InBuffer, fileVars, bufVars
  <2>2. Pending = {}
    BY <1>2 DEF WriteData, Pending, IInv, InStep, TypeOK
  <2>3. Pending' \in SUBSET Addr
    BY <1>2 DEF WriteData, Pending, Addr
  <2>4. pc # "down" /\ pc' # "down"
    BY <1>2 DEF WriteData
  <2>5. QED
    BY <2>1, <2>2, <2>3, <2>4 DEF MF!Next, MF!Call, MF!Addr, Addr
<1>3. CASE Crash
  <2>1. Pending' = {}
    <3>1. addr' = 0 /\ size' = 0
      BY <1>3 DEF Crash
    <3>2. QED
      BY <3>1 DEF Pending
  <2>2. Stored' = Safe /\ Safe' = Safe
    <3>1. file' = file /\ bufstart' = 0 /\ bufend' = 0
      BY <1>3 DEF Crash
    <3>2. \A x \in Addr : ~InBuffer(x)'
      BY <3>1 DEF InBuffer, Addr
    <3>3. QED
      BY <3>1, <3>2 DEF Stored, Safe, ImageAt
  <2>3. pc # "down" /\ pc' = "down"
    BY <1>3 DEF Crash
  <2>4. QED
    BY <2>1, <2>2, <2>3 DEF MF!Next, MF!Crash
<1>4. ASSUME NEW a \in 0 .. MsgSize, Restart(a)
      PROVE  MF!Next
  <2>1. Pending' = Pending
    BY <1>4 DEF Restart, Pending
  <2>2. Stored' = Safe /\ Safe' = Safe
    <3>1. file' = file /\ bufstart' = a /\ bufend' = a
      BY <1>4 DEF Restart
    <3>2. \A x \in Addr : ~InBuffer(x)'
      BY <3>1 DEF InBuffer, Addr
    <3>3. QED
      BY <3>1, <3>2 DEF Stored, Safe, ImageAt
  <2>3. Stored = Safe
    <3>1. \A x \in Addr : ~InBuffer(x)
      BY <1>4 DEF Restart, IInv, InStep, InBuffer, Addr
    <3>2. QED
      BY <3>1 DEF Stored, Safe, ImageAt
  <2>4. pc = "down" /\ pc' # "down"
    BY <1>4 DEF Restart
  <2>5. QED
    BY <2>1, <2>2, <2>3, <2>4 DEF MF!Next, MF!Restart
<1>5. CASE UNCHANGED vars
  BY <1>5 DEF vars, fileVars, bufVars, callVars, Stored, Safe, ImageAt, InBuffer, Pending
<1>6. QED
  BY <1>1, <1>2, <1>3, <1>4, <1>5, NextSplit

(* The buffered file implements MessageFile: every packet is stored in     *)
(* place, nothing else changes, what has reached the file stays, and a     *)
(* crash forgets only what was in the buffer.                              *)
THEOREM BufferRefinement == Spec => StoresInPlace
<1>1. Init => MF!Init
  BY DEF Init, MF!Init, Stored, Safe, ImageAt, InBuffer, Pending, Addr, Hole
<1>2. QED
  BY <1>1, BufferStepRefines, BufferInvariant, PTL DEF Spec, StoresInPlace, MF!Spec

-----------------------------------------------------------------------------
(* The reading side.                                                       *)

(* The length of the message that is sent, and the bytes it is made of.    *)
L == R!MesgLength
Byte == {"data", "header"} \X Nat

(* The parts of a message whose data is handed on from place k.            *)
DataPart(k)   == [file |-> "data", start |-> k, from |-> 0, to |-> MsgSize - k]
HeaderPart(k) == [file |-> "header", start |-> 0,
                  from |-> MsgSize - k, to |-> MsgSize - k + HdrSize]
SplitAt(k) == parts = <<DataPart(k), HeaderPart(k)>>

(* The types of the sending side, and the two shapes of its parts.         *)
OutTypes ==
  /\ parts = <<>> \/ \E k \in Starts : SplitAt(k)
  /\ current \in {1, 2} /\ msgfile \in BOOLEAN /\ fileaddr \in Nat /\ seekpos \in Nat
  /\ msgaddr \in 0 .. L
  /\ obufstart \in Nat /\ obufend \in Nat
  /\ obuffer \in [Slot -> Byte \cup {R!NoByte}]
  /\ outstate \in {"IDLE", "STARTING", "ACTIVE", "ENDING"}
  /\ ahead \in BOOLEAN /\ eof \in BOOLEAN
  /\ packet \in [addr : Nat, want : Nat, data : Seq(Byte)]
  /\ nak \in [end : Nat, addr : Nat, eof : BOOLEAN]

(* An idle channel collects nothing and answers nothing.                   *)
IdleRight ==
  /\ parts = <<>> => outstate = "IDLE"
  /\ outstate = "IDLE" => packet = R!NoPacket /\ ~eof
  /\ packet = R!NoPacket => nak = R!NoNAK

(* The open file stands where the code believes it.                        *)
FileRight == msgfile => fileaddr = seekpos

(* The addresses of the buffer are the message's, or those of a block that *)
(* begins before the message and so none at all; it holds their bytes.     *)
BlockRight ==
  \A a \in obufstart .. obufend - 1 :
    a < L /\ a - obufstart < FILEBUFFERSIZE /\ obuffer[a - obufstart] = Proper(a)

(* A packet goes from its address up to the message address; the end of    *)
(* the message is flagged as soon as a packet has reached it.              *)
PacketRight ==
  packet # R!NoPacket =>
    /\ packet.want > 0 /\ Len(packet.data) <= packet.want
    /\ packet.addr < L /\ msgaddr = packet.addr + Len(packet.data)
    /\ eof <=> msgaddr = L

NakRight == nak # R!NoNAK => nak.end \in 1 .. L /\ nak.addr \in 0 .. L

(* Where the message goes on after the answer to a NAK, and whether that   *)
(* is its end.                                                             *)
SavedAddr == IF nak = R!NoNAK THEN msgaddr ELSE nak.addr
SavedEOF  == IF nak = R!NoNAK THEN eof ELSE nak.eof
EndRight ==
  /\ SavedEOF \/ outstate = "ENDING" => SavedAddr = L
  /\ ~SavedEOF /\ (outstate = "ACTIVE" \/ (outstate = "STARTING" /\ ahead)) => SavedAddr < L

(* The invariant of the sending side, and that of the whole relay: while   *)
(* the message arrives nothing is sent, and what is handed on is whole.    *)
OutInv == /\ OutTypes
          /\ IdleRight
          /\ FileRight
          /\ BlockRight
          /\ PacketRight
          /\ NakRight
          /\ EndRight
          /\ RelayedRight

RelayInv == /\ phase \in {"in", "out"}
            /\ IInv
            /\ OutInv
            /\ phase = "in" => parts = <<>>
            /\ phase = "out" => file = [x \in Addr |-> x]

-----------------------------------------------------------------------------
(* What the parts of a message say of its addresses.                       *)
LEMMA PartFacts ==
  ASSUME NEW k \in Starts, SplitAt(k)
  PROVE  /\ k \in Nat /\ MsgSize - k > 0
         /\ parts # <<>> /\ Len(parts) = 2 /\ DOMAIN parts = {1, 2}
         /\ parts[1] = DataPart(k) /\ parts[2] = HeaderPart(k)
         /\ L = MsgSize - k + HdrSize
BY SizeAssumption DEF SplitAt, L, R!MesgLength, HeaderPart, DataPart, Addr

(* The byte of an address below the header's is one of the data, and any   *)
(* other one of the header.                                                *)
LEMMA ProperIs ==
  ASSUME NEW k \in Starts, SplitAt(k), NEW a \in 0 .. L - 1
  PROVE  Proper(a) = IF a < MsgSize - k THEN <<"data", k + a>>
                                        ELSE <<"header", a - (MsgSize - k)>>
<1> DEFINE holds(j) == parts[j].from <= a /\ a < parts[j].to
           i == CHOOSE j \in DOMAIN parts : holds(j)
<1>0. /\ k \in Nat /\ MsgSize - k > 0 /\ DOMAIN parts = {1, 2}
      /\ parts[1] = DataPart(k) /\ parts[2] = HeaderPart(k)
      /\ L = MsgSize - k + HdrSize
  BY PartFacts
<1>1. \A j \in DOMAIN parts : holds(j) <=> j = (IF a < MsgSize - k THEN 1 ELSE 2)
  BY <1>0 DEF DataPart, HeaderPart
<1>2. i = IF a < MsgSize - k THEN 1 ELSE 2
  BY <1>0, <1>1
<1>3. Proper(a) = <<parts[i].file, parts[i].start + (a - parts[i].from)>>
  BY DEF Proper
<1>4. QED
  BY <1>0, <1>2, <1>3 DEF DataPart, HeaderPart

(* It depends on the parts alone.                                          *)
LEMMA ProperStays ==
  ASSUME parts' = parts
  PROVE  \A a : Proper(a)' = Proper(a)
BY DEF Proper

(* A byte of either file is known by its file and its place.               *)
LEMMA DiskFacts ==
  ASSUME file = [x \in Addr |-> x]
  PROVE  /\ Len(disk["data"]) = MsgSize /\ Len(disk["header"]) = HdrSize
         /\ \A f \in {"data", "header"} : \A p \in Nat :
              p < Len(disk[f]) => disk[f][p + 1] = <<f, p>>
<1>1. DOMAIN disk["data"] = 1 .. MsgSize /\ DOMAIN disk["header"] = 1 .. HdrSize
  BY DEF disk
<1>2. Len(disk["data"]) = MsgSize /\ Len(disk["header"]) = HdrSize
  BY <1>1
<1>3. ASSUME NEW p \in Nat, p < MsgSize
      PROVE  disk["data"][p + 1] = <<"data", p>>
  <2>1. p + 1 \in 1 .. MsgSize /\ (p + 1) - 1 = p /\ p \in Addr
    BY <1>3 DEF Addr
  <2>2. disk["data"][p + 1] = <<"data", file[(p + 1) - 1]>>
    BY <2>1 DEF disk
  <2>3. file[p] = p
    BY <2>1
  <2>4. QED
    BY <2>1, <2>2, <2>3
<1>4. \A p \in Nat : p < HdrSize => disk["header"][p + 1] = <<"header", p>>
  BY DEF disk
<1>5. QED
  BY <1>2, <1>3, <1>4

(* All of the message is in its file.                                      *)
InPlace == file = [x \in Addr |-> x]

(* What a read at p gets then.                                             *)
GetsInPlace(f, p, n) ==
  /\ R!Read(f, p, n) \in Seq(Byte)
  /\ Len(R!Read(f, p, n)) = n
  /\ \A i \in 1 .. n : R!Read(f, p, n)[i] = <<f, p + i - 1>>

(* A read inside a file gets as many bytes as it asks for, from the place  *)
(* where the file stands.                                                  *)
LEMMA ReadGets ==
  ASSUME InPlace, NEW f \in {"data", "header"},
         NEW p \in Nat, NEW n \in Nat, p + n <= Len(disk[f])
  PROVE  GetsInPlace(f, p, n)
<1>1. Len(disk[f]) \in Nat
  BY DiskFacts, SizeAssumption DEF InPlace
<1>2. R!Read(f, p, n) = SubSeq(disk[f], p + 1, p + n)
  BY <1>1 DEF R!Read, R!Least
<1>3. ASSUME NEW i \in p + 1 .. p + n
      PROVE  disk[f][i] = <<f, i - 1>>
  <2>1. i - 1 \in Nat /\ i - 1 < Len(disk[f]) /\ (i - 1) + 1 = i
    BY <1>1
  <2>2. disk[f][(i - 1) + 1] = <<f, i - 1>>
    BY <2>1, DiskFacts DEF InPlace
  <2>3. QED
    BY <2>1, <2>2
<1>4. ASSUME NEW i \in p + 1 .. p + n
      PROVE  disk[f][i] \in Byte
  <2>1. i - 1 \in Nat
    OBVIOUS
  <2>2. <<f, i - 1>> \in Byte
    BY <2>1 DEF Byte
  <2>3. QED
    BY <2>2, <1>3
<1>5. p + 1 \in Int /\ p + n \in Int /\ \A i \in p + 1 .. p + n : disk[f][i] \in Byte
  BY <1>4
<1>6. /\ SubSeq(disk[f], p + 1, p + n) \in Seq(Byte)
      /\ Len(SubSeq(disk[f], p + 1, p + n)) =
           IF p + 1 <= p + n THEN (p + n) - (p + 1) + 1 ELSE 0
      /\ \A i \in 1 .. (p + n) - (p + 1) + 1 :
           SubSeq(disk[f], p + 1, p + n)[i] = disk[f][(p + 1) + i - 1]
  BY <1>5, SubSeqProperties
<1>7. ASSUME NEW i \in 1 .. n
      PROVE  SubSeq(disk[f], p + 1, p + n)[i] = <<f, p + i - 1>>
  <2>1. p + i \in p + 1 .. p + n /\ (p + 1) + i - 1 = p + i
        /\ i \in 1 .. (p + n) - (p + 1) + 1
    OBVIOUS
  <2>2. QED
    BY <1>3, <1>6, <2>1
<1>8. Len(SubSeq(disk[f], p + 1, p + n)) = n
  BY <1>6
<1>9. \A i \in 1 .. n : SubSeq(disk[f], p + 1, p + n)[i] = <<f, p + i - 1>>
  BY <1>7
<1>10. QED
  BY <1>2, <1>6, <1>8, <1>9 DEF GetsInPlace

(* The part looked for is the one that holds the message address.          *)
LEMMA SoughtPart ==
  ASSUME NEW k \in Starts, SplitAt(k), current \in {1, 2}, msgaddr \in 0 .. L - 1
  PROVE  /\ R!Sought # {}
         /\ R!Min(R!Sought) = IF msgaddr < MsgSize - k THEN 1 ELSE 2
<1>0. /\ k \in Nat /\ MsgSize - k > 0 /\ Len(parts) = 2
      /\ parts[1] = DataPart(k) /\ parts[2] = HeaderPart(k)
      /\ L = MsgSize - k + HdrSize
  BY PartFacts
<1>1. R!Sought = IF msgaddr < MsgSize - k THEN {1, 2} ELSE {2}
  BY <1>0 DEF R!Sought, DataPart, HeaderPart
<1>2. QED
  BY <1>1 DEF R!Min

(* The length of the message depends on its parts alone.                   *)
LEMMA LengthStays ==
  ASSUME parts' = parts
  PROVE  L' = L
BY DEF L, R!MesgLength

(* No message is so long that an address in it, or a block before it,      *)
(* would wrap.                                                             *)
LEMMA LengthIsNat ==
  ASSUME OutTypes
  PROVE  L \in Nat /\ L + FILEBUFFERSIZE < ULONG
<1>1. CASE parts = <<>>
  BY <1>1 DEF L, R!MesgLength
<1>2. ASSUME NEW k \in Starts, SplitAt(k)
      PROVE  L \in Nat /\ L + FILEBUFFERSIZE < ULONG
  BY <1>2, PartFacts
<1>3. QED
  BY <1>1, <1>2 DEF OutTypes

(* The right bytes, no more of them than are wanted and the message has,   *)
(* make a packet that was right longer and leave it right.                 *)
LEMMA DeliverRight ==
  ASSUME OutInv, R!Reading, NEW bytes \in Seq(Byte),
         Len(bytes) <= R!Wanted, msgaddr + Len(bytes) <= L,
         \A i \in 1 .. Len(bytes) : bytes[i] = Proper(msgaddr + i - 1),
         R!Deliver(bytes), UNCHANGED <<R!chanVars, nak>>
  PROVE  /\ msgaddr' \in 0 .. L' /\ eof' \in BOOLEAN
         /\ packet' \in [addr : Nat, want : Nat, data : Seq(Byte)]
         /\ IdleRight' /\ PacketRight' /\ NakRight' /\ EndRight' /\ RelayedRight'
<1>0. L \in Nat /\ L' = L /\ (\A a : Proper(a)' = Proper(a)) /\ parts' = parts
      /\ outstate' = outstate /\ ahead' = ahead /\ nak' = nak
  BY LengthIsNat, LengthStays, ProperStays DEF OutInv, R!chanVars
<1>1. /\ packet # R!NoPacket /\ ~eof /\ packet.want > 0 /\ msgaddr < L
      /\ packet.addr \in Nat /\ packet.want \in Nat /\ packet.data \in Seq(Byte)
      /\ packet.addr < L
      /\ msgaddr = packet.addr + Len(packet.data)
  BY <1>0 DEF OutInv, OutTypes, PacketRight, R!Reading
<1>2. Len(bytes) \in Nat /\ Len(packet.data) \in Nat
  BY <1>1, LenProperties
<1>3. /\ packet.data \o bytes \in Seq(Byte)
      /\ Len(packet.data \o bytes) = Len(packet.data) + Len(bytes)
      /\ \A i \in 1 .. Len(packet.data) + Len(bytes) : (packet.data \o bytes)[i] =
           IF i <= Len(packet.data) THEN packet.data[i] ELSE bytes[i - Len(packet.data)]
  BY <1>1, ConcatProperties
<1>4. /\ packet'.addr = packet.addr /\ packet'.want = packet.want
      /\ packet'.data = packet.data \o bytes
      /\ packet' \in [addr : Nat, want : Nat, data : Seq(Byte)]
  BY <1>1, <1>3 DEF R!Deliver, OutInv, OutTypes
<1>5. msgaddr' = msgaddr + Len(bytes) /\ (eof' <=> msgaddr' = L) /\ eof' \in BOOLEAN
  BY <1>0, <1>1 DEF R!Deliver, L
<1>6. packet' # R!NoPacket
  BY <1>1, <1>4 DEF R!NoPacket
<1>7. IdleRight'
  BY <1>0, <1>1, <1>6 DEF OutInv, IdleRight
<1>8. PacketRight'
  BY <1>0, <1>1, <1>2, <1>3, <1>4, <1>5, SMTT(30) DEF PacketRight, R!Wanted
<1>9. NakRight'
  BY <1>0 DEF NakRight, OutInv
<1>10. EndRight'
  BY <1>0, <1>1, <1>2, <1>5 DEF EndRight, SavedAddr, SavedEOF, OutInv, OutTypes
<1>11. RelayedRight'
  <2> SUFFICES ASSUME NEW i \in 1 .. Len(packet.data) + Len(bytes)
               PROVE  (packet.data \o bytes)[i] = Proper(packet.addr + i - 1)
    BY <1>0, <1>2, <1>3, <1>4, LenProperties DEF RelayedRight
  <2>1. CASE i <= Len(packet.data)
    <3>1. i \in DOMAIN packet.data
      BY <2>1, <1>1, <1>2, LenProperties
    <3>2. QED
      BY <2>1, <3>1, <1>3 DEF RelayedRight, OutInv
  <2>2. CASE i > Len(packet.data)
    <3>1. i - Len(packet.data) \in 1 .. Len(bytes)
      BY <2>2, <1>2
    <3>2. (packet.data \o bytes)[i] = Proper(msgaddr + (i - Len(packet.data)) - 1)
      BY <2>2, <3>1, <1>2, <1>3
    <3>3. msgaddr + (i - Len(packet.data)) - 1 = packet.addr + i - 1
      BY <1>1, <1>2
    <3>4. QED
      BY <3>2, <3>3
  <2>3. QED
    BY <2>1, <2>2, <1>2
<1>12. msgaddr' \in 0 .. L
  BY <1>1, <1>2, <1>5
<1>13. QED
  BY <1>0, <1>4, <1>5, <1>7, <1>8, <1>9, <1>10, <1>11, <1>12

-----------------------------------------------------------------------------
(* Numbers modulo ULONG: what is below it stays ...                        *)
LEMMA ModSmall ==
  ASSUME NEW x \in 0 .. ULONG - 1
  PROVE  x % ULONG = x
OBVIOUS

(* ... what is not far below zero wraps to the top ...                     *)
LEMMA ModUnder ==
  ASSUME NEW x \in Int, -ULONG <= x, x < 0
  PROVE  x % ULONG = x + ULONG
OBVIOUS

(* ... and what is not far above comes back.                               *)
LEMMA ModOver ==
  ASSUME NEW x \in Int, ULONG <= x, x < ULONG + ULONG
  PROVE  x % ULONG = x - ULONG
OBVIOUS

(* How far a place lies into its block.                                    *)
LEMMA OffsetFacts ==
  ASSUME NEW p \in Nat
  PROVE  /\ p % FILEBUFFERSIZE \in 0 .. FILEBUFFERSIZE - 1
         /\ p % FILEBUFFERSIZE <= p
OBVIOUS

(* A buffer read as far as it goes.                                        *)
LEMMA FromBufferRight ==
  ASSUME OutInv, R!FromBuffer
  PROVE  OutInv'
<1> DEFINE n == R!Least(R!Wanted, obufend - msgaddr)
           bytes == [i \in 1 .. n |-> obuffer[msgaddr - obufstart + i - 1]]
<1>0. PICK k \in Starts : SplitAt(k)
  BY DEF OutInv, OutTypes, R!FromBuffer, R!Reading, IdleRight
<1>1. /\ L \in Nat /\ L < ULONG /\ msgaddr \in 0 .. L /\ obufstart \in Nat /\ obufend \in Nat
      /\ obufstart <= msgaddr /\ msgaddr < obufend
  BY LengthIsNat DEF OutInv, OutTypes, R!FromBuffer, R!InBuffer
<1>2. obufend <= L
  <2>1. obufend - 1 \in obufstart .. obufend - 1
    BY <1>1
  <2>2. obufend - 1 < L
    BY <2>1 DEF OutInv, BlockRight
  <2>3. QED
    BY <1>1, <2>2
<1>3. R!Wanted \in Nat /\ R!Wanted > 0
  BY DEF R!FromBuffer, R!Reading, R!Wanted, OutInv, OutTypes
<1>4. n \in Nat /\ n <= R!Wanted /\ msgaddr + n <= obufend
  BY <1>1, <1>3 DEF R!Least
<1>5. /\ (msgaddr - obufstart) % ULONG = msgaddr - obufstart
      /\ (obufend - msgaddr) % ULONG = obufend - msgaddr
  BY <1>1, <1>2, ModSmall
<1>6. R!Copied(obuffer, obufstart, obufend) = bytes
  BY <1>5 DEF R!Copied
<1>7. ASSUME NEW i \in 1 .. n
      PROVE  bytes[i] = Proper(msgaddr + i - 1) /\ bytes[i] \in Byte
  <2>1. /\ msgaddr + i - 1 \in obufstart .. obufend - 1 
        /\ (msgaddr + i - 1) - obufstart = msgaddr - obufstart + i - 1
        /\ msgaddr + i - 1 \in 0 .. L - 1
    BY <1>1, <1>2, <1>4
  <2>2. bytes[i] = Proper(msgaddr + i - 1)
    BY <2>1 DEF OutInv, BlockRight
  <2>3. Proper(msgaddr + i - 1) \in Byte
    BY <1>0, <2>1, PartFacts, ProperIs DEF Byte
  <2>4. QED
    BY <2>2, <2>3
<1>8. bytes \in Seq(Byte) /\ Len(bytes) = n
  BY <1>4, <1>7
<1>9. /\ msgaddr' \in 0 .. L' /\ eof' \in BOOLEAN
      /\ packet' \in [addr : Nat, want : Nat, data : Seq(Byte)]
      /\ IdleRight' /\ PacketRight' /\ NakRight' /\ EndRight' /\ RelayedRight'
  <2> HIDE DEF bytes, n
  <2>1. \A i \in 1 .. Len(bytes) : bytes[i] = Proper(msgaddr + i - 1)
    BY <1>7, <1>8
  <2>2. Len(bytes) <= R!Wanted /\ msgaddr + Len(bytes) <= L
    BY <1>1, <1>2, <1>4, <1>8
  <2>3. R!Reading /\ R!Deliver(bytes) /\ UNCHANGED <<R!chanVars, nak>>
    BY <1>6 DEF R!FromBuffer
  <2>4. QED
    BY <1>8, <2>1, <2>2, <2>3, DeliverRight
<1>10. UNCHANGED <<outstate, ahead, parts, obufstart, obufend, obuffer,
                   current, msgfile, fileaddr, seekpos, nak>>
  BY DEF R!FromBuffer, R!chanVars, R!bufVars, R!openVars
<1>11. OutTypes'
  BY <1>0, <1>9, <1>10 DEF OutInv, OutTypes, SplitAt
<1>12. FileRight'
  BY <1>10 DEF FileRight, OutInv
<1>13. BlockRight'
  BY <1>10, LengthStays, ProperStays DEF BlockRight, OutInv
<1>14. QED
  BY <1>9, <1>11, <1>12, <1>13 DEF OutInv

-----------------------------------------------------------------------------
(* Data is asked for below the end of the message only.                    *)
LEMMA ReadingFacts ==
  ASSUME OutInv, R!Reading
  PROVE  /\ msgaddr \in 0 .. L - 1 /\ L \in Nat
         /\ R!Wanted \in Nat /\ R!Wanted > 0
<1>1. L \in Nat /\ msgaddr \in 0 .. L
  BY LengthIsNat DEF OutInv, OutTypes
<1>2. msgaddr # L
  BY DEF OutInv, PacketRight, R!Reading
<1>3. R!Wanted \in Nat /\ R!Wanted > 0
  BY DEF R!Reading, R!Wanted, OutInv, OutTypes
<1>4. QED
  BY <1>1, <1>2, <1>3

(* The part that holds the message address: its file has as many bytes     *)
(* from there on as the part has, and they are the ones that belong at the *)
(* addresses of the part.                                                  *)
LEMMA PlaceFacts ==
  ASSUME OutInv, file = [x \in Addr |-> x], R!Reading,
         NEW i, i = R!Min(R!Sought)
  PROVE  /\ R!Sought # {} /\ i \in {1, 2}
         /\ parts[i].file \in {"data", "header"}
         /\ parts[i].from \in Nat /\ parts[i].to \in Nat /\ parts[i].to <= L
         /\ parts[i].from <= msgaddr /\ msgaddr < parts[i].to
         /\ R!PlaceOf(i) \in Nat
         /\ parts[i].from = 0 \/ R!PlaceOf(i) = msgaddr - parts[i].from
         /\ Len(disk[parts[i].file]) = R!PlaceOf(i) + (parts[i].to - msgaddr)
         /\ \A a \in parts[i].from .. parts[i].to - 1 :
              Proper(a) = <<parts[i].file, R!PlaceOf(i) + (a - msgaddr)>>
<1>1. PICK k \in Starts : SplitAt(k)
  BY DEF OutInv, OutTypes, R!Reading, IdleRight
<1>2. /\ k \in Nat /\ MsgSize - k > 0
      /\ parts[1] = DataPart(k) /\ parts[2] = HeaderPart(k)
      /\ L = MsgSize - k + HdrSize
  BY <1>1, PartFacts
<1>3. msgaddr \in 0 .. L - 1
  BY ReadingFacts
<1>4. /\ R!Sought # {}
      /\ i = IF msgaddr < MsgSize - k THEN 1 ELSE 2
  BY <1>1, <1>3, SoughtPart DEF OutInv, OutTypes
<1>5. Len(disk["data"]) = MsgSize /\ Len(disk["header"]) = HdrSize
  BY DiskFacts
<1>6. \A a \in 0 .. L - 1 : Proper(a) = IF a < MsgSize - k THEN <<"data", k + a>>
                                        ELSE <<"header", a - (MsgSize - k)>>
  BY <1>1, ProperIs
<1>7. CASE msgaddr < MsgSize - k
  <2>1. /\ i = 1 /\ parts[i].file = "data" /\ parts[i].from = 0 /\ parts[i].start = k
        /\ parts[i].to = MsgSize - k
    BY <1>2, <1>4, <1>7 DEF DataPart
  <2>2. R!PlaceOf(i) = k + msgaddr
    BY <2>1, <1>2, <1>3 DEF R!PlaceOf
  <2>3. ASSUME NEW a \in 0 .. MsgSize - k - 1
        PROVE  Proper(a) = <<"data", R!PlaceOf(i) + (a - msgaddr)>>
    <3>1. R!PlaceOf(i) + (a - msgaddr) = k + a /\ a \in 0 .. L - 1 /\ a < MsgSize - k
      BY <2>2, <1>2, <1>3
    <3>2. QED
      BY <3>1, <1>6
  <2>4. QED
    BY <2>1, <2>2, <2>3, <1>2, <1>3, <1>4, <1>5
<1>8. CASE msgaddr >= MsgSize - k
  <2>1. /\ i = 2 /\ parts[i].file = "header" /\ parts[i].from = MsgSize - k
        /\ parts[i].start = 0 /\ parts[i].to = MsgSize - k + HdrSize
    BY <1>2, <1>3, <1>4, <1>8 DEF HeaderPart
  <2>2. R!PlaceOf(i) = msgaddr - (MsgSize - k)
    BY <2>1, <1>2, <1>3 DEF R!PlaceOf
  <2>3. ASSUME NEW a \in MsgSize - k .. MsgSize - k + HdrSize - 1
        PROVE  Proper(a) = <<"header", R!PlaceOf(i) + (a - msgaddr)>>
    <3>1. /\ R!PlaceOf(i) + (a - msgaddr) = a - (MsgSize - k)
          /\ a \in 0 .. L - 1 /\ ~(a < MsgSize - k)
      BY <2>2, <1>2, <1>3
    <3>2. QED
      BY <3>1, <1>6
  <2>4. \A a \in parts[i].from .. parts[i].to - 1 :
          Proper(a) = <<parts[i].file, R!PlaceOf(i) + (a - msgaddr)>>
    BY <2>1, <2>3, <1>2
  <2>5. Len(disk[parts[i].file]) = R!PlaceOf(i) + (parts[i].to - msgaddr)
    BY <2>1, <2>2, <1>2, <1>3, <1>5, SMTT(30)
  <2>6. QED
    BY <2>1, <2>2, <2>4, <2>5, <1>2, <1>3, <1>4, <1>8
<1>9. QED
  BY <1>2, <1>3, <1>7, <1>8

(* The seek that is left out is not needed.                                *)
LEMMA SeekRight ==
  ASSUME FileRight, NEW i, NEW p
  PROVE  R!SeekTo(i, p) = p
BY DEF FileRight, R!SeekTo, R!Believed, R!Standing

(* A read from the file itself leaves the buffer alone.                    *)
LEMMA FromFileRight ==
  ASSUME OutInv, file = [x \in Addr |-> x], R!FromFile
  PROVE  OutInv'
<1> DEFINE i   == R!Min(R!Sought)
           n   == R!Least(R!Wanted, parts[i].to - msgaddr)
           f   == parts[i].file
           got == R!Read(f, R!PlaceOf(i), n)
<1>1. /\ i \in {1, 2} /\ f \in {"data", "header"}
      /\ parts[i].from \in Nat /\ parts[i].to \in Nat /\ parts[i].to <= L
      /\ parts[i].from <= msgaddr /\ msgaddr < parts[i].to
      /\ R!PlaceOf(i) \in Nat
      /\ Len(disk[f]) = R!PlaceOf(i) + (parts[i].to - msgaddr)
  BY PlaceFacts DEF R!FromFile
<1>p. \A a \in parts[i].from .. parts[i].to - 1 :
        Proper(a) = <<f, R!PlaceOf(i) + (a - msgaddr)>>
  BY PlaceFacts DEF R!FromFile
<1>2. R!SeekTo(i, R!PlaceOf(i)) = R!PlaceOf(i)
  BY SeekRight DEF OutInv
<1>3. /\ R!Reading /\ R!Deliver(got) /\ UNCHANGED <<R!chanVars, nak>>
      /\ current' = i /\ msgfile' = TRUE
      /\ fileaddr' = R!PlaceOf(i) + Len(got) /\ seekpos' = R!PlaceOf(i) + Len(got)
      /\ UNCHANGED <<parts, outstate, ahead, obufstart, obufend, obuffer, nak>>
  BY <1>2 DEF R!FromFile, R!chanVars, R!bufVars
<1>4. R!Wanted \in Nat /\ R!Wanted > 0 /\ msgaddr \in Nat /\ L \in Nat
  BY <1>3, ReadingFacts
<1>5. /\ n \in Nat /\ n <= R!Wanted /\ msgaddr + n <= parts[i].to
      /\ R!PlaceOf(i) + n <= Len(disk[f])
  BY <1>1, <1>4, SMTT(30) DEF R!Least
<1> HIDE DEF i, n, f
<1>6. /\ got \in Seq(Byte) /\ Len(got) = n
      /\ \A j \in 1 .. n : got[j] = <<f, R!PlaceOf(i) + j - 1>>
  <2> DEFINE q == R!PlaceOf(i)
  <2>0. InPlace
    BY DEF InPlace
  <2>1. f \in {"data", "header"} /\ q \in Nat /\ n \in Nat /\ q + n <= Len(disk[f])
    BY <1>1, <1>5
  <2> HIDE DEF q
  <2>2. GetsInPlace(f, q, n)
    BY <2>0, <2>1, ReadGets
  <2>3. QED
    BY <2>2 DEF q, GetsInPlace
<1> HIDE DEF got
<1>7. ASSUME NEW j \in 1 .. n
      PROVE  got[j] = Proper(msgaddr + j - 1)
  <2>1. /\ msgaddr + j - 1 \in parts[i].from .. parts[i].to - 1
        /\ R!PlaceOf(i) + ((msgaddr + j - 1) - msgaddr) = R!PlaceOf(i) + j - 1
    <3> DEFINE from == parts[i].from
               to   == parts[i].to
               q    == R!PlaceOf(i)
    <3>1. /\ from \in Nat /\ to \in Nat /\ q \in Nat /\ msgaddr \in Nat
          /\ from <= msgaddr /\ msgaddr + n <= to /\ n \in Nat
      BY <1>1, <1>4, <1>5
    <3> HIDE DEF from, to, q
    <3>2. msgaddr + j - 1 \in from .. to - 1 /\ q + ((msgaddr + j - 1) - msgaddr) = q + j - 1
      BY <3>1
    <3>3. QED
      BY <3>2 DEF from, to, q
  <2>2. QED
    BY <2>1, <1>p, <1>6
<1>8. /\ msgaddr' \in 0 .. L' /\ eof' \in BOOLEAN
      /\ packet' \in [addr : Nat, want : Nat, data : Seq(Byte)]
      /\ IdleRight' /\ PacketRight' /\ NakRight' /\ EndRight' /\ RelayedRight'
  <2>1. Len(got) <= R!Wanted /\ msgaddr + Len(got) <= L
    BY <1>1, <1>4, <1>5, <1>6
  <2>2. QED
    BY <1>3, <1>6, <1>7, <2>1, DeliverRight
<1>9. OutTypes'
  <2>1. PICK k \in Starts : SplitAt(k)
    BY <1>3 DEF OutInv, OutTypes, R!Reading, IdleRight
  <2>2. SplitAt(k)'
    BY <2>1, <1>3 DEF SplitAt
  <2>3. R!PlaceOf(i) + Len(got) \in Nat
    BY <1>1, <1>5, <1>6
  <2>4. QED
    BY <2>2, <2>3, <1>1, <1>3, <1>8 DEF OutInv, OutTypes
<1>10. FileRight'
  BY <1>3 DEF FileRight
<1>11. BlockRight'
  BY <1>3, LengthStays, ProperStays DEF BlockRight, OutInv
<1>12. QED
  BY <1>8, <1>9, <1>10, <1>11 DEF OutInv

(* A refill takes a whole block; the addresses that would lie before the   *)
(* message wrap, and then the buffer counts as empty.                      *)
LEMMA RefillRight ==
  ASSUME OutInv, file = [x \in Addr |-> x], R!Refill
  PROVE  OutInv'
<1> DEFINE i      == R!Min(R!Sought)
           f      == parts[i].file
           to     == parts[i].to
           place  == R!PlaceOf(i)
           offset == place % FILEBUFFERSIZE
           block  == place - offset
           g      == R!Least(to - msgaddr + offset, FILEBUFFERSIZE)
           got    == R!Read(f, block, g)
           n      == R!Least(R!Wanted, g - offset)
           bytes  == [j \in 1 .. n |-> obuffer'[offset + j - 1]]
<1>1. /\ i \in {1, 2} /\ f \in {"data", "header"}
      /\ parts[i].from \in Nat /\ to \in Nat /\ to <= L
      /\ parts[i].from <= msgaddr /\ msgaddr < to
      /\ place \in Nat
      /\ parts[i].from = 0 \/ place = msgaddr - parts[i].from
      /\ Len(disk[f]) = place + (to - msgaddr)
  BY PlaceFacts DEF R!Refill
<1>p. \A a \in parts[i].from .. to - 1 : Proper(a) = <<f, place + (a - msgaddr)>>
  BY PlaceFacts DEF R!Refill
<1>2. R!SeekTo(i, block) = block
  BY SeekRight DEF OutInv
<1>3. /\ current' = i /\ msgfile' = TRUE
      /\ fileaddr' = block + Len(got) /\ seekpos' = block + Len(got)
      /\ obufstart' = (msgaddr - offset) % ULONG
      /\ obufend' = (obufstart' + Len(got)) % ULONG
      /\ obuffer' = [o \in DOMAIN obuffer |->
                       IF o < Len(got) THEN got[o + 1] ELSE obuffer[o]]
      /\ R!Deliver(R!Copied(obuffer', obufstart', obufend'))
      /\ R!Reading /\ UNCHANGED <<R!chanVars, nak>>
      /\ UNCHANGED <<parts, outstate, ahead, nak>>
  BY <1>2 DEF R!Refill, R!chanVars
<1>4. /\ R!Wanted \in Nat /\ R!Wanted > 0 /\ msgaddr \in Nat /\ L \in Nat /\ msgaddr < L
      /\ L + FILEBUFFERSIZE < ULONG
  BY <1>3, ReadingFacts, LengthIsNat DEF OutInv
<1>5. offset \in 0 .. FILEBUFFERSIZE - 1 /\ offset <= place
  BY <1>1, OffsetFacts
<1> HIDE DEF i, f, to, place, offset
<1>6. /\ g \in Nat /\ offset < g /\ g <= FILEBUFFERSIZE /\ g <= to - msgaddr + offset
      /\ block \in Nat /\ block + g <= Len(disk[f])
  BY <1>1, <1>4, <1>5 DEF R!Least
<1> HIDE DEF block, g
<1>7. /\ got \in Seq(Byte) /\ Len(got) = g
      /\ \A j \in 1 .. g : got[j] = <<f, block + j - 1>>
  <2>0. InPlace
    BY DEF InPlace
  <2>1. f \in {"data", "header"} /\ block \in Nat /\ g \in Nat /\ block + g <= Len(disk[f])
    BY <1>1, <1>6
  <2>2. GetsInPlace(f, block, g)
    BY <2>0, <2>1, ReadGets
  <2>3. QED
    BY <2>2 DEF GetsInPlace
<1> HIDE DEF got
<1>8. /\ obufstart' = IF offset <= msgaddr THEN msgaddr - offset ELSE msgaddr - offset + ULONG
      /\ obufstart' \in Nat
  <2>1. CASE offset <= msgaddr
    <3>1. msgaddr - offset \in 0 .. ULONG - 1
      BY <2>1, <1>4, <1>5
    <3>2. QED
      BY <2>1, <3>1, <1>3, ModSmall
  <2>2. CASE offset > msgaddr
    <3>1. msgaddr - offset \in Int /\ -ULONG <= msgaddr - offset /\ msgaddr - offset < 0
      BY <2>2, <1>4, <1>5
    <3>2. (msgaddr - offset) % ULONG = msgaddr - offset + ULONG
      BY <3>1, ModUnder
    <3>3. obufstart' = msgaddr - offset + ULONG
      BY <3>2, <1>3
    <3>4. QED
      BY <2>2, <3>1, <3>3, <1>4, <1>5
  <2>3. QED
    BY <2>1, <2>2, <1>4, <1>5
<1>9. obufend' = msgaddr - offset + g /\ obufend' \in Nat /\ obufend' <= to
  <2>1. obufend' = (obufstart' + g) % ULONG
    BY <1>3, <1>7
  <2>a. to \in Nat /\ to <= L /\ FILEBUFFERSIZE \in Nat
    BY <1>1
  <2>2. /\ msgaddr - offset + g \in 0 .. to
        /\ msgaddr - offset + g \in 0 .. ULONG - 1
    BY <2>a, <1>4, <1>5, <1>6
  <2>3. CASE offset <= msgaddr
    <3>1. obufstart' + g = msgaddr - offset + g
      BY <2>3, <1>8
    <3>2. obufend' = msgaddr - offset + g
      BY <2>1, <2>2, <3>1, ModSmall
    <3>3. QED
      BY <2>2, <3>2
  <2>4. CASE offset > msgaddr
    <3>1. /\ obufstart' + g = (msgaddr - offset + g) + ULONG
          /\ ULONG <= obufstart' + g /\ obufstart' + g < ULONG + ULONG
      BY <2>2, <2>4, <1>4, <1>5, <1>6, <1>8
    <3>2. obufend' = (obufstart' + g) - ULONG
      BY <2>1, <3>1, <1>6, <1>8, ModOver
    <3>3. QED
      BY <3>1, <3>2, <2>2, <1>4, <1>5, <1>6
  <2>5. QED
    BY <2>3, <2>4, <1>4, <1>5
<1>10. /\ (msgaddr - obufstart') % ULONG = offset
       /\ (obufend' - msgaddr) % ULONG = g - offset
  <2>1. (obufend' - msgaddr) % ULONG = g - offset
    <3>1. obufend' - msgaddr = g - offset /\ g - offset \in 0 .. ULONG - 1
      BY <1>4, <1>5, <1>6, <1>9
    <3>2. QED
      BY <3>1, ModSmall
  <2>2. CASE offset <= msgaddr
    <3>1. msgaddr - obufstart' = offset /\ offset \in 0 .. ULONG - 1
      BY <2>2, <1>4, <1>5, <1>8
    <3>2. QED
      BY <2>1, <3>1, ModSmall
  <2>3. CASE offset > msgaddr
    <3>1. /\ msgaddr - obufstart' = offset - ULONG /\ offset - ULONG \in Int
          /\ -ULONG <= offset - ULONG /\ offset - ULONG < 0
      BY <2>3, <1>4, <1>5, <1>8
    <3>2. (offset - ULONG) % ULONG = (offset - ULONG) + ULONG
      BY <3>1, ModUnder
    <3>3. QED
      BY <2>1, <3>1, <3>2, <1>5
  <2>4. QED
    BY <2>2, <2>3, <1>4, <1>5
<1>11. R!Copied(obuffer', obufstart', obufend') = bytes
  BY <1>10 DEF R!Copied
<1>12. /\ obuffer' \in [Slot -> Byte \cup {R!NoByte}]
       /\ \A o \in 0 .. g - 1 : obuffer'[o] = <<f, block + o>>
  <2>1. obuffer' = [o \in Slot |-> IF o < g THEN got[o + 1] ELSE obuffer[o]]
    BY <1>3, <1>7 DEF OutInv, OutTypes
  <2>2. ASSUME NEW o \in 0 .. g - 1
        PROVE  o \in Slot /\ obuffer'[o] = <<f, block + o>> /\ got[o + 1] \in Byte
    <3>1. o \in Slot /\ o < g /\ o + 1 \in 1 .. g /\ block + (o + 1) - 1 = block + o
      BY <1>6 DEF Slot
    <3>2. obuffer'[o] = got[o + 1]
      BY <2>1, <3>1
    <3>3. got[o + 1] = <<f, block + o>>
      BY <3>1, <1>7
    <3>4. got[o + 1] \in Byte
      BY <3>1, <1>7, ElementOfSeq
    <3>5. QED
      BY <3>1, <3>2, <3>3, <3>4
  <2>3. ASSUME NEW o \in Slot
        PROVE  obuffer'[o] \in Byte \cup {R!NoByte}
    <3>1. CASE o < g
      <4>1. o \in 0 .. g - 1
        BY <3>1, <1>6 DEF Slot
      <4>2. QED
        BY <2>1, <2>2, <4>1, <3>1
    <3>2. CASE ~(o < g)
      BY <2>1, <3>2 DEF OutInv, OutTypes
    <3>3. QED
      BY <3>1, <3>2
  <2>4. QED
    BY <2>1, <2>2, <2>3
<1>13. /\ n \in Nat /\ n <= R!Wanted /\ n <= g - offset /\ msgaddr + n <= L
  BY <1>1, <1>4, <1>5, <1>6 DEF R!Least
<1> HIDE DEF n
<1>14. ASSUME NEW j \in 1 .. n
       PROVE  bytes[j] = Proper(msgaddr + j - 1) /\ bytes[j] \in Byte
  <2>1. /\ offset + j - 1 \in 0 .. g - 1
        /\ msgaddr + j - 1 \in parts[i].from .. to - 1
        /\ block + (offset + j - 1) = place + ((msgaddr + j - 1) - msgaddr)
        /\ place + ((msgaddr + j - 1) - msgaddr) \in Nat
    BY <1>1, <1>4, <1>5, <1>6, <1>13 DEF block
  <2>2. bytes[j] = <<f, place + ((msgaddr + j - 1) - msgaddr)>>
    BY <2>1, <1>12
  <2>3. <<f, place + ((msgaddr + j - 1) - msgaddr)>> \in Byte
    BY <2>1, <1>1 DEF Byte
  <2>4. QED
    BY <2>1, <2>2, <2>3, <1>p
<1>15. bytes \in Seq(Byte) /\ Len(bytes) = n
  BY <1>13, <1>14
<1> HIDE DEF bytes
<1>16. /\ msgaddr' \in 0 .. L' /\ eof' \in BOOLEAN
       /\ packet' \in [addr : Nat, want : Nat, data : Seq(Byte)]
       /\ IdleRight' /\ PacketRight' /\ NakRight' /\ EndRight' /\ RelayedRight'
  <2>1. R!Deliver(bytes)
    BY <1>3, <1>11
  <2>2. QED
    BY <2>1, <1>3, <1>13, <1>14, <1>15, DeliverRight
<1>17. OutTypes'
  <2>1. PICK k \in Starts : SplitAt(k)
    BY <1>3 DEF OutInv, OutTypes, R!Reading, IdleRight
  <2>2. SplitAt(k)'
    BY <2>1, <1>3 DEF SplitAt
  <2>3. block + Len(got) \in Nat
    BY <1>6, <1>7
  <2>4. QED
    BY <2>2, <2>3, <1>1, <1>3, <1>8, <1>9, <1>12, <1>16 DEF OutInv, OutTypes
<1>18. FileRight'
  BY <1>3 DEF FileRight
<1>19. BlockRight'
  <2> SUFFICES ASSUME NEW a \in obufstart' .. obufend' - 1
               PROVE  a < L /\ a - obufstart' < FILEBUFFERSIZE
                      /\ obuffer'[a - obufstart'] = Proper(a)
    BY <1>3, LengthStays, ProperStays DEF BlockRight
  <2>a. obufend' <= L /\ obufstart' < obufend'
    BY <1>1, <1>4, <1>8, <1>9, SMTT(30)
  <2>1. offset <= msgaddr /\ obufstart' = msgaddr - offset
    BY <2>a, <1>4, <1>5, <1>8, <1>9
  <2>2. /\ a \in parts[i].from .. to - 1 /\ a < L /\ a - obufstart' < FILEBUFFERSIZE
        /\ a - obufstart' \in 0 .. g - 1
        /\ block + (a - obufstart') = place + (a - msgaddr)
    BY <2>1, <1>1, <1>4, <1>5, <1>6, <1>9 DEF block
  <2>3. QED
    BY <2>2, <1>12, <1>p
<1>20. QED
  BY <1>16, <1>17, <1>18, <1>19 DEF OutInv

-----------------------------------------------------------------------------
(* getcommand makes the two parts of what the router handed on.            *)
LEMMA PartsOfOutgoing ==
  ASSUME NEW c \in Outgoing
  PROVE  \E k \in Starts : R!PartsOf(c) = <<DataPart(k), HeaderPart(k)>>
<1>1. PICK k \in Starts : c = << [file |-> "data", start |-> k, len |-> MsgSize - k],
                                 [file |-> "header", start |-> 0, len |-> HdrSize] >>
  BY DEF Outgoing
<1> DEFINE sum  == [i \in 0 .. 2 |-> IF i = 0 THEN 0 ELSE
                                     IF i = 1 THEN MsgSize - k ELSE MsgSize - k + HdrSize]
           upto == CHOOSE u : u = [i \in 0 .. Len(c) |->
                                     IF i = 0 THEN 0 ELSE u[i - 1] + c[i].len]
<1>2. Len(c) = 2 /\ DOMAIN c = {1, 2} /\ c[1].len = MsgSize - k /\ c[2].len = HdrSize
      /\ c[1].file = "data" /\ c[2].file = "header" /\ c[1].start = k /\ c[2].start = 0
  BY <1>1
<1>3. k \in Nat /\ MsgSize - k \in Nat
  BY DEF Addr
<1>4. sum = [i \in 0 .. Len(c) |-> IF i = 0 THEN 0 ELSE sum[i - 1] + c[i].len]
  <2> SUFFICES ASSUME NEW i \in 0 .. 2
               PROVE  sum[i] = IF i = 0 THEN 0 ELSE sum[i - 1] + c[i].len
    BY <1>2
  <2>1. i = 0 \/ i = 1 \/ i = 2
    OBVIOUS
  <2>2. QED
    BY <2>1, <1>2, <1>3
<1> HIDE DEF sum
<1>5. upto = [i \in 0 .. Len(c) |-> IF i = 0 THEN 0 ELSE upto[i - 1] + c[i].len]
  BY <1>4
<1>6. R!PartsOf(c) = [i \in DOMAIN c |->
         [file |-> c[i].file, start |-> c[i].start, from |-> upto[i - 1], to |-> upto[i]]]
  BY DEF R!PartsOf
<1> HIDE DEF upto
<1>7. upto[0] = 0 /\ upto[1] = MsgSize - k /\ upto[2] = MsgSize - k + HdrSize
  <2>1. upto[0] = 0
    BY <1>2, <1>5
  <2>2. upto[1] = upto[0] + c[1].len
    BY <1>2, <1>5
  <2>3. upto[2] = upto[1] + c[2].len
    BY <1>2, <1>5
  <2>4. QED
    BY <2>1, <2>2, <2>3, <1>2, <1>3
<1>8. QED
  BY <1>2, <1>6, <1>7 DEF DataPart, HeaderPart

(* The values for no packet and no NAK are of their types.                 *)
LEMMA NothingInHand ==
  /\ R!NoPacket \in [addr : Nat, want : Nat, data : Seq(Byte)]
  /\ R!NoNAK \in [end : Nat, addr : Nat, eof : BOOLEAN]
  /\ DOMAIN R!NoPacket.data = {}
BY EmptySeq DEF R!NoPacket, R!NoNAK

(* Another message begins at its first byte, with an empty buffer.         *)
LEMMA SetActiveRight ==
  ASSUME OutInv, NEW c \in Outgoing, R!SetActive(c)
  PROVE  OutInv'
<1>1. PICK k \in Starts : SplitAt(k)'
  BY PartsOfOutgoing DEF R!SetActive, SplitAt
<1>2. /\ L' = MsgSize - k + HdrSize /\ L' \in Nat /\ L' > 0 /\ parts' # <<>>
  <2>1. /\ MsgSize - k > 0 /\ k \in Nat
    BY DEF Addr
  <2>2. Len(parts') = 2 /\ parts'[2] = HeaderPart(k) /\ parts' # <<>>
    BY <1>1 DEF SplitAt
  <2>3. L' = MsgSize - k + HdrSize
    BY <2>2 DEF L, R!MesgLength, HeaderPart
  <2>4. QED
    BY <2>1, <2>2, <2>3
<1>3. /\ outstate' = "STARTING" /\ ahead' = TRUE /\ eof' = FALSE
      /\ current' = 1 /\ msgfile' = FALSE /\ fileaddr' = 0 /\ seekpos' = 0 /\ msgaddr' = 0
      /\ packet' = R!NoPacket /\ nak' = R!NoNAK
      /\ obufstart' = 0 /\ obufend' = 0 /\ obuffer' = obuffer
  BY DEF R!SetActive, R!Begin
<1>4. OutTypes'
  <2>1. SplitAt(k)' /\ msgaddr' \in 0 .. L'
    BY <1>1, <1>2, <1>3
  <2>2. QED
    BY <2>1, <1>3, NothingInHand DEF OutInv, OutTypes
<1>5. IdleRight' /\ FileRight' /\ PacketRight' /\ NakRight' /\ RelayedRight'
  BY <1>2, <1>3 DEF IdleRight, FileRight, PacketRight, NakRight, RelayedRight, R!NoPacket
<1>6. BlockRight' /\ EndRight'
  BY <1>2, <1>3 DEF BlockRight, EndRight, SavedAddr, SavedEOF
<1>7. QED
  BY <1>4, <1>5, <1>6 DEF OutInv

(* A step that keeps the parts, the open file and the buffer need only     *)
(* account for the message address, the state, the packet and the NAK.     *)
LEMMA ChannelStep ==
  ASSUME OutInv, UNCHANGED <<parts, current, msgfile, fileaddr, seekpos,
                             obufstart, obufend, obuffer>>,
         outstate' \in {"IDLE", "STARTING", "ACTIVE", "ENDING"},
         ahead' \in BOOLEAN, eof' \in BOOLEAN, msgaddr' \in 0 .. L,
         packet' \in [addr : Nat, want : Nat, data : Seq(Byte)],
         nak' \in [end : Nat, addr : Nat, eof : BOOLEAN]
  PROVE  OutTypes' /\ FileRight' /\ BlockRight' /\ L' = L
<1>1. L' = L /\ (\A a : Proper(a)' = Proper(a))
  BY LengthStays, ProperStays
<1>2. OutTypes'
  BY <1>1 DEF OutInv, OutTypes, SplitAt
<1>3. FileRight' /\ BlockRight'
  BY <1>1 DEF OutInv, FileRight, BlockRight
<1>4. QED
  BY <1>1, <1>2, <1>3

(* An empty packet in which to collect n bytes from the message address.   *)
LEMMA EmptyPacket ==
  ASSUME NEW a \in Nat, NEW n \in Nat \ {0}
  PROVE  LET p == [addr |-> a, want |-> n, data |-> <<>>]
         IN  /\ p \in [addr : Nat, want : Nat, data : Seq(Byte)] /\ p # R!NoPacket
             /\ p.addr = a /\ p.want = n /\ Len(p.data) = 0 /\ DOMAIN p.data = {}
BY EmptySeq DEF R!NoPacket

(* A new daemon begins again anywhere in the message, with nothing in hand.*)
LEMMA ResumeRight ==
  ASSUME OutInv, NEW a \in 0 .. L, R!Resume(a)
  PROVE  OutInv'
<1>1. /\ outstate # "IDLE" /\ parts # <<>> /\ parts' = parts /\ L \in Nat /\ L > 0
  <2>1. parts # <<>> /\ outstate # "IDLE" /\ parts' = parts
    BY DEF R!Resume, OutInv, IdleRight
  <2>2. PICK k \in Starts : SplitAt(k)
    BY <2>1 DEF OutInv, OutTypes
  <2>3. QED
    BY <2>1, <2>2, PartFacts
<1>2. /\ outstate' = "STARTING" /\ ahead' = (a = 0) /\ eof' = FALSE
      /\ current' = 1 /\ msgfile' = FALSE /\ fileaddr' = 0 /\ seekpos' = 0 /\ msgaddr' = a
      /\ packet' = R!NoPacket /\ nak' = R!NoNAK
      /\ obufstart' = 0 /\ obufend' = 0 /\ obuffer' = [i \in Slot |-> R!NoByte]
  BY DEF R!Resume, R!Begin, Slot
<1>3. L' = L
  BY <1>1, LengthStays
<1>4. OutTypes'
  <2>1. PICK k \in Starts : SplitAt(k)
    BY <1>1 DEF OutInv, OutTypes
  <2>2. SplitAt(k)'
    BY <2>1, <1>1 DEF SplitAt
  <2>3. QED
    BY <2>2, <1>1, <1>2, <1>3, NothingInHand DEF OutTypes
<1>5. IdleRight' /\ FileRight' /\ PacketRight' /\ NakRight' /\ RelayedRight'
  BY <1>1, <1>2 DEF IdleRight, FileRight, PacketRight, NakRight, RelayedRight, R!NoPacket
<1>6. BlockRight'
  BY <1>2 DEF BlockRight
<1>7. EndRight'
  <2>1. CASE a = 0
    BY <2>1, <1>1, <1>2, <1>3 DEF EndRight, SavedAddr, SavedEOF
  <2>2. CASE a # 0
    <3>1. outstate' = "STARTING" /\ ahead' = FALSE /\ eof' = FALSE /\ nak' = R!NoNAK
      BY <2>2, <1>2
    <3>2. QED
      BY <3>1 DEF EndRight, SavedAddr, SavedEOF
  <2>3. QED
    BY <2>1, <2>2
<1>8. QED
  BY <1>4, <1>5, <1>6, <1>7 DEF OutInv

(* A message given up or acknowledged leaves an idle channel.              *)
LEMMA DoneRight ==
  ASSUME OutInv, R!Done
  PROVE  OutInv'
<1>1. /\ outstate' = "IDLE" /\ ahead' = FALSE /\ eof' = FALSE
      /\ current' = 1 /\ msgfile' = FALSE /\ fileaddr' = 0 /\ seekpos' = 0 /\ msgaddr' = 0
      /\ packet' = R!NoPacket /\ nak' = R!NoNAK
      /\ UNCHANGED <<parts, obufstart, obufend, obuffer>>
  BY DEF R!Done, R!bufVars
<1>2. L' = L /\ L \in Nat /\ (\A a : Proper(a)' = Proper(a))
  BY <1>1, LengthStays, LengthIsNat, ProperStays DEF OutInv
<1>3. OutTypes'
  <2>1. parts' = <<>> \/ \E k \in Starts : SplitAt(k)'
    BY <1>1 DEF OutInv, OutTypes, SplitAt
  <2>2. msgaddr' \in 0 .. L'
    BY <1>1, <1>2
  <2>3. QED
    BY <2>1, <2>2, <1>1, NothingInHand DEF OutInv, OutTypes
<1>4. IdleRight' /\ FileRight' /\ PacketRight' /\ NakRight' /\ RelayedRight'
  BY <1>1 DEF IdleRight, FileRight, PacketRight, NakRight, RelayedRight, R!NoPacket
<1>5. BlockRight' /\ EndRight'
  BY <1>1, <1>2 DEF OutInv, BlockRight, EndRight, SavedAddr, SavedEOF
<1>6. QED
  BY <1>3, <1>4, <1>5 DEF OutInv

-----------------------------------------------------------------------------
(* WriteChan asks for a packet only below the end of the message.          *)
LEMMA WriteChanRight ==
  ASSUME OutInv, NEW n \in 1 .. MaxOut, R!WriteChan(n)
  PROVE  OutInv'
<1>1. /\ outstate # "IDLE" /\ ~eof /\ nak = R!NoNAK /\ nak' = nak
      /\ outstate = "ACTIVE" \/ (outstate = "STARTING" /\ ahead)
      /\ packet' = [addr |-> msgaddr', want |-> n, data |-> <<>>]
      /\ UNCHANGED <<outstate, ahead, parts, obufstart, obufend, obuffer,
                     current, msgfile, fileaddr, seekpos, msgaddr, eof>>
  BY DEF R!WriteChan, R!Free, R!SendData, R!chanVars, R!bufVars, R!openVars
<1>2. msgaddr \in 0 .. L - 1 /\ L \in Nat
  BY <1>1, LengthIsNat DEF OutInv, OutTypes, EndRight, SavedAddr, SavedEOF
<1>3. /\ packet' \in [addr : Nat, want : Nat, data : Seq(Byte)] /\ packet' # R!NoPacket
      /\ packet'.addr = msgaddr /\ packet'.want = n /\ Len(packet'.data) = 0
      /\ DOMAIN packet'.data = {}
  <2>1. msgaddr \in Nat /\ n \in Nat \ {0} /\ msgaddr' = msgaddr
    BY <1>1, <1>2
  <2>2. QED
    BY <1>1, <2>1, EmptyPacket
<1>4. /\ outstate' \in {"IDLE", "STARTING", "ACTIVE", "ENDING"}
      /\ ahead' \in BOOLEAN /\ eof' \in BOOLEAN /\ msgaddr' \in 0 .. L
      /\ nak' \in [end : Nat, addr : Nat, eof : BOOLEAN]
  BY <1>1 DEF OutInv, OutTypes
<1>5. OutTypes' /\ FileRight' /\ BlockRight' /\ L' = L
  BY <1>1, <1>3, <1>4, ChannelStep
<1>6. IdleRight' /\ NakRight'
  BY <1>1, <1>3 DEF OutInv, IdleRight, NakRight
<1>7. PacketRight'
  BY <1>1, <1>2, <1>3, <1>5 DEF PacketRight
<1>8. RelayedRight'
  BY <1>3 DEF RelayedRight
<1>9. EndRight'
  BY <1>1, <1>5 DEF OutInv, EndRight, SavedAddr, SavedEOF
<1>10. QED
  BY <1>5, <1>6, <1>7, <1>8, <1>9 DEF OutInv

(* The answer to a NAK begins below the end, and the place where the       *)
(* message goes on afterwards is kept with its flag.                       *)
LEMMA RecvNAKRight ==
  ASSUME OutInv, NEW a \in 0 .. L - 1, NEW len \in 1 .. L - a, NEW n \in 1 .. MaxOut,
         R!RecvNAK(a, len, n)
  PROVE  OutInv'
<1> DEFINE want == R!Least(n, len)
<1>0. L \in Nat /\ msgaddr \in 0 .. L /\ eof \in BOOLEAN
  BY LengthIsNat DEF OutInv, OutTypes
<1>1. /\ outstate # "IDLE" /\ nak = R!NoNAK /\ a + len <= L
      /\ nak' = [end |-> a + len, addr |-> msgaddr, eof |-> eof]
      /\ msgaddr' = a /\ eof' = FALSE
      /\ packet' = [addr |-> msgaddr', want |-> want, data |-> <<>>]
      /\ UNCHANGED <<outstate, ahead, parts, obufstart, obufend, obuffer,
                     current, msgfile, fileaddr, seekpos>>
  BY DEF R!RecvNAK, R!Free, R!SendData, R!chanVars, R!bufVars, R!openVars, L
<1>2. want \in Nat \ {0}
  BY <1>0 DEF R!Least
<1> HIDE DEF want
<1>3. /\ packet' \in [addr : Nat, want : Nat, data : Seq(Byte)] /\ packet' # R!NoPacket
      /\ packet'.addr = a /\ packet'.want = want /\ Len(packet'.data) = 0
      /\ DOMAIN packet'.data = {}
  BY <1>0, <1>1, <1>2, EmptyPacket
<1>4. /\ nak' \in [end : Nat, addr : Nat, eof : BOOLEAN]
      /\ nak'.end \in 1 .. L /\ nak'.addr = msgaddr /\ nak'.eof = eof /\ nak' # R!NoNAK
  BY <1>0, <1>1 DEF R!NoNAK
<1>5. /\ outstate' \in {"IDLE", "STARTING", "ACTIVE", "ENDING"}
      /\ ahead' \in BOOLEAN /\ eof' \in BOOLEAN /\ msgaddr' \in 0 .. L
  <2>1. msgaddr' \in 0 .. L
    BY <1>0, <1>1
  <2>2. QED
    BY <2>1, <1>1 DEF OutInv, OutTypes
<1>6. OutTypes' /\ FileRight' /\ BlockRight' /\ L' = L
  BY <1>1, <1>3, <1>4, <1>5, ChannelStep
<1>7. IdleRight' /\ NakRight'
  BY <1>0, <1>1, <1>3, <1>4, <1>6 DEF OutInv, IdleRight, NakRight
<1>8. PacketRight'
  BY <1>0, <1>1, <1>2, <1>3, <1>6 DEF PacketRight
<1>9. RelayedRight'
  BY <1>3 DEF RelayedRight
<1>10. EndRight'
  BY <1>1, <1>4, <1>6 DEF OutInv, EndRight, SavedAddr, SavedEOF
<1>11. QED
  BY <1>6, <1>7, <1>8, <1>9, <1>10 DEF OutInv

(* A packet is written when it is full or the message at its end: either   *)
(* the gap goes on, below that end, or the saved place comes back.         *)
LEMMA WritePacketRight ==
  ASSUME OutInv, R!WritePacket
  PROVE  OutInv'
<1>0. /\ L \in Nat /\ msgaddr \in 0 .. L /\ eof \in BOOLEAN /\ packet # R!NoPacket
      /\ packet.want \in Nat \ {0} /\ outstate # "IDLE"
      /\ nak \in [end : Nat, addr : Nat, eof : BOOLEAN]
      /\ UNCHANGED <<outstate, ahead, parts, obufstart, obufend, obuffer,
                     current, msgfile, fileaddr, seekpos>>
  BY LengthIsNat DEF OutInv, OutTypes, PacketRight, IdleRight,
     R!WritePacket, R!chanVars, R!bufVars, R!openVars
<1>1. /\ outstate' \in {"IDLE", "STARTING", "ACTIVE", "ENDING"} /\ ahead' \in BOOLEAN
  BY <1>0 DEF OutInv, OutTypes
<1>2. CASE nak # R!NoNAK /\ msgaddr < nak.end
  <2>1. /\ msgaddr' = msgaddr /\ eof' = eof /\ nak' = nak
        /\ packet' = [addr |-> msgaddr', want |-> packet.want, data |-> <<>>]
    BY <1>2 DEF R!WritePacket, R!SendData
  <2>2. /\ packet' \in [addr : Nat, want : Nat, data : Seq(Byte)] /\ packet' # R!NoPacket
        /\ packet'.addr = msgaddr /\ packet'.want = packet.want /\ Len(packet'.data) = 0
        /\ DOMAIN packet'.data = {}
    BY <1>0, <2>1, EmptyPacket
  <2>3. OutTypes' /\ FileRight' /\ BlockRight' /\ L' = L
    BY <1>0, <1>1, <2>1, <2>2, ChannelStep
  <2>4. msgaddr < L
    BY <1>0, <1>2 DEF OutInv, NakRight
  <2>5. PacketRight'
    <3>1. eof <=> msgaddr = L
      BY <1>0 DEF OutInv, PacketRight
    <3>2. QED
      BY <1>0, <2>1, <2>2, <2>3, <2>4, <3>1 DEF PacketRight
  <2>6. IdleRight' /\ NakRight' /\ RelayedRight' /\ EndRight'
    BY <1>0, <2>1, <2>2, <2>3 DEF OutInv, IdleRight, NakRight, RelayedRight,
       EndRight, SavedAddr, SavedEOF
  <2>7. QED
    BY <2>3, <2>5, <2>6 DEF OutInv
<1>3. CASE ~(nak # R!NoNAK /\ msgaddr < nak.end)
  <2>1. /\ packet' = R!NoPacket /\ nak' = R!NoNAK
        /\ msgaddr' = SavedAddr /\ eof' = SavedEOF
    BY <1>3 DEF R!WritePacket, R!SavedEof, SavedAddr, SavedEOF
  <2>2. SavedAddr \in 0 .. L /\ SavedEOF \in BOOLEAN
    BY <1>0 DEF OutInv, NakRight, SavedAddr, SavedEOF
  <2>3. OutTypes' /\ FileRight' /\ BlockRight' /\ L' = L
    BY <1>0, <1>1, <2>1, <2>2, NothingInHand, ChannelStep
  <2>4. IdleRight' /\ NakRight' /\ PacketRight' /\ RelayedRight'
    BY <1>0, <2>1, NothingInHand
       DEF OutInv, IdleRight, NakRight, PacketRight, RelayedRight
  <2>5. SavedAddr' = SavedAddr /\ SavedEOF' = SavedEOF
    BY <2>1 DEF SavedAddr, SavedEOF
  <2>6. EndRight'
    BY <1>0, <2>3, <2>5 DEF OutInv, EndRight
  <2>7. QED
    BY <2>3, <2>4, <2>6 DEF OutInv
<1>4. QED
  BY <1>2, <1>3

(* The handlers that leave the packet and the NAK alone.                   *)
LEMMA HandlerRight ==
  ASSUME OutInv,
         \/ R!StopAhead \/ R!FirstEOM \/ R!RecvNAKAll
         \/ \E a \in 0 .. L : R!RecvSOMA(a)
  PROVE  OutInv'
<1>0. /\ packet = R!NoPacket /\ nak = R!NoNAK /\ outstate # "IDLE" /\ parts # <<>>
      /\ UNCHANGED <<parts, obufstart, obufend, obuffer, current, msgfile, fileaddr,
                     seekpos, packet, nak>>
  BY DEF R!StopAhead, R!FirstEOM, R!RecvNAKAll, R!RecvSOMA, R!Free, R!chanVars,
     R!bufVars, R!openVars, OutInv, IdleRight
<1>1. L \in Nat /\ L > 0 /\ msgaddr \in 0 .. L
  <2>1. PICK k \in Starts : SplitAt(k)
    BY <1>0 DEF OutInv, OutTypes
  <2>2. QED
    BY <2>1, PartFacts, SMTT(30) DEF OutInv, OutTypes
<1>2. /\ outstate' \in {"STARTING", "ACTIVE", "ENDING"}
      /\ ahead' \in BOOLEAN /\ eof' \in BOOLEAN /\ msgaddr' \in 0 .. L
      /\ eof' \/ outstate' = "ENDING" => msgaddr' = L
      /\ ~eof' /\ (outstate' = "ACTIVE" \/ (outstate' = "STARTING" /\ ahead')) => msgaddr' < L
  <2> USE <1>0, <1>1 DEF OutInv, OutTypes, EndRight, SavedAddr, SavedEOF
  <2>1. CASE R!StopAhead
    BY <2>1 DEF R!StopAhead
  <2>2. CASE R!FirstEOM
    BY <2>2 DEF R!FirstEOM
  <2>3. CASE R!RecvNAKAll
    <3>1. msgaddr' = 0 /\ outstate' = "ACTIVE" /\ eof' = FALSE /\ ahead' = ahead
      BY <2>3 DEF R!RecvNAKAll
    <3>2. msgaddr' \in 0 .. L /\ msgaddr' < L
      BY <3>1
    <3>3. ahead' \in BOOLEAN /\ eof' \in BOOLEAN
      BY <3>1
    <3>4. ~(eof' \/ outstate' = "ENDING")
      BY <3>1
    <3>5. QED
      BY <3>1, <3>2, <3>3, <3>4
  <2>4. ASSUME NEW a \in 0 .. L, R!RecvSOMA(a)
        PROVE  /\ outstate' \in {"STARTING", "ACTIVE", "ENDING"}
               /\ ahead' \in BOOLEAN /\ eof' \in BOOLEAN /\ msgaddr' \in 0 .. L
               /\ eof' \/ outstate' = "ENDING" => msgaddr' = L
               /\ ~eof' /\ (outstate' = "ACTIVE" \/ (outstate' = "STARTING" /\ ahead'))
                    => msgaddr' < L
    <3>1. msgaddr' \in 0 .. L /\ ahead' = ahead
      BY <2>4 DEF R!RecvSOMA
    <3>2. CASE msgaddr' < L
      BY <2>4, <3>1, <3>2 DEF R!RecvSOMA, L
    <3>3. CASE msgaddr' = L
      <4>1. outstate' = "ENDING" /\ eof' = eof
        BY <2>4, <3>1, <3>3 DEF R!RecvSOMA, L
      <4>2. QED
        BY <4>1, <3>1, <3>3
    <3>4. QED
      BY <3>1, <3>2, <3>3
  <2>5. QED
    BY <2>1, <2>2, <2>3, <2>4
<1>3. OutTypes' /\ FileRight' /\ BlockRight' /\ L' = L
  BY <1>0, <1>2, NothingInHand, ChannelStep
<1>4. IdleRight' /\ NakRight' /\ PacketRight' /\ RelayedRight'
  BY <1>0, <1>2, NothingInHand
     DEF OutInv, IdleRight, NakRight, PacketRight, RelayedRight
<1>5. EndRight'
  BY <1>0, <1>2, <1>3 DEF EndRight, SavedAddr, SavedEOF
<1>6. QED
  BY <1>3, <1>4, <1>5 DEF OutInv

-----------------------------------------------------------------------------
(* Every step of the transmitter keeps what the reading side relies on.    *)
LEMMA TransmitRight ==
  ASSUME OutInv, file = [x \in Addr |-> x], R!ReadNext
  PROVE  OutInv'
<1>1. R!MesgLength = L
  BY DEF L
<1>2. ASSUME NEW c \in Outgoing, R!SetActive(c) PROVE OutInv'
  BY <1>2, SetActiveRight
<1>3. ASSUME NEW a \in 0 .. L, R!Resume(a) \/ R!RecvSOMA(a) PROVE OutInv'
  BY <1>3, ResumeRight, HandlerRight
<1>4. ASSUME NEW n \in 1 .. MaxOut, R!WriteChan(n) PROVE OutInv'
  BY <1>4, WriteChanRight
<1>5. CASE R!FromBuffer \/ R!FromFile \/ R!Refill \/ R!WritePacket
  BY <1>5, FromBufferRight, FromFileRight, RefillRight, WritePacketRight
<1>6. CASE R!IOError \/ R!RecvEOMA
  BY <1>6, DoneRight DEF R!IOError, R!RecvEOMA
<1>7. CASE R!StopAhead \/ R!FirstEOM \/ R!RecvNAKAll
  BY <1>7, HandlerRight
<1>8. ASSUME NEW a \in 0 .. L - 1, NEW len \in 1 .. L - a, NEW n \in 1 .. MaxOut,
             R!RecvNAK(a, len, n)
      PROVE  OutInv'
  BY <1>8, RecvNAKRight
<1>9. QED
  BY <1>1, <1>2, <1>3, <1>4, <1>5, <1>6, <1>7, <1>8 DEF R!ReadNext

(* Nothing is sent before the message is handed on.                        *)
LEMMA RelayInitRight == RelayInit => RelayInv
<1> SUFFICES ASSUME RelayInit PROVE RelayInv
  OBVIOUS
<1>1. IInv
  BY InitInv DEF RelayInit
<1>2. /\ parts = <<>> /\ current = 1 /\ msgfile = FALSE /\ fileaddr = 0 /\ seekpos = 0
      /\ msgaddr = 0 /\ obufstart = 0 /\ obufend = 0 /\ obuffer = [i \in Slot |-> R!NoByte]
      /\ outstate = "IDLE" /\ ahead = FALSE /\ eof = FALSE
      /\ packet = R!NoPacket /\ nak = R!NoNAK /\ phase = "in"
  BY DEF RelayInit, R!ReadInit, Slot
<1>3. L = 0
  BY <1>2 DEF L, R!MesgLength
<1>4. OutTypes
  <2>1. obuffer \in [Slot -> Byte \cup {R!NoByte}] /\ msgaddr \in 0 .. L
    BY <1>2, <1>3
  <2>2. packet \in [addr : Nat, want : Nat, data : Seq(Byte)]
        /\ nak \in [end : Nat, addr : Nat, eof : BOOLEAN]
    BY <1>2, NothingInHand
  <2>3. QED
    BY <1>2, <2>1, <2>2 DEF OutTypes
<1>5. IdleRight /\ FileRight /\ NakRight /\ PacketRight /\ RelayedRight
  BY <1>2, NothingInHand DEF IdleRight, FileRight, NakRight, PacketRight, RelayedRight
<1>6. BlockRight /\ EndRight
  BY <1>2, <1>3 DEF BlockRight, EndRight, SavedAddr, SavedEOF
<1>7. QED
  BY <1>1, <1>2, <1>4, <1>5, <1>6 DEF RelayInv, OutInv

(* The sending side is not touched while the message arrives.              *)
LEMMA OutStays ==
  ASSUME OutInv, UNCHANGED outVars
  PROVE  OutInv'
<1>1. UNCHANGED <<parts, current, msgfile, fileaddr, seekpos, msgaddr, obufstart, obufend,
                  obuffer, outstate, ahead, eof, packet, nak>>
  BY DEF outVars
<1>2. L' = L /\ (\A a : Proper(a)' = Proper(a))
  BY <1>1, LengthStays, ProperStays
<1>3. OutTypes' /\ IdleRight' /\ FileRight' /\ BlockRight'
  BY <1>1, <1>2 DEF OutInv, OutTypes, SplitAt, IdleRight, FileRight, BlockRight
<1>4. PacketRight' /\ NakRight' /\ EndRight' /\ RelayedRight'
  BY <1>1, <1>2 DEF OutInv, PacketRight, NakRight, EndRight, SavedAddr, SavedEOF, RelayedRight
<1>5. QED
  BY <1>3, <1>4 DEF OutInv

(* The message handed on is whole: the last flush puts what is still in    *)
(* the buffer where it belongs, and everything else is in the file.        *)
LEMMA HandOnRight ==
  ASSUME IInv, HandOn
  PROVE  IInv' /\ file' = [x \in Addr |-> x]
<1>1. /\ pc = "idle" /\ written = Addr
      /\ file' = Flushed(file, pos, databuffer, bufend - bufstart)
      /\ pos' = 0 /\ bufstart' = 0 /\ bufend' = 0
      /\ databuffer' = [i \in Slot |-> Hole]
      /\ UNCHANGED <<pc, addr, size, data, written>>
  BY DEF HandOn, callVars
<1>2. pos = bufstart /\ bufstart \in Nat /\ bufend \in Nat /\ bufstart <= bufend /\ size = 0
  BY <1>1 DEF IInv, TypeOK, WritePoint, InStep
<1>3. ASSUME NEW x \in Addr
      PROVE  file'[x] = x
  <2>1. ImageAt(x) = x
    BY <1>1, <1>2 DEF IInv, TypeOK, NothingLost, Stored, Pending
  <2>2. file'[x] = IF bufstart <= x /\ x < bufend THEN databuffer[x - bufstart] ELSE file[x]
    BY <1>1, <1>2 DEF Flushed, Addr
  <2>3. QED
    BY <2>1, <2>2 DEF ImageAt, InBuffer
<1>4. file' = [x \in Addr |-> x]
  BY <1>1, <1>3 DEF Flushed
<1>5. TypeOK'
  BY <1>1, <1>2, <1>4 DEF IInv, TypeOK, Addr, Hole
<1>6. WritePoint' /\ NothingMisplaced'
  BY <1>1, <1>4 DEF WritePoint, NothingMisplaced
<1>b. BufferRight'
  BY <1>1 DEF BufferRight, InBuffer, Addr
<1>s. InStep'
  BY <1>1 DEF IInv, InStep
<1>7. BufferFits'
  BY <1>1, BlockEndBeyond DEF BufferFits
<1>8. NothingLost'
  BY <1>1, <1>4 DEF NothingLost, Stored, ImageAt, InBuffer, Addr
<1>9. QED
  BY <1>4, <1>5, <1>6, <1>b, <1>s, <1>7, <1>8 DEF IInv

(* Every step of the relay keeps its invariant.                            *)
LEMMA RelayNextRight == RelayInv /\ [RelayNext]_relayVars => RelayInv'
<1> SUFFICES ASSUME RelayInv, [RelayNext]_relayVars PROVE RelayInv'
  OBVIOUS
<1> USE DEF RelayInv
<1>1. CASE Receive
  <2>1. phase = "in" /\ phase' = phase /\ Next /\ UNCHANGED outVars /\ parts' = parts
    BY <1>1 DEF Receive, outVars
  <2>2. IInv'
    BY <2>1, NextInv
  <2>3. QED
    BY <2>1, <2>2, OutStays
<1>2. CASE HandOn
  <2>1. phase' = "out" /\ UNCHANGED outVars
    BY <1>2 DEF HandOn
  <2>2. QED
    BY <1>2, <2>1, HandOnRight, OutStays
<1>3. CASE Transmit
  <2>1. phase = "out" /\ phase' = phase /\ UNCHANGED vars /\ R!ReadNext
    BY <1>3 DEF Transmit
  <2>2. IInv' /\ file' = file
    BY <2>1, NextInv DEF vars, fileVars
  <2>3. QED
    BY <2>1, <2>2, TransmitRight
<1>4. CASE UNCHANGED relayVars
  <2>1. UNCHANGED <<vars, phase, outVars>>
    BY <1>4 DEF relayVars
  <2>2. IInv' /\ file' = file /\ phase' = phase /\ parts' = parts
    BY <2>1, NextInv DEF vars, fileVars, outVars
  <2>3. QED
    BY <2>1, <2>2, OutStays
<1>5. QED
  BY <1>1, <1>2, <1>3, <1>4 DEF RelayNext

(* The invariant holds of every behaviour of the relay.                    *)
THEOREM RelayInvariant == RelaySpec => []RelayInv
BY RelayInitRight, RelayNextRight, PTL DEF RelaySpec

(* Every byte sent is the one that arrived for that place of the message,  *)
(* or that the router put there (RelayedRight).                            *)
THEOREM RelaySendsWhatItGot == RelaySpec => []RelayedRight
BY RelayInvariant, PTL DEF RelayInv, OutInv

(* ReadData is never asked for more than the message has, a packet is      *)
(* never sent empty, and the message is ended at its end (NeverRunsDry).   *)
THEOREM RelayNeverRunsDry == RelaySpec => []NeverRunsDry
<1>1. RelayInv => NeverRunsDry
  <2> SUFFICES ASSUME OutInv PROVE NeverRunsDry
    BY DEF RelayInv
  <2>1. ASSUME R!Reading PROVE R!Sought # {}
    <3>1. PICK k \in Starts : SplitAt(k)
      BY <2>1 DEF OutInv, OutTypes, R!Reading, IdleRight
    <3>2. QED
      BY <2>1, <3>1, ReadingFacts, SoughtPart DEF OutInv, OutTypes
  <2>2. ASSUME packet.want > 0, packet.data = <<>> PROVE R!Reading
    <3>1. packet # R!NoPacket
      BY <2>2 DEF R!NoPacket
    <3>2. Len(packet.data) = 0 /\ packet.want \in Nat /\ packet.addr \in Nat
      BY <2>2 DEF OutInv, OutTypes
    <3>3. msgaddr = packet.addr + Len(packet.data) /\ packet.addr < L
      BY <3>1 DEF OutInv, PacketRight
    <3>4. msgaddr # L /\ L \in Nat
      BY <3>2, <3>3, LengthIsNat DEF OutInv
    <3>5. ~eof
      BY <3>1, <3>4 DEF OutInv, PacketRight
    <3>6. QED
      BY <2>2, <3>1, <3>2, <3>5 DEF R!Reading, R!Wanted
  <2>3. nak = R!NoNAK /\ (eof \/ outstate = "ENDING") => msgaddr = R!MesgLength
    BY DEF OutInv, EndRight, SavedAddr, SavedEOF, L
  <2>4. QED
    BY <2>1, <2>2, <2>3 DEF NeverRunsDry, R!NeverRunsDry
<1>2. QED
  BY <1>1, RelayInvariant, PTL

(* What the buffer promises it keeps in the relay, in which a message is   *)
(* also handed on: no byte at a wrong place (NothingMisplaced) ...         *)
THEOREM RelayNothingMisplaced == RelaySpec => []NothingMisplaced
BY RelayInvariant, PTL DEF RelayInv, IInv

(* ... none that was handed over gone (NothingLost) ...                    *)
THEOREM RelayNothingLost == RelaySpec => []NothingLost
BY RelayInvariant, PTL DEF RelayInv, IInv

(* ... and handing on makes safe what was stored (StoresInPlace).          *)
THEOREM RelayStoresInPlace == RelaySpec => StoresInPlace
<1>1. RelayInit => MF!Init
  BY DEF RelayInit, Init, MF!Init, Stored, Safe, ImageAt, InBuffer, Pending, Addr, Hole
<1>2. RelayInv /\ [RelayNext]_relayVars => [MF!Next]_(MF!vars)
  <2> SUFFICES ASSUME RelayInv, [RelayNext]_relayVars PROVE [MF!Next]_(MF!vars)
    OBVIOUS
  <2>1. CASE Receive \/ Transmit \/ UNCHANGED relayVars
    <3>1. [Next]_vars
      BY <2>1 DEF Receive, Transmit, relayVars
    <3>2. QED
      BY <3>1, BufferStepRefines DEF RelayInv
  <2>2. CASE HandOn
    <3>1. /\ pc = "idle" /\ pc' = "idle" /\ written = Addr
          /\ size = 0 /\ UNCHANGED <<addr, size>>
      BY <2>2 DEF HandOn, callVars, RelayInv, IInv, InStep
    <3>2. addr \in Nat
      BY DEF RelayInv, IInv, TypeOK
    <3>3. Pending = {} /\ Pending' = {}
      BY <3>1, <3>2 DEF Pending
    <3>4. Stored = Addr
      BY <3>1, <3>3 DEF RelayInv, IInv, NothingLost, Stored
    <3>5. file' = [x \in Addr |-> x] /\ written' = Addr /\ IInv'
      BY <2>2, <3>1, HandOnRight DEF RelayInv, HandOn
    <3>6. Safe' = Addr /\ Stored' = Addr
      BY <3>3, <3>5 DEF Safe, IInv, NothingLost, Stored
    <3>7. Safe \subseteq Addr
      BY DEF Safe
    <3>8. MF!Store({}, Addr)
      BY <3>1, <3>3, <3>4, <3>6, <3>7 DEF MF!Store
    <3>9. QED
      BY <3>3, <3>8 DEF MF!Next, MF!Addr, Addr
  <2>3. QED
    BY <2>1, <2>2 DEF RelayNext
<1>3. QED
  BY <1>1, <1>2, RelayInvariant, PTL DEF RelaySpec, StoresInPlace, MF!Spec
=============================================================================
