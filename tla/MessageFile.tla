---------------------------- MODULE MessageFile ----------------------------
(***************************************************************************)
(* What the receiver expects of the message file it writes through         *)
(* VCdaemon/bufferio.c: every byte of a message has an address, a call of  *)
(* WriteData puts the bytes of a run of addresses at those addresses,      *)
(* nothing already stored is disturbed, and a crash loses only what had    *)
(* not reached the file.                                                   *)
(***************************************************************************)
EXTENDS Integers

CONSTANT MsgSize

Addr == 0 .. MsgSize - 1

VARIABLES stored,   (* addresses whose byte reads back correctly           *)
          safe,     (* those of them that will survive a crash             *)
          todo,     (* addresses of the write in progress                  *)
          up        (* the daemon is running                               *)
vars == <<stored, safe, todo, up>>

Init == stored = {} /\ safe = {} /\ todo = {} /\ up = TRUE

(* A packet covering a set of addresses is handed over.                    *)
Call(S) ==
  /\ up /\ todo = {}
  /\ todo' = S
  /\ UNCHANGED <<stored, safe, up>>

(* S, a part of it, is stored; T, of all that is stored, is made safe.     *)
Store(S, T) ==
  /\ up
  /\ todo' = todo \ S
  /\ stored' = stored \cup S
  /\ T \subseteq stored' /\ safe' = safe \cup T
  /\ UNCHANGED up

Crash ==
  /\ up /\ up' = FALSE
  /\ todo' = {} /\ stored' = safe
  /\ UNCHANGED safe

Restart == ~up /\ up' = TRUE /\ UNCHANGED <<stored, safe, todo>>

Next == \/ \E S \in SUBSET Addr : Call(S)
        \/ \E S \in SUBSET todo, T \in SUBSET Addr : Store(S, T)
        \/ Crash \/ Restart

Spec == Init /\ [][Next]_vars
=============================================================================
