------------------------------- MODULE RwLock -------------------------------
(***************************************************************************)
(* spin_rw_lock of sw/runtime (handler.c, handler.h), on the futex of      *)
(* pspin.h, by cores that do as fit_batch in examples/slp does: read the   *)
(* weights under the reader lock, then change them under the writer lock,  *)
(* again and again.  Every step is one atomic memory operation.            *)
(***************************************************************************)
EXTENDS Integers

CONSTANTS
  Cores,
  InitialReaders   (* what the user writes into num_readers: the lock      *)
                   (* supposes 0; slp_l1.c:107 writes 32, with which no    *)
                   (* reader ever takes glock                              *)

VARIABLES
  numReaders,      (* num_readers of the lock                              *)
  glock,           (* glock, the futex: 0 or 1                             *)
  pc               (* where every core is                                  *)
vars == <<numReaders, glock, pc>>

Init == numReaders = InitialReaders /\ glock = 0 /\ pc = [c \in Cores |-> "idle"]

Goto(c, from, to) == pc[c] = from /\ pc' = [pc EXCEPT ![c] = to]

(* futex_lock_s: amo_or of 1 until the value before was 0.                 *)
FutexLock(c, from, to) ==
  /\ Goto(c, from, to)
  /\ glock = 0 /\ glock' = 1
  /\ UNCHANGED numReaders

(* futex_unlock: a store of 0.                                             *)
FutexUnlock(c, from, to) ==
  /\ Goto(c, from, to)
  /\ glock' = 0
  /\ UNCHANGED numReaders

(* spin_rw_lock_r_lock: the first reader takes glock for all of them.      *)
RLock(c) ==
  /\ numReaders' = numReaders + 1
  /\ Goto(c, "idle", IF numReaders' = 1 THEN "r_locking" ELSE "reading")
  /\ UNCHANGED glock
RLockGlock(c) == FutexLock(c, "r_locking", "reading")

(* spin_rw_lock_r_unlock: the last reader gives glock back.                *)
RUnlock(c) ==
  /\ numReaders' = numReaders - 1
  /\ Goto(c, "reading", IF numReaders' = 0 THEN "r_unlocking" ELSE "w_locking")
  /\ UNCHANGED glock
RUnlockGlock(c) == FutexUnlock(c, "r_unlocking", "w_locking")

(* spin_rw_lock_w_lock and spin_rw_lock_w_unlock.                          *)
WLock(c) == FutexLock(c, "w_locking", "writing")
WUnlock(c) == FutexUnlock(c, "writing", "idle")

Next == \E c \in Cores : \/ RLock(c) \/ RLockGlock(c) \/ RUnlock(c) \/ RUnlockGlock(c)
                         \/ WLock(c) \/ WUnlock(c)
Spec == Init /\ [][Next]_vars

-----------------------------------------------------------------------------
(* Nobody reads the weights while they are changed, which fit_batch does   *)
(* in place and not atomically (slp_l1.c:45-67): the second reader must    *)
(* not get past a first one that is still waiting for the writer           *)
(* (handler.c:69-77).                                                      *)
ReadersExcludeWriters ==
  \A c, d \in Cores : ~ (pc[c] = "reading" /\ pc[d] = "writing")
=============================================================================
