--------------------------- MODULE SleepManager ---------------------------
(***************************************************************************)
(* The sleep manager's locks, sleepmgr.h: a count for each sleep mode, the *)
(* deepest mode allowed being the first one with a lock.  Both functions   *)
(* test the count before their critical section and count in it, and loop  *)
(* for ever when the test fails.                                           *)
(***************************************************************************)
EXTENDS Integers

SLEEPMGR_SLEEP_0 == 1
SLEEPMGR_RET     == 6
SLEEPMGR_BACKUP  == 7

\* SLEEPMGR_ACTIVE .. SLEEPMGR_BACKUP
SleepModes == 0 .. 7

\* sleepmgr_locks[] is an array of uint8_t, all 0: nothing calls sleepmgr_init()
NoLocks == [m \in SleepModes |-> 0]

MayLock(locks, m)   == locks[m] < 255
MayUnlock(locks, m) == locks[m] # 0
Locked(locks, m)    == [locks EXCEPT ![m] = (@ + 1) % 256]
Unlocked(locks, m)  == [locks EXCEPT ![m] = (@ - 1) % 256]

\* The modes sleepmgr_get_sleep_mode() may return: none when there is no lock at all, and
\* the function then reads past the array
sleepmgr_get_sleep_mode(locks) ==
    {m \in SleepModes : locks[m] # 0 /\ \A k \in 0 .. m - 1 : locks[k] = 0}
=============================================================================
