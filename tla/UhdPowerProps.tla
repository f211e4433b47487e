--------------------------- MODULE UhdPowerProps ---------------------------
(* What the power states of the USB host driver promise *)
EXTENDS UhdPower, FiniteSets

Controller ==
    [on : BOOLEAN, attached : BOOLEAN, seen : BOOLEAN, flags : SUBSET Interrupts,
     enabled : SUBSET Interrupts, sof : BOOLEAN, resume : BOOLEAN, frozen : BOOLEAN,
     suspend_start : 0 .. 3, resume_start : 0 .. RESUME, uhd_state : States,
     locks : [SleepModes -> 0 .. 255], hung : BOOLEAN]

(* The statements of uhd_sleep_mode() in uhd_resume() *)
InMode == {"lock", "test", "unlock", "assign"}

(* The variables keep to their types, the delays to their lengths; a host that is not
   enabled sees no device, takes no interrupt, locks no sleep mode and is not resumed. *)
TypeOK ==
    /\ u \in Controller
    /\ pc \in {"idle", "sofs", "unfreeze", "enable", "send", "mode", "hung"} \cup InMode
    /\ copy \in States /\ raced \in BOOLEAN /\ pdca \in BOOLEAN
    /\ plugs \in 0 .. MaxPlug /\ calls \in 0 .. MaxCall /\ starts \in 0 .. MaxStart
    /\ ~u.on => ~u.attached /\ ~u.seen /\ u.enabled = {} /\ u.uhd_state = "OFF" /\ pc = "idle"

(* What holds a lock: the driver's state, the PDCA, and the state uhd_resume() is taking
   over while its old one is not yet, or no longer, locked *)
Holders(m) ==
    (IF u.uhd_state # "OFF" /\ sleep_mode[u.uhd_state] = m THEN 1 ELSE 0)
    + (IF pdca /\ m = SLEEPMGR_BACKUP THEN 1 ELSE 0)
    + (IF pc \in InMode \ {"lock"} /\ m = SLEEPMGR_SLEEP_0 THEN 1 ELSE 0)
    - (IF pc = "assign" /\ copy # "OFF" /\ m = sleep_mode[copy] THEN 1 ELSE 0)

(* While no interrupt comes between the statements of the uhd_sleep_mode() of uhd_resume()
   (usbc_host.c:192), each sleep mode has exactly the locks of its holders, and neither a
   handler nor the main loop is caught in the endless loops of the sleep manager
   (sleepmgr.h:152, sleepmgr.h:184). *)
LocksHaveHolders ==
    ~raced => /\ ~u.hung /\ pc # "hung"
              /\ \A m \in SleepModes : u.locks[m] = Holders(m)

(* While SOFs are sent to a device the clock runs and the CPU may do no more than SLEEP_0. *)
AwakeWhileActive ==
    ~raced /\ ~u.hung /\ pc = "idle" /\ u.sof /\ "DDISC" \in u.enabled
        => ~u.frozen /\ sleepmgr_get_sleep_mode(u.locks) = {SLEEPMGR_SLEEP_0}

(* A suspended bus can be woken up: the device's resume and its leaving raise an interrupt
   that is enabled although the clock is frozen. *)
SuspendedCanWake ==
    u.on /\ ~u.hung /\ ~u.sof /\ "DDISC" \in u.enabled => "HWUP" \in u.enabled

(* No interrupt of the bus reaches the Assert(false) of uhd_interrupt() (usbc_host.c:1095) *)
AllManaged == Pending(u) => \A s \in Awake(u) : ~Unmanaged(s)

(* A device that stays is connected, and one that has left is disconnected, from whatever
   power state the bus was in; a resume ends in uhc_notify_resume(), unless the bus is
   suspended again or the device leaves. *)
Connects    == (u.on /\ u.attached) ~> ("DDISC" \in u.enabled \/ ~u.attached \/ u.hung)
Disconnects == (u.on /\ ~u.attached /\ u.seen) ~> ("DDISC" \notin u.enabled \/ u.attached \/ u.hung)

Resumes     ==
    u.resume_start # 0 ~> (u.resume_start = 0 \/ ~u.sof \/ "DDISC" \notin u.enabled \/ u.hung)
Noticed     == Connects /\ Disconnects /\ Resumes

(* sleepmgr.h:186 "minimum value of sleepmgr_locks buffer is no less than 0" *)
NoLockTooFew == pc # "hung" /\ ~u.hung
=============================================================================
