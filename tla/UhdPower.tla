----------------------------- MODULE UhdPower -----------------------------
(***************************************************************************)
(* The power states of the USB host driver, usbc_host.c: which interrupts  *)
(* of the bus are enabled, whether the clock of the USBC is frozen, whether *)
(* SOFs are sent, and the sleep mode the driver locks meanwhile.           *)
(*                                                                         *)
(* An interrupt handler is one step.  uhd_resume(), and uhd_sleep_mode()   *)
(* inside it, run in the main loop with the interrupts enabled: one action *)
(* for each access that a handler can come between.                        *)
(***************************************************************************)
EXTENDS SleepManager

CONSTANTS
    RESUME,     \* SOFs from the wakeup to the transfers (50)
    MaxPlug,    \* bound: devices plugged in
    MaxCall,    \* bound: calls of uhd_suspend() and uhd_resume()
    MaxStart    \* bound: calls of uhd_enable()

ASSUME PowerAssumption ==
    RESUME \in Nat \ {0} /\ MaxPlug \in Nat /\ MaxCall \in Nat /\ MaxStart \in Nat

VARIABLES
    u,        \* the controller and the driver, see Init
    pc,       \* of uhd_resume() in the main loop
    copy,     \* uhd_state as uhd_sleep_mode() has read it in the main loop
    raced,    \* an interrupt has changed uhd_state under the main loop's uhd_sleep_mode()
    pdca,     \* pdca_enable() was called
    plugs, calls, starts

vars == <<u, pc, copy, raced, pdca, plugs, calls, starts>>

Interrupts == {"DCONN", "DDISC", "HWUP", "RSMED", "RXRSM"}
Wakeups    == {"HWUP", "RSMED", "RXRSM"}
States     == {"OFF", "NO_VBUS", "DISCONNECT", "SUSPEND", "IDLE"}

Init ==
    /\ u = [ \* the host is enabled, VBUS is on; a device is plugged in, and seen by the USBC
            on |-> FALSE, attached |-> FALSE, seen |-> FALSE,
             \* UHINT and UHINTE, UHCON.SOFE and .RESUME, USBCON.FRZCLK
            flags |-> {}, enabled |-> {}, sof |-> FALSE, resume |-> FALSE, frozen |-> TRUE,
             \* the driver's variables, and sleepmgr_locks
            suspend_start |-> 0, resume_start |-> 0, uhd_state |-> "OFF", locks |-> NoLocks,
             \* an interrupt handler is in an endless loop
            hung |-> FALSE]
    /\ pc = "idle" /\ copy = "OFF" /\ raced = FALSE /\ pdca = FALSE
    /\ plugs = 0 /\ calls = 0 /\ starts = 0

-----------------------------------------------------------------------------
(* uhd_sleep_mode() as a whole, where the interrupts are masked.  The board has no pin for
   ID, VBUS and its error, so that nothing limits the sleep before a connection. *)

sleep_mode == [NO_VBUS |-> SLEEPMGR_RET, DISCONNECT |-> SLEEPMGR_RET,
               SUSPEND |-> SLEEPMGR_RET, IDLE |-> SLEEPMGR_SLEEP_0]

LockNew(s, new) ==
    IF new = "OFF" THEN s
    ELSE IF MayLock(s.locks, sleep_mode[new])
    THEN [s EXCEPT !.locks = Locked(@, sleep_mode[new])]
    ELSE [s EXCEPT !.hung = TRUE]

\* mutant: the old limit stays locked
UnlockOldMutant(s, old) == s

UnlockOld(s, old) ==
    IF s.hung \/ old = "OFF" THEN s
    ELSE IF MayUnlock(s.locks, sleep_mode[old])
    THEN [s EXCEPT !.locks = Unlocked(@, sleep_mode[old])]
    ELSE [s EXCEPT !.hung = TRUE]

uhd_sleep_mode(s, new) ==
    IF s.uhd_state = new THEN s
    ELSE [UnlockOld(LockNew(s, new), s.uhd_state) EXCEPT !.uhd_state = new]

-----------------------------------------------------------------------------
(* The bus.  A wakeup is seen whenever no SOFs are sent, the clock running or not; a device
   and its leaving only while it runs.  A handler is faster than a hand and than three SOFs:
   a device leaves or comes back only when the last event has been served, and no suspend
   starts before the connection has been. *)

Served == u.flags \cap u.enabled \cap {"DCONN", "DDISC"} = {}

Sofs == u.on /\ u.attached /\ u.seen /\ Served /\ u.sof /\ ~u.frozen /\ ~u.resume

Changed(s) ==
    CASE s.attached /\ ~s.seen -> {"DCONN"} [] ~s.attached /\ s.seen -> {"DDISC"} [] OTHER -> {}

Detected(s) == [s EXCEPT !.flags = @ \cup Changed(s), !.seen = s.attached]

Woken(s) == IF Sofs THEN s ELSE [s EXCEPT !.flags = @ \cup {"HWUP"}]

Plug ==
    /\ u.on /\ ~u.attached /\ ~u.seen /\ Served
    /\ plugs < MaxPlug
    /\ u' = [Woken(u) EXCEPT !.attached = TRUE]
    /\ plugs' = plugs + 1
    /\ UNCHANGED <<pc, copy, raced, pdca, calls, starts>>

Unplug ==
    /\ u.on /\ u.attached /\ Served
    /\ u' = [Woken(u) EXCEPT !.attached = FALSE]
    /\ UNCHANGED <<pc, copy, raced, pdca, plugs, calls, starts>>

Detect ==
    /\ u.on /\ ~u.frozen /\ u.attached # u.seen
    /\ u' = Detected(u)
    /\ UNCHANGED <<pc, copy, raced, pdca, plugs, calls, starts>>

\* The upstream resume may go undetected while the clock is frozen
DeviceResume ==
    /\ u.on /\ u.attached /\ u.seen /\ ~u.sof
    /\ \E f \in {{"HWUP"}, {"HWUP", "RXRSM"}} : u' = [u EXCEPT !.flags = @ \cup f]
    /\ UNCHANGED <<pc, copy, raced, pdca, plugs, calls, starts>>

ResumeSent ==
    /\ u.on /\ ~u.frozen /\ u.resume
    /\ u' = [u EXCEPT !.resume = FALSE, !.flags = @ \cup {"RSMED"}]
    /\ UNCHANGED <<pc, copy, raced, pdca, plugs, calls, starts>>

Bus == Plug \/ Unplug \/ Detect \/ DeviceResume \/ ResumeSent

-----------------------------------------------------------------------------
(* uhd_interrupt().  The clock frozen, only the wakeup interrupts; the handler unfreezes
   it, and the device may or may not be seen in time for its tests. *)

Pending(s) ==
    s.on /\ ~s.hung /\ \E i \in s.flags \cap s.enabled : s.frozen => i = "HWUP"

\* An interrupt changes uhd_state between the main loop's read of it and its assignment
Serve(s) ==
    /\ u' = s
    /\ raced' = (raced \/ (pc \in {"lock", "test", "unlock", "assign"} /\ s.uhd_state # u.uhd_state))
    /\ UNCHANGED <<pc, copy, pdca, plugs, calls, starts>>

Awake(s) == {[s EXCEPT !.frozen = FALSE], Detected([s EXCEPT !.frozen = FALSE])}

IsDisconnection(s) == "DDISC" \in s.flags \cap s.enabled
IsConnection(s)    == ~IsDisconnection(s) /\ "DCONN" \in s.flags \cap s.enabled

\* mutant: the wakeup interrupt is not enabled
DisconnectAsleepMutant ==
    /\ Pending(u)
    /\ \E s \in Awake(u) :
        /\ IsDisconnection(s)
        /\ Serve(uhd_sleep_mode(
            [s EXCEPT !.flags = @ \ {"DDISC", "DCONN", "HWUP"},
                      !.enabled = (@ \ ({"DDISC"} \cup Wakeups)) \cup {"DCONN"},
                      !.frozen = TRUE, !.suspend_start = 0, !.resume_start = 0], "DISCONNECT"))

\* mutant: the resume interrupts stay enabled
DisconnectMutant ==
    /\ Pending(u)
    /\ \E s \in Awake(u) :
        /\ IsDisconnection(s)
        /\ Serve(uhd_sleep_mode(
            [s EXCEPT !.flags = @ \ {"DDISC", "DCONN", "HWUP"},
                      !.enabled = (@ \ {"DDISC"}) \cup {"DCONN", "HWUP"},
                      !.frozen = TRUE, !.suspend_start = 0, !.resume_start = 0], "DISCONNECT"))

Disconnect ==
    /\ Pending(u)
    /\ \E s \in Awake(u) :
        /\ IsDisconnection(s)
        /\ Serve(uhd_sleep_mode(
            [s EXCEPT !.flags = @ \ {"DDISC", "DCONN", "HWUP"},
                      !.enabled = (@ \ ({"DDISC"} \cup Wakeups)) \cup {"DCONN", "HWUP"},
                      !.frozen = TRUE, !.suspend_start = 0, !.resume_start = 0], "DISCONNECT"))

Connect ==
    /\ Pending(u)
    /\ \E s \in Awake(u) :
        /\ IsConnection(s)
        /\ Serve([uhd_sleep_mode(
            [s EXCEPT !.flags = @ \ {"DCONN", "DDISC"}, !.enabled = (@ \ {"DCONN"}) \cup {"DDISC"},
                      !.sof = TRUE], "IDLE") EXCEPT !.suspend_start = 0, !.resume_start = 0])

\* The wakeup of a connection that is not seen yet: its own interrupt comes next
WakeupConnection ==
    /\ Pending(u)
    /\ \E s \in Awake(u) :
        /\ ~IsDisconnection(s) /\ ~IsConnection(s)
        /\ "HWUP" \in s.flags \cap s.enabled /\ "DCONN" \in s.enabled
        /\ Serve([s EXCEPT !.enabled = @ \ {"HWUP"}])

\* mutant: the sleep mode stays the one of the suspend
WakeupMutant ==
    /\ Pending(u)
    /\ \E s \in Awake(u) :
        /\ ~IsDisconnection(s) /\ ~IsConnection(s)
        /\ "HWUP" \in s.enabled /\ "HWUP" \in s.flags => "DCONN" \notin s.enabled
        /\ "HWUP" \in s.enabled /\ Wakeups \cap s.flags # {}
        /\ Serve([s EXCEPT !.enabled = @ \ Wakeups, !.sof = TRUE, !.resume_start = RESUME])

Wakeup ==
    /\ Pending(u)
    /\ \E s \in Awake(u) :
        /\ ~IsDisconnection(s) /\ ~IsConnection(s)
        /\ "HWUP" \in s.enabled /\ "HWUP" \in s.flags => "DCONN" \notin s.enabled
        /\ "HWUP" \in s.enabled /\ Wakeups \cap s.flags # {}
        /\ Serve(uhd_sleep_mode([s EXCEPT !.enabled = @ \ Wakeups, !.sof = TRUE,
                                          !.resume_start = RESUME], "IDLE"))

\* Assert(false), which the build leaves out: the handler returns
Unmanaged(s) ==
    /\ ~IsDisconnection(s) /\ ~IsConnection(s)
    /\ ~("HWUP" \in s.enabled /\ Wakeups \cap s.flags # {})

\* mutant: the wakeup interrupts are not enabled
SofSuspendMutant ==
    /\ Sofs /\ ~u.hung /\ u.suspend_start # 0
    /\ Serve(IF u.suspend_start > 1 THEN [u EXCEPT !.suspend_start = @ - 1]
             ELSE uhd_sleep_mode(
                [u EXCEPT !.suspend_start = 0, !.sof = FALSE, !.flags = @ \ Wakeups,
                          !.frozen = TRUE], "SUSPEND"))

SofSuspend ==
    /\ Sofs /\ ~u.hung /\ u.suspend_start # 0
    /\ Serve(IF u.suspend_start > 1 THEN [u EXCEPT !.suspend_start = @ - 1]
             ELSE uhd_sleep_mode(
                [u EXCEPT !.suspend_start = 0, !.sof = FALSE, !.flags = @ \ Wakeups,
                          !.enabled = @ \cup Wakeups, !.frozen = TRUE], "SUSPEND"))

SofResume ==
    /\ Sofs /\ ~u.hung /\ u.suspend_start = 0 /\ u.resume_start # 0
    /\ Serve([u EXCEPT !.resume_start = @ - 1])

\* The suspend of an enumeration that fails, or that a request has delayed
HandlerSuspend ==
    /\ Sofs /\ ~u.hung /\ calls < MaxCall
    /\ u' = [u EXCEPT !.suspend_start = 3]
    /\ calls' = calls + 1
    /\ UNCHANGED <<pc, copy, raced, pdca, plugs, starts>>

Handler == Disconnect \/ Connect \/ WakeupConnection \/ Wakeup \/ SofSuspend \/ SofResume

-----------------------------------------------------------------------------
(* The main loop.  The functions that mask the interrupts are one action each. *)

MainIdle == pc = "idle" /\ ~u.hung

\* otg_dual_enable() returns false, as there is no ID pin; VBUS is taken to be high
uhd_enable ==
    /\ MainIdle /\ ~u.on /\ starts < MaxStart
    /\ u' = uhd_sleep_mode(uhd_sleep_mode(uhd_sleep_mode(
                [u EXCEPT !.on = TRUE, !.flags = {}, !.enabled = {"HWUP", "DCONN"}, !.frozen = TRUE,
                          !.suspend_start = 0, !.resume_start = 0],
                "OFF"), "NO_VBUS"), "DISCONNECT")
    /\ starts' = starts + 1
    /\ UNCHANGED <<pc, copy, raced, pdca, plugs, calls>>

\* mutant: the lock of the driver's state is kept
uhd_disableMutant ==
    /\ MainIdle /\ u.on
    /\ u' = [u EXCEPT !.on = FALSE, !.enabled = {}, !.sof = FALSE, !.frozen = TRUE,
                      !.attached = FALSE, !.seen = FALSE, !.resume = FALSE]
    /\ UNCHANGED <<pc, copy, raced, pdca, plugs, calls, starts>>

\* The device loses its power, and the USBC its state
uhd_disable ==
    /\ MainIdle /\ u.on
    /\ u' = uhd_sleep_mode([u EXCEPT !.on = FALSE, !.enabled = {}, !.sof = FALSE, !.frozen = TRUE,
                                     !.attached = FALSE, !.seen = FALSE, !.resume = FALSE], "OFF")
    /\ UNCHANGED <<pc, copy, raced, pdca, plugs, calls, starts>>

pdca_enable ==
    /\ MainIdle /\ ~pdca
    /\ u' = [u EXCEPT !.locks = Locked(@, SLEEPMGR_BACKUP)]
    /\ pdca' = TRUE
    /\ UNCHANGED <<pc, copy, raced, plugs, calls, starts>>

uhd_suspend ==
    /\ MainIdle /\ u.on /\ calls < MaxCall
    /\ u' = [u EXCEPT !.suspend_start = 3]
    /\ calls' = calls + 1
    /\ UNCHANGED <<pc, copy, raced, pdca, plugs, starts>>

Step(from, to, s) ==
    /\ pc = from /\ ~u.hung
    /\ pc' = to /\ u' = s
    /\ UNCHANGED <<raced, pdca, plugs, calls, starts>>

\* uhc_resume() calls uhd_resume() when uhc_is_suspend(): no SOFs, or no device
ResumeCall ==
    /\ MainIdle /\ u.on /\ calls < MaxCall
    /\ ~u.sof \/ "DDISC" \notin u.enabled
    /\ pc' = "sofs" /\ calls' = calls + 1
    /\ UNCHANGED <<u, copy, raced, pdca, plugs, starts>>

ResumeSofs ==
    /\ Step("sofs", IF u.sof THEN "idle" ELSE "unfreeze",
            IF u.sof /\ u.suspend_start # 0
            THEN [u EXCEPT !.suspend_start = 0, !.resume_start = 1] ELSE u)
    /\ UNCHANGED copy

ResumeUnfreeze == Step("unfreeze", "enable", [u EXCEPT !.frozen = FALSE]) /\ UNCHANGED copy

\* A register of the USBC keeps its value while the clock is frozen
ResumeEnable ==
    Step("enable", "send", IF u.frozen THEN u ELSE [u EXCEPT !.sof = TRUE]) /\ UNCHANGED copy

ResumeSend ==
    Step("send", "mode", IF u.frozen THEN u ELSE [u EXCEPT !.resume = TRUE]) /\ UNCHANGED copy

ModeRead ==
    /\ Step("mode", IF u.uhd_state = "IDLE" THEN "idle" ELSE "lock", u)
    /\ copy' = u.uhd_state

ModeLock ==
    /\ IF MayLock(u.locks, SLEEPMGR_SLEEP_0)
       THEN Step("lock", "test", [u EXCEPT !.locks = Locked(@, SLEEPMGR_SLEEP_0)])
       ELSE Step("lock", "hung", u)
    /\ UNCHANGED copy

\* uhd_state is read again, or kept in a register: the build chooses
ModeTest ==
    \E old \in {copy, u.uhd_state} :
        /\ Step("test", IF old = "OFF" THEN "assign"
                        ELSE IF MayUnlock(u.locks, sleep_mode[old]) THEN "unlock" ELSE "hung", u)
        /\ copy' = old

ModeUnlock ==
    /\ Step("unlock", "assign", [u EXCEPT !.locks = Unlocked(@, sleep_mode[copy])])
    /\ UNCHANGED copy

ModeAssign == Step("assign", "idle", [u EXCEPT !.uhd_state = "IDLE"]) /\ UNCHANGED copy

Resume ==
    ResumeSofs \/ ResumeUnfreeze \/ ResumeEnable \/ ResumeSend
    \/ ModeRead \/ ModeLock \/ ModeTest \/ ModeUnlock \/ ModeAssign

Main == uhd_enable \/ uhd_disable \/ pdca_enable \/ uhd_suspend \/ ResumeCall \/ Resume

-----------------------------------------------------------------------------
Next == Bus \/ Handler \/ HandlerSuspend \/ Main

Spec == Init /\ [][Next]_vars

(* A pending interrupt is served, SOFs are sent while they are enabled, the USBC sees what
   is on the bus and ends its resume signal, and uhd_resume() goes on. *)
FairSpec ==
    /\ Spec
    /\ WF_vars(Detect) /\ WF_vars(ResumeSent) /\ WF_vars(Resume)
    /\ WF_vars(Disconnect) /\ WF_vars(Connect) /\ WF_vars(WakeupConnection) /\ WF_vars(Wakeup)
    /\ WF_vars(SofSuspend) /\ WF_vars(SofResume)
=============================================================================
