-------------------------------- MODULE Uhc --------------------------------
(***************************************************************************)
(* The USB host controller service, uhc.c, with the vendor interface       *)
(* (uhi_vendor.c), the suspend and resume of the driver (usbc_host.c) and  *)
(* the events the application is told (ui.c, cp_usb.c): the enumeration of *)
(* a device in fifteen steps, each called back by the end of a bus reset,  *)
(* by a delay counted in SOFs or by the end of a setup request.            *)
(*                                                                         *)
(* Each interrupt is one step, written as a function of the state u; the   *)
(* main loop calls uhc_suspend() and uhc_resume() at any time.  The control *)
(* endpoint is what UhdControl shows it to be, a queue of requests whose   *)
(* head runs on pipe 0 until the device answers, it times out or the pipe  *)
(* is freed.                                                               *)
(***************************************************************************)
EXTENDS Integers, Sequences, FiniteSets

CONSTANTS
    UHC_ENUM_NB_TRY,  \* 4 in the code
    Outcomes,         \* what may be met on the way, beside success and failure
    MaxConnect,       \* bound: connections in a behaviour
    MaxCalls          \* bound: calls of uhc_suspend() and uhc_resume()

(* A bMaxPacketSize0 below 8; a malloc() that fails, of a buffer or of a request; a
   device that needs too much power, has no interface for uhi_vendor, or has too many
   endpoints; one that can wake up the host. *)
AllOutcomes == {"small", "nomem", "norequest", "overcurrent", "unsupported", "limit", "wakeup"}

ASSUME UhcAssumption ==
    /\ UHC_ENUM_NB_TRY \in Nat \ {0} /\ Outcomes \subseteq AllOutcomes
    /\ MaxConnect \in Nat /\ MaxCalls \in Nat

NOT_VALID  == 255                              \* UHC_USB_ADD_NOT_VALID
DEVICE_ADD == 1                                \* UHC_DEVICE_ENUM_ADD
EndSteps   == {"step6", "step10", "step12", "step13", "step14", "step15"}
Requests   == [add : {0, DEVICE_ADD}, end : EndSteps \cup {"NULL"}]
EnumStatus == {"SUCCESS", "DISCONNECT", "FAIL", "UNSUPPORTED", "OVERCURRENT",
               "HARDWARE_LIMIT", "MEMORY_LIMIT"}

VARIABLES
    u,           \* uhc.c, the driver and the application, see Init
    connected,   \* a device is on the bus
    pc,          \* of uhc_suspend() in the main loop
    plugs, calls \* connections, and calls of the main loop, so far

vars == <<u, connected, pc, plugs, calls>>

Init ==
    /\ u = [ \* uhc.c: uhc_enum_try, g_uhc_device_root, uhc_sof_timeout_callback
            enum_try |-> 0, address |-> NOT_VALID, conf_desc |-> "NULL", timer |-> "none",
             \* usbc_host.c: uhd_reset_callback, the queue and pipe 0, the other pipes
            reset |-> "none", queue |-> <<>>, enabled |-> FALSE, uhaddr |-> 0,
            endpoints |-> FALSE,
             \* SOFs; uhd_suspend_start and uhd_resume_start not 0; uhd_b_suspend_requested
            sof |-> FALSE, suspend |-> FALSE, resume |-> FALSE, requested |-> FALSE,
             \* uhi_vendor_dev.dev is not NULL; main_b_usb_dev; ui_enum_status
            dev |-> FALSE, main_b_usb_dev |-> FALSE, status |-> "DISCONNECT",
             \* ghosts: the enumeration has reported its end; resets of the bus it began
             \* with; what happened to the descriptor's memory
            done |-> TRUE, attempts |-> 0, heap |-> {}]
    /\ connected = FALSE /\ pc = "idle" /\ plugs = 0 /\ calls = 0

----------------------------------------------------------------------------
(* The driver and the interface *)

Suspended(s) == [s EXCEPT !.suspend = TRUE]

Reported(s, status) == [s EXCEPT !.status = status, !.done = TRUE]

Accepts(s, r) == s.enabled /\ r.add = s.uhaddr

(* The interface of the device is looked for, and its endpoints get pipes. *)
uhi_vendor_install(s, outcome) ==
    IF s.dev THEN "SOFTWARE_LIMIT"
    ELSE CASE outcome = "unsupported" -> "UNSUPPORTED"
           [] outcome = "limit"       -> "HARDWARE_LIMIT"
           [] OTHER                   -> "SUCCESS"

uhi_vendor_uninstall(s) ==
    IF s.dev THEN [s EXCEPT !.dev = FALSE, !.main_b_usb_dev = FALSE] ELSE s

(* A step of the enumeration whose request ends with DISCONNECT *)
Aborted(s, ends) ==
    [IF "step15" \in ends THEN uhi_vendor_uninstall(s) ELSE s
       EXCEPT !.enum_try = IF ends \cap EndSteps # {} THEN 0 ELSE @]

(* The head of the queue is started; requests that pipe 0 cannot take are called back
   with DISCONNECT. *)
Started(s) ==
    LET n == CHOOSE n \in 0 .. Len(s.queue) :
                /\ \A i \in 1 .. n : ~Accepts(s, s.queue[i])
                /\ n < Len(s.queue) => Accepts(s, s.queue[n + 1])
    IN  Aborted([s EXCEPT !.queue = SubSeq(@, n + 1, Len(@))], {s.queue[i].end : i \in 1 .. n})

uhd_setup_request(s, add, end) ==
    LET queued == [s EXCEPT !.queue = Append(@, [add |-> add, end |-> end])]
    IN  IF s.queue = <<>> THEN Started(queued) ELSE queued

(* SET_INTERFACE, with no callback *)
uhi_vendor_enable(s) ==
    IF s.dev THEN [uhd_setup_request(s, DEVICE_ADD, "NULL") EXCEPT !.main_b_usb_dev = TRUE]
    ELSE s

uhd_ep0_alloc(s, add) == [s EXCEPT !.enabled = TRUE, !.uhaddr = add]

(* uhd_ep_free(add, 0xFF) while no request runs *)
Freed(s, add) ==
    [s EXCEPT !.enabled = @ /\ s.uhaddr # add, !.endpoints = @ /\ add # DEVICE_ADD]

----------------------------------------------------------------------------
(* The memory of conf_desc *)

Allocated(s) ==
    [s EXCEPT !.conf_desc = "held", !.heap = IF s.conf_desc = "held" THEN @ \cup {"leak"} ELSE @]

(* free(conf_desc), which is then left as it is or set to NULL *)
Released(s, left) ==
    IF s.conf_desc = "NULL" THEN s
    ELSE [s EXCEPT !.conf_desc = left,
                   !.heap = IF s.conf_desc = "freed" THEN @ \cup {"freed twice"} ELSE @]

----------------------------------------------------------------------------
(* The steps of the enumeration *)

step1(s) == [s EXCEPT !.reset = "step2", !.attempts = @ + 1]

(* uhc_enumeration_error(), for another reason than a disconnection: called from the
   end of a request or from a SOF, while none runs *)
uhc_enumeration_errorMutant(s, status) ==
    LET freed == [Released(Freed(s, s.address), "NULL") EXCEPT !.address = 0]
    IN  IF s.enum_try <= UHC_ENUM_NB_TRY
        THEN step1([freed EXCEPT !.enum_try = @ + 1])
        ELSE Reported(Suspended([freed EXCEPT !.enum_try = 0]), status)
uhc_enumeration_error(s, status) ==
    LET freed == [Released(Freed(s, s.address), "NULL") EXCEPT !.address = 0]
    IN  IF s.enum_try < UHC_ENUM_NB_TRY
        THEN step1([freed EXCEPT !.enum_try = @ + 1])
        ELSE Reported(Suspended([freed EXCEPT !.enum_try = 0]), status)

(* A setup request, or the error of its malloc() *)
Requested(s, add, end, outcome) ==
    IF outcome = "norequest" THEN uhc_enumeration_error(s, "MEMORY_LIMIT")
                             ELSE uhd_setup_request(s, add, end)

step12(s, outcome) ==
    IF outcome = "nomem" THEN uhc_enumeration_error([s EXCEPT !.conf_desc = "NULL"], "MEMORY_LIMIT")
                         ELSE Requested(Allocated(s), DEVICE_ADD, "step13", outcome)

step13(s, outcome) ==
    CASE outcome = "overcurrent" -> Suspended(Reported(s, "OVERCURRENT"))
      [] outcome = "nomem" -> uhc_enumeration_error(Released(s, "NULL"), "MEMORY_LIMIT")
      [] OTHER -> Requested(Allocated(Released(s, "NULL")), DEVICE_ADD, "step14", outcome)

step14(s, outcome) ==
    LET status == uhi_vendor_install(s, outcome)
    IN  CASE status = "SUCCESS" ->
               Requested([s EXCEPT !.dev = TRUE, !.endpoints = TRUE], DEVICE_ADD, "step15", outcome)
          [] status = "UNSUPPORTED" -> Suspended(Reported(s, status))
          [] OTHER -> Suspended(Reported(Freed(s, DEVICE_ADD), "HARDWARE_LIMIT"))

step15(s) == Reported([uhi_vendor_enable(s) EXCEPT !.enum_try = 0], "SUCCESS")

(* The end of a request that succeeded, with the descriptor asked for *)
NextStep(s, end, outcome) ==
    CASE end = "step6"  -> [s EXCEPT !.timer = "step7"]
      [] end = "step10" -> [s EXCEPT !.timer = "step11"]
      [] end = "step12" -> step12(s, outcome)
      [] end = "step13" -> step13(s, outcome)
      [] end = "step14" -> step14(s, outcome)
      [] end = "step15" -> step15(s)
      [] OTHER          -> s

CalledBackMutant(s, end, status, outcome) ==
    IF end = "NULL" THEN s
    ELSE CASE status = "DISCONNECT" -> Aborted(s, {end})
           [] status = "NOERROR"    -> NextStep(s, end, outcome)
           [] OTHER -> IF end = "step15" THEN step15(uhi_vendor_uninstall(s))
                                         ELSE uhc_enumeration_error(s, "FAIL")
CalledBack(s, end, status, outcome) ==
    IF end = "NULL" THEN s
    ELSE CASE status = "DISCONNECT" -> Aborted(s, {end})
           [] status = "NOERROR"    -> NextStep(s, end, outcome)
           [] OTHER -> uhc_enumeration_error(
                           IF end = "step15" THEN uhi_vendor_uninstall(s) ELSE s, "FAIL")

(* uhd_ctrl_request_end(): the callback, the next request, a suspend that was delayed *)
uhd_ctrl_request_end(s, status, outcome) ==
    LET called == CalledBack([s EXCEPT !.queue = Tail(@)], Head(s.queue).end, status, outcome)
        next   == IF called.queue = <<>> THEN called ELSE Started(called)
    IN  IF next.requested /\ next.queue = <<>>
        THEN Suspended([next EXCEPT !.requested = FALSE]) ELSE next

uhd_ep_free(s, add) ==
    IF s.uhaddr = add /\ s.queue # <<>>
    THEN uhd_ctrl_request_end(Freed(s, add), "DISCONNECT", "none")
    ELSE Freed(s, add)

(* The steps that follow a delay.  step5 and step9 allocate pipe 0 with address 0,
   step11 with the device's. *)
DelayOver(s, outcome) ==
    LET t     == [s EXCEPT !.timer = "none"]
        freed == uhd_ep_free(IF s.timer = "step9" THEN [t EXCEPT !.address = DEVICE_ADD] ELSE t, 0)
        add   == IF s.timer = "step11" THEN DEVICE_ADD ELSE 0
        end   == CASE s.timer = "step5" -> "step6" [] s.timer = "step9" -> "step10"
                   [] OTHER -> "step12"
    IN  IF s.timer \in {"step3", "step7"}
        THEN [t EXCEPT !.reset = IF s.timer = "step3" THEN "step4" ELSE "step8"]
        ELSE IF outcome = "small" /\ s.timer # "step5"
             THEN uhc_enumeration_error(freed, "HARDWARE_LIMIT")
             ELSE Requested(uhd_ep0_alloc(freed, add), add, end, outcome)

----------------------------------------------------------------------------
(* The interrupts.  A delay and a timeout are over after SOFs that no suspend, resume
   or reset of the bus holds up. *)

Sofs == connected /\ u.sof /\ u.reset = "none"
Idle == Sofs /\ ~u.suspend /\ ~u.resume
BusUnchanged == UNCHANGED <<connected, pc, plugs, calls>>
Outcome == Outcomes \cup {"none"}

(* A reset of the bus leaves the pipes disabled. *)
ResetDoneMutant(s) ==
    [s EXCEPT !.reset = "none", !.enabled = FALSE,
              !.timer = CASE s.reset = "step2" -> "step3" [] s.reset = "step4" -> "step5"
                          [] OTHER -> "none"]
ResetDone(s) ==
    [s EXCEPT !.reset = "none", !.enabled = FALSE,
              !.timer = CASE s.reset = "step2" -> "step3" [] s.reset = "step4" -> "step5"
                          [] s.reset = "step8" -> "step9"]
ResetSent == connected /\ u.reset # "none" /\ u' = ResetDone(u) /\ BusUnchanged

SofDelay ==
    /\ Idle /\ u.timer # "none"
    /\ \E outcome \in Outcome : u' = DelayOver(u, outcome)
    /\ BusUnchanged

SofTimeout ==
    /\ Idle /\ u.queue # <<>>
    /\ u' = uhd_ctrl_request_end(u, "TIMEOUT", "none")
    /\ BusUnchanged

DeviceAnswers ==
    /\ Sofs /\ u.queue # <<>> /\ u.enabled
    /\ \E status \in {"NOERROR", "FAIL"}, outcome \in Outcome :
        u' = uhd_ctrl_request_end(u, status, outcome)
    /\ BusUnchanged

SofSuspend ==
    /\ Sofs /\ u.suspend
    /\ u' = [u EXCEPT !.suspend = FALSE, !.sof = FALSE]
    /\ BusUnchanged

(* The host's resume, or the device's *)
Wakeup ==
    /\ connected /\ ~u.sof
    /\ u' = [u EXCEPT !.sof = TRUE, !.resume = TRUE]
    /\ BusUnchanged

(* conf_desc is read whatever it points to *)
uhc_remotewakeup(s, outcome) ==
    LET read == [s EXCEPT !.heap = IF s.conf_desc = "held" THEN @ ELSE @ \cup {"read"}]
    IN  IF outcome = "wakeup" /\ s.address # NOT_VALID
        THEN uhd_setup_request(read, s.address, "NULL") ELSE read

SofResume ==
    /\ Sofs /\ ~u.suspend /\ u.resume
    /\ \E outcome \in Outcome : u' = uhc_remotewakeup([u EXCEPT !.resume = FALSE], outcome)
    /\ BusUnchanged

PluggedMutant(s) ==
    step1([s EXCEPT !.enum_try = 1, !.address = 0, !.done = FALSE, !.attempts = 0])
Plugged(s) ==
    step1([s EXCEPT !.enum_try = 1, !.conf_desc = "NULL", !.address = 0,
                    !.done = FALSE, !.attempts = 0])

Connect ==
    /\ ~connected /\ plugs < MaxConnect
    /\ connected' = TRUE /\ plugs' = plugs + 1
    /\ u' = Plugged([u EXCEPT !.sof = TRUE, !.suspend = FALSE, !.resume = FALSE])
    /\ UNCHANGED <<pc, calls>>

UnpluggedMutant(s) ==
    LET freed == uhd_ep_free([s EXCEPT !.timer = "none"], s.address)
    IN  [Released(freed, "freed") EXCEPT !.status = "DISCONNECT", !.done = TRUE,
                                         !.address = NOT_VALID]
Unplugged(s) ==
    LET freed == uhi_vendor_uninstall(uhd_ep_free([s EXCEPT !.timer = "none"], s.address))
    IN  [Released(freed, "freed") EXCEPT !.status = "DISCONNECT", !.done = TRUE,
                                         !.address = NOT_VALID]

(* A reset that was being sent is stopped. *)
Disconnect ==
    /\ connected
    /\ connected' = FALSE
    /\ u' = Unplugged([u EXCEPT !.reset = "none", !.suspend = FALSE, !.resume = FALSE])
    /\ UNCHANGED <<pc, plugs, calls>>

----------------------------------------------------------------------------
(* The main loop *)

Call == pc = "idle" /\ calls < MaxCalls /\ calls' = calls + 1

(* uhc_suspend(b_remotewakeup) *)
SuspendCall ==
    /\ Call /\ u.enum_try = 0
    /\ pc' = "suspend"
    /\ \E b_remotewakeup \in BOOLEAN, outcome \in Outcome :
        u' = IF b_remotewakeup THEN uhc_remotewakeup(u, outcome) ELSE u
    /\ UNCHANGED <<connected, plugs>>

(* uhd_suspend(), which tests uhd_ctrl_request_timeout and then acts on it *)
SuspendTest ==
    /\ pc = "suspend" /\ pc' = IF u.queue # <<>> THEN "delay" ELSE "freeze"
    /\ UNCHANGED <<u, connected, plugs, calls>>
SuspendDelay ==
    /\ pc = "delay" /\ pc' = "idle" /\ u' = [u EXCEPT !.requested = TRUE]
    /\ UNCHANGED <<connected, plugs, calls>>
SuspendFreeze ==
    /\ pc = "freeze" /\ pc' = "idle" /\ u' = Suspended(u)
    /\ UNCHANGED <<connected, plugs, calls>>

(* uhc_resume(): nothing while SOFs are sent to a device; otherwise uhd_resume(), whose
   resume signal brings the interrupt that starts uhd_resume_start at once. *)
ResumeCall ==
    /\ Call
    /\ u' = IF u.sof
            THEN IF u.address = NOT_VALID /\ u.suspend
                 THEN [u EXCEPT !.suspend = FALSE, !.resume = TRUE] ELSE u
            ELSE [u EXCEPT !.sof = TRUE, !.resume = TRUE]
    /\ UNCHANGED <<connected, pc, plugs>>

Bus == ResetSent \/ SofDelay \/ SofTimeout \/ SofSuspend \/ SofResume \/ Connect \/ Disconnect
Next ==
    \/ Bus \/ DeviceAnswers \/ Wakeup
    \/ SuspendCall \/ SuspendTest \/ SuspendDelay \/ SuspendFreeze \/ ResumeCall

Spec == Init /\ [][Next]_vars

(* A bus reset ends, and SOFs go on while a device stays and is not suspended. *)
FairSpec ==
    /\ Spec
    /\ WF_vars(ResetSent) /\ WF_vars(SofDelay) /\ WF_vars(SofTimeout)
    /\ WF_vars(SofSuspend) /\ WF_vars(SofResume)
=============================================================================
