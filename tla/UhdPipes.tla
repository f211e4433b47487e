----------------------------- MODULE UhdPipes -----------------------------
(***************************************************************************)
(* A bulk pipe of the USB host driver, usbc_host.c, and the job it runs:   *)
(* uhd_ep_run() in the main loop; the pipe's interrupt, which ends a       *)
(* transfer and starts the next one of the job; the SOF, which counts the  *)
(* timeout of the job and the delays of suspend and resume; disconnection. *)
(*                                                                         *)
(* An interrupt handler is one step, a function of the state p.  The main  *)
(* loop locks its update of the job only: the rest of uhd_ep_run() is one  *)
(* action per access that a handler can come between.  The client is the   *)
(* vendor interface (uhi_vendor.c).  The pipes share nothing but the       *)
(* handlers, so that one, of either direction, stands for all.             *)
(***************************************************************************)
EXTENDS Integers, FiniteSets

CONSTANTS
    UHD_ENDPOINT_MAX_TRANS,  \* 32767 in the code
    PipeSize,                \* wMaxPacketSize of the endpoint
    MaxInRequests,           \* IN requests of a transfer (256 in the code)
    TIMEOUT,                 \* UHI_VENDOR_TIMEOUT (20000)
    RESUME,                  \* SOFs from the wakeup to the transfers (50)
    Sizes,                   \* buffer sizes of the clients, none of which passes 0
    MaxRuns,                 \* bound: jobs accepted in a behaviour
    MaxConnect,              \* bound: connections
    MaxSuspend               \* bound: calls of uhd_suspend()

ASSUME PipeAssumption ==
    /\ PipeSize \in Nat \ {0} /\ UHD_ENDPOINT_MAX_TRANS \in Nat
    /\ UHD_ENDPOINT_MAX_TRANS >= PipeSize
    /\ MaxInRequests \in Nat \ {0}
    /\ TIMEOUT \in Nat \ {0} /\ RESUME \in Nat \ {0}
    /\ Sizes \subseteq Nat \ {0}
    /\ MaxRuns \in Nat /\ MaxConnect \in Nat /\ MaxSuspend \in Nat

Directions == {"IN", "OUT"}
Statuses   == {"NOERROR", "DISCONNECT", "STALL", "ERROR", "TIMEOUT"}

VARIABLES
    p,           \* the driver and the pipe, see Init
    connected,   \* a device is on the bus
    pc,          \* of the driver's function in the main loop
    runs, plugs, suspends   \* jobs accepted, connections, calls of uhd_suspend() so far

vars == <<p, connected, pc, runs, plugs, suspends>>

Least(m, n) == IF m <= n THEN m ELSE n

NoReport == [status |-> "none", nb |-> 0, moved |-> 0, size |-> 0, short |-> FALSE,
             closed |-> FALSE]

Init ==
    /\ p = [ \* uhd_pipe_job
            busy |-> FALSE, buf_size |-> 0, nb_trans |-> 0, timeout |-> 0,
            b_shortpacket |-> FALSE, buf_internal |-> FALSE,
             \* the pipe and its descriptor; the address is the internal buffer's
            enabled |-> FALSE, dir |-> "IN", frozen |-> TRUE, inrq |-> 0, ctn |-> 0, size |-> 0,
            autozlp |-> FALSE, inner |-> FALSE, ie |-> FALSE, done_ie |-> FALSE, flags |-> {},
             \* a transfer is in the pipe; one of its transactions outlives the freeze; the
             \* last SOF left an interrupt of the pipe to be served
            armed |-> FALSE, old |-> FALSE, due |-> FALSE,
             \* the driver's variables, SOFs and the wakeup interrupts enabled, and
             \* uhi_vendor_dev.dev
            pipes_error |-> FALSE, pipes_unfreeze |-> FALSE, suspend_start |-> 0,
            resume_start |-> 0, sof |-> FALSE, wakeup |-> FALSE, dev |-> FALSE,
             \* ghosts: bytes of the job in the user's buffer, or sent; its last packet was
             \* short, and has to be; callbacks so far; what the last one reported; what
             \* went wrong
            moved |-> 0, short |-> FALSE, closed |-> FALSE, ended |-> 0, report |-> NoReport, odd |-> {}]
    /\ connected = FALSE /\ pc = "idle" /\ runs = 0 /\ plugs = 0 /\ suspends = 0

Odd(s, what) == [s EXCEPT !.odd = @ \cup {what}]

(* An interrupt waits for an IN pipe to be frozen that has no transfer, so that nothing
   freezes it: the handler does not return, and the driver stops. *)
Hung == "hung" \in p.odd

----------------------------------------------------------------------------
(* The pipe *)

Frozen(s)   == [s EXCEPT !.frozen = TRUE, !.old = s.armed /\ (s.old \/ ~s.frozen)]
Unfrozen(s) == IF s.enabled THEN [s EXCEPT !.frozen = FALSE, !.old = FALSE] ELSE s

(* uhd_disable_pipe(): its registers are reset, its descriptor in memory is not. *)
Disabled(s) ==
    [s EXCEPT !.enabled = FALSE, !.frozen = TRUE, !.inrq = 0, !.done_ie = FALSE,
              !.flags = {}, !.armed = FALSE, !.old = FALSE]

uhd_ep_alloc(s, dir) ==
    [s EXCEPT !.enabled = TRUE, !.dir = dir, !.ctn = 0, !.size = 0, !.autozlp = FALSE,
              !.inner = FALSE, !.ie = TRUE]

----------------------------------------------------------------------------
(* The end of a job *)

uhd_pipe_finish_jobMutant(s, status) ==
    [s EXCEPT !.pipes_error = FALSE, !.buf_internal = FALSE, !.busy = FALSE,
              !.ended = @ + 1,
              !.report = [status |-> status, nb |-> s.nb_trans, moved |-> s.moved,
                          size |-> s.buf_size, short |-> s.short, closed |-> s.closed]]
CalledBack(s, status) ==
    [s EXCEPT !.pipes_error = FALSE, !.buf_internal = FALSE, !.busy = FALSE,
              !.ended = @ + 1,
              !.report = [status |-> status, nb |-> s.nb_trans, moved |-> s.moved,
                          size |-> s.buf_size, short |-> s.short, closed |-> s.closed]]
uhd_pipe_finish_job(s, status) == IF s.busy THEN CalledBack(s, status) ELSE s

(* The pipe is frozen, reset and enabled, even one that was freed before the job began;
   its configuration and its interrupts are kept. *)
Aborted(s) ==
    [Disabled(s) EXCEPT !.enabled = TRUE,
                        !.nb_trans = @ + (IF s.dir = "OUT" THEN s.size ELSE s.ctn)]
uhd_ep_abort_pipeMutant(s, status) ==
    uhd_pipe_finish_job([s EXCEPT !.nb_trans = @ + (IF s.dir = "OUT" THEN s.size ELSE s.ctn)],
                        status)
uhd_ep_abort_pipe(s, status) == uhd_pipe_finish_job(Aborted(s), status)

----------------------------------------------------------------------------
(* uhd_pipe_trans_complet(), in the parts that the main loop can be interrupted between *)

(* The transfer that was in the pipe is added to the job.  An IN transfer into the
   internal buffer is copied to the end of the user's buffer, cut to its size. *)
AccountOut(s) ==
    [s EXCEPT !.nb_trans = @ + (IF s.size = 0 THEN s.ctn ELSE s.size), !.size = 0]

AccountInMutant(s) ==
    [s EXCEPT !.moved = @ + (IF s.buf_internal THEN Least(s.buf_size % PipeSize, s.ctn) ELSE 0),
              !.buf_internal = FALSE,
              !.nb_trans = @ + s.ctn, !.ctn = 0]
AccountIn(s) ==
    [s EXCEPT !.moved = @ + (IF s.buf_internal THEN Least(s.buf_size % PipeSize, s.ctn) ELSE 0),
              !.buf_internal = FALSE,
              !.nb_trans = Least(@ + s.ctn, s.buf_size), !.ctn = 0]

Accounted(s) == IF s.dir = "OUT" THEN AccountOut(s) ELSE AccountIn(s)

(* s is the state before, t after the transfer is added: the job needs another one *)
NeedsMore(s, t) ==
    IF s.dir = "OUT" THEN t.nb_trans # t.buf_size \/ t.b_shortpacket
                     ELSE s.ctn = s.size /\ t.nb_trans # t.buf_size

(* A transfer shorter than a packet is received in the internal buffer, if there is
   memory for it. *)
Internal(s) ==
    s.dir = "IN" /\ Least(s.buf_size - s.nb_trans, UHD_ENDPOINT_MAX_TRANS) < PipeSize

PreparedOut(s) ==
    LET rest == s.buf_size - s.nb_trans
        cut  == UHD_ENDPOINT_MAX_TRANS < rest
    IN  [s EXCEPT !.size = 0, !.autozlp = ~cut /\ s.b_shortpacket,
                  !.b_shortpacket = cut /\ @,
                  !.ctn = IF cut THEN UHD_ENDPOINT_MAX_TRANS - (UHD_ENDPOINT_MAX_TRANS % PipeSize)
                                 ELSE rest]

PreparedInMutant(s) ==
    LET next  == Least(s.buf_size - s.nb_trans, MaxInRequests * PipeSize)
        whole == ((next + PipeSize - 1) \div PipeSize) * PipeSize
    IN  [s EXCEPT !.inner = FALSE, !.size = whole, !.inrq = whole \div PipeSize]
PreparedIn(s) ==
    LET next  == Least(s.buf_size - s.nb_trans,
                       Least(MaxInRequests * PipeSize, UHD_ENDPOINT_MAX_TRANS))
        whole == next - (next % PipeSize)
    IN  IF Internal(s)
        THEN [s EXCEPT !.buf_internal = TRUE, !.inner = TRUE, !.size = PipeSize, !.inrq = 1]
        ELSE [s EXCEPT !.inner = FALSE, !.size = whole, !.inrq = whole \div PipeSize]

Prepared(s) == IF s.dir = "OUT" THEN PreparedOut(s) ELSE PreparedIn(s)

(* uhd_ack_fifocon() and uhd_unfreeze_pipe() *)
Launched(s) == IF s.enabled THEN [Unfrozen(s) EXCEPT !.armed = TRUE] ELSE s

(* The interrupts of a disabled pipe stay disabled. *)
InterruptEnabled(s) == [s EXCEPT !.done_ie = s.enabled, !.ie = s.enabled]

(* The job is over; an IN pipe with requests left has to be frozen. *)
CompleteMutant(s) == s
Complete(s) ==
    IF s.dir = "IN" /\ s.inrq # 0 THEN Frozen(s) ELSE s

(* The next transfer of a job, in the interrupt: a pipe that is waited for, and malloc() *)
NextTransfer(t, memory) ==
    IF t.dir = "IN" /\ ~t.frozen THEN Odd(t, "hung")
    ELSE IF Internal(t) /\ ~memory THEN uhd_pipe_finish_job(Odd(t, "memory"), "NOERROR")
    ELSE InterruptEnabled(Launched(Prepared(t)))

(* In the interrupt, all of it; memory says whether malloc() succeeds. *)
uhd_pipe_trans_complet(s, memory) ==
    LET t == Accounted(s)
    IN  IF ~s.busy THEN s
        ELSE IF NeedsMore(s, t) THEN NextTransfer(t, memory)
        ELSE uhd_pipe_finish_job(Complete(t), "NOERROR")

----------------------------------------------------------------------------
(* The interrupt of the pipe *)

Pending(s) ==
    s.enabled /\ s.ie /\ s.flags \cap ({"stall", "error"} \cup IF s.done_ie THEN {"done"} ELSE {}) # {}

uhd_pipe_interrupt(s, memory) ==
    LET Acked(flag) == [s EXCEPT !.ie = FALSE, !.pipes_error = FALSE, !.flags = @ \ {flag}]
    IN  IF "error" \in s.flags /\ ~s.frozen
        THEN [Frozen(s) EXCEPT !.flags = @ \ {"error"}, !.pipes_error = TRUE]
        ELSE CASE "done" \in s.flags ->
                    uhd_pipe_trans_complet(
                        IF s.dir = "OUT" THEN Frozen(Acked("done")) ELSE Acked("done"), memory)
               [] "done" \notin s.flags /\ "stall" \in s.flags ->
                    uhd_ep_abort_pipe(Acked("stall"), "STALL")
               [] OTHER -> uhd_ep_abort_pipe(Acked("error"), "ERROR")

PipeInterrupt ==
    /\ Pending(p) /\ ~Hung
    /\ \E memory \in BOOLEAN : p' = uhd_pipe_interrupt([p EXCEPT !.due = FALSE], memory)
    /\ UNCHANGED <<connected, pc, runs, plugs, suspends>>

----------------------------------------------------------------------------
(* The SOF: the suspend, else the resume, else the timeout of the job and the error
   that was put off *)

Sofs == connected /\ p.sof /\ ~Hung

ExpiredMutant(s) ==
    IF s.busy /\ s.timeout > 0 THEN [s EXCEPT !.timeout = @ - 1] ELSE s
Expired(s) ==
    IF s.busy /\ s.timeout = 1 THEN uhd_ep_abort_pipe([s EXCEPT !.timeout = 0], "TIMEOUT")
    ELSE IF s.busy /\ s.timeout > 1 THEN [s EXCEPT !.timeout = @ - 1]
    ELSE s

Raised(s) == IF s.pipes_error /\ s.enabled THEN [s EXCEPT !.flags = @ \cup {"error"}] ELSE s

RestoredMutant(s) == s
Restored(s) ==
    IF ~s.pipes_unfreeze THEN s ELSE IF s.armed THEN Unfrozen(s) ELSE Odd(Unfrozen(s), "stray")

uhd_sof_interrupt(s) ==
    CASE s.suspend_start = 1 -> [s EXCEPT !.suspend_start = 0, !.sof = FALSE, !.wakeup = TRUE]
      [] s.suspend_start > 1 -> [s EXCEPT !.suspend_start = @ - 1]
      [] s.suspend_start = 0 /\ s.resume_start = 1 -> Restored([s EXCEPT !.resume_start = 0])
      [] s.suspend_start = 0 /\ s.resume_start > 1 -> [s EXCEPT !.resume_start = @ - 1]
      [] OTHER -> Raised(Expired(s))

(* The timeout of a job lasts longer than its uhd_ep_run(), unless that waits for the
   pipe for ever; a transaction does not last longer than a frame; an interrupt that
   is pending is served before the second SOF. *)
Waiting == pc = "wait" /\ p.dir = "IN" /\ ~p.frozen
Running == pc \in {"check", "wait", "launch", "enable", "finish", "call"}
Sof ==
    /\ Sofs
    /\ p.busy /\ p.timeout = 1 => ~Running \/ Waiting
    /\ ~(p.due /\ Pending(p))
    /\ LET s == uhd_sof_interrupt([p EXCEPT !.old = FALSE])
       IN  p' = [s EXCEPT !.due = Pending(s)]
    /\ UNCHANGED <<connected, pc, runs, plugs, suspends>>

(* The wakeup interrupt, of the device's resume or of the one uhd_resume() sends *)
Wakeup ==
    /\ connected /\ p.wakeup /\ ~Hung
    /\ p' = [p EXCEPT !.wakeup = FALSE, !.sof = TRUE, !.resume_start = RESUME]
    /\ UNCHANGED <<connected, pc, runs, plugs, suspends>>

----------------------------------------------------------------------------
(* Connection and disconnection *)

Connect ==
    /\ ~connected /\ plugs < MaxConnect /\ ~Hung
    /\ connected' = TRUE /\ plugs' = plugs + 1
    /\ p' = [p EXCEPT !.sof = TRUE, !.suspend_start = 0, !.resume_start = 0]
    /\ UNCHANGED <<pc, runs, suspends>>

(* The enumeration installs the vendor interface.  It takes longer than uhd_ep_run().  A
   pipe that is enabled is passed over: another one is allocated, that is not followed. *)
Install ==
    /\ Sofs /\ ~p.dev /\ ~p.enabled /\ pc = "idle"
    /\ \E dir \in Directions : p' = [uhd_ep_alloc(p, dir) EXCEPT !.dev = TRUE]
    /\ UNCHANGED <<connected, pc, runs, plugs, suspends>>

(* uhd_ep_free() and uhi_vendor_uninstall() *)
Unplugged(s) ==
    [uhd_pipe_finish_job(Disabled(s), "DISCONNECT")
        EXCEPT !.dev = FALSE, !.wakeup = FALSE, !.suspend_start = 0, !.resume_start = 0]

(* The pipes with the address of the device are freed: without an interface, the device
   has that of the pipe or not yet. *)
Disconnect ==
    /\ connected /\ ~Hung
    /\ connected' = FALSE
    /\ \/ (p.dev \/ p.enabled) /\ p' = Unplugged(p)
       \/ ~p.dev /\ p' = [p EXCEPT !.wakeup = FALSE, !.suspend_start = 0, !.resume_start = 0]
    /\ UNCHANGED <<pc, runs, plugs, suspends>>

----------------------------------------------------------------------------
(* uhi_vendor_bulk_in_run() or uhi_vendor_bulk_out_run(), and uhd_ep_run(), in the
   main loop *)

(* An interrupt that is pending comes first. *)
Goes(from, to) == pc = from /\ pc' = to /\ ~Pending(p) /\ ~Hung

Main(from, to) == Goes(from, to) /\ UNCHANGED <<connected, plugs, suspends>>

(* uhi_vendor_bulk_is_available(), then dev->address is read and the pipe looked for:
   with no device, it is refused. *)
Run ==
    /\ runs < MaxRuns /\ p.dev
    /\ Main("idle", "run")
    /\ UNCHANGED <<p, runs>>

GetPipe ==
    /\ Main("run", IF p.dev THEN "found" ELSE "idle")
    /\ p' = IF p.dev THEN p ELSE Odd(p, "NULL")
    /\ UNCHANGED runs

Refuse ==
    /\ p.busy /\ Main("found", "idle")
    /\ UNCHANGED <<p, runs>>

Accept ==
    /\ ~p.busy /\ Main("found", "check")
    /\ runs' = runs + 1
    /\ \E size \in Sizes, short \in BOOLEAN :
        /\ short => p.dir = "OUT"    \* no effect on an IN pipe
        /\ p' = [IF p.enabled THEN p ELSE Odd(p, "lost")
                 EXCEPT !.busy = TRUE, !.buf_size = size, !.nb_trans = 0, !.timeout = TIMEOUT,
                       !.b_shortpacket = short, !.ctn = 0, !.size = 0,
                       !.moved = 0, !.short = FALSE, !.closed = short, !.report = NoReport]

(* uhd_pipe_trans_complet(): the job may have ended already.  The sizes are not 0, so
   that a first transfer is needed. *)
Ended ==
    /\ ~p.busy /\ Main("check", "idle")
    /\ UNCHANGED <<p, runs>>

Check ==
    /\ p.busy /\ Main("check", "wait")
    /\ p' = Accounted(p)
    /\ UNCHANGED runs

(* An IN pipe is waited for until it is frozen. *)
Prepare ==
    /\ p.dir = "IN" => p.frozen
    /\ Main("wait", "launch")
    /\ p' = Prepared(p)
    /\ UNCHANGED runs

NoMemory ==
    /\ p.frozen /\ Internal(p)
    /\ Main("wait", "finish")
    /\ p' = Odd(p, "memory")
    /\ UNCHANGED runs

Launch ==
    /\ Main("launch", "enable")
    /\ p' = Launched(p)
    /\ UNCHANGED runs

Enable ==
    /\ Main("enable", "idle")
    /\ p' = InterruptEnabled(p)
    /\ UNCHANGED runs

(* uhd_pipe_finish_job() tests busy, and then clears it and calls back. *)
Finish ==
    /\ Main("finish", IF p.busy THEN "call" ELSE "idle")
    /\ UNCHANGED <<p, runs>>

Call ==
    /\ Main("call", "idle")
    /\ p' = CalledBack(p, "NOERROR")
    /\ UNCHANGED runs

----------------------------------------------------------------------------
(* uhd_suspend() and uhd_resume() in the main loop.  uhc.c calls the second only while
   the SOFs are stopped. *)

Pause(from, to) == Goes(from, to) /\ UNCHANGED <<connected, runs, plugs>>

(* uhd_pipes_unfreeze is taken *)
SuspendSave ==
    /\ suspends < MaxSuspend /\ p.dev
    /\ Pause("idle", "freeze")
    /\ suspends' = suspends + 1
    /\ p' = [IF p.suspend_start + p.resume_start # 0 \/ p.wakeup THEN Odd(p, "again") ELSE p
               EXCEPT !.pipes_unfreeze = ~p.frozen]

SuspendFreeze ==
    /\ Pause("freeze", "suspend")
    /\ p' = Frozen(IF p.frozen = p.pipes_unfreeze THEN Odd(p, "raced") ELSE p)
    /\ UNCHANGED suspends

SuspendStart ==
    /\ Pause("suspend", "idle")
    /\ p' = [p EXCEPT !.suspend_start = 3]
    /\ UNCHANGED suspends

uhd_resume ==
    /\ ~p.sof /\ connected
    /\ Pause("idle", "idle")
    /\ p' = [p EXCEPT !.sof = TRUE]
    /\ UNCHANGED suspends

----------------------------------------------------------------------------
(* The device (external) *)

Bus == Sofs /\ p.enabled /\ p.armed /\ (~p.frozen \/ p.old)
DeviceSteps == Bus /\ UNCHANGED <<connected, pc, runs, plugs, suspends>>

(* A packet of n bytes is received: the transfer is over when it is short, or the last
   one.  The pipe freezes itself after its last request. *)
Received(s, n) ==
    LET over == n < PipeSize \/ s.ctn + n = s.size
    IN  [s EXCEPT !.ctn = @ + n, !.inrq = IF @ = 0 THEN 0 ELSE @ - 1, !.old = FALSE,
                  !.frozen = @ \/ s.inrq \in {0, 1}, !.armed = ~over,
                  !.flags = IF over THEN @ \cup {"done"} ELSE @,
                  !.moved = IF s.inner THEN @ ELSE @ + n, !.short = n < PipeSize]
InPacket ==
    /\ DeviceSteps /\ p.dir = "IN"
    /\ \E n \in 0 .. PipeSize : p' = Received(p, n)

(* A packet is sent.  The count of a transfer of several packets is in size; autozlp
   adds an empty packet if the last one is full. *)
Sent(s) ==
    LET n    == Least(PipeSize, s.ctn - s.size)
        over == s.size + n = s.ctn
    IN  [s EXCEPT !.size = IF s.ctn <= PipeSize THEN 0 ELSE @ + n, !.old = FALSE,
                  !.armed = ~over, !.flags = IF over THEN @ \cup {"done"} ELSE @,
                  !.moved = @ + n, !.short = n < PipeSize \/ (over /\ s.autozlp)]
OutPacket == DeviceSteps /\ p.dir = "OUT" /\ p' = Sent(p)

Stall ==
    /\ DeviceSteps
    /\ p' = [p EXCEPT !.flags = @ \cup {"stall"}, !.frozen = TRUE, !.armed = FALSE, !.old = FALSE]

Error == DeviceSteps /\ p' = [p EXCEPT !.flags = @ \cup {"error"}, !.old = FALSE]

----------------------------------------------------------------------------
Job == Run \/ GetPipe \/ Refuse \/ Accept \/ Ended \/ Check \/ Prepare \/ NoMemory \/ Launch
           \/ Enable \/ Finish \/ Call
Suspend == SuspendSave \/ SuspendFreeze \/ SuspendStart
Next ==
    \/ PipeInterrupt \/ Sof \/ Wakeup
    \/ Connect \/ Install \/ Disconnect
    \/ Job \/ Suspend \/ uhd_resume
    \/ InPacket \/ OutPacket \/ Stall \/ Error

Spec == Init /\ [][Next]_vars

(* The interrupts are served, SOFs go on while a device stays and is not suspended, a
   call that was made goes on, and a suspended bus is resumed in the end. *)
FairSpec ==
    /\ Spec
    /\ WF_vars(PipeInterrupt) /\ WF_vars(Sof) /\ WF_vars(Wakeup)
    /\ WF_vars(pc # "idle" /\ Job) /\ WF_vars(pc # "idle" /\ Suspend)
    /\ SF_vars(uhd_resume)
=============================================================================
