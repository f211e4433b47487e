---------------------------- MODULE UhdControl ----------------------------
(***************************************************************************)
(* The control endpoint of the USB host driver, usbc_host.c: the queue of  *)
(* setup requests, the phases of the one that runs on pipe 0, its timeout, *)
(* and the connection and disconnection of the device.                     *)
(*                                                                         *)
(* The main loop and the USB interrupt share all of it.  An interrupt      *)
(* handler runs to its end, so that it is one step, written as a function  *)
(* of the state usb.  uhd_setup_request() called by the main loop locks    *)
(* only its update of the queue: the rest of it is one action per access   *)
(* that a handler could see.                                               *)
(*                                                                         *)
(* The client in the interrupt is the UHC (uhc.c), reduced to what it asks *)
(* of this driver: Uhc has the rest of it. The client in the main loop     *)
(* sends requests to the enumerated device. uhd_suspend() is not called    *)
(* here, so that uhd_b_suspend_requested stays false.                      *)
(***************************************************************************)
EXTENDS Integers, Sequences, FiniteSets

CONSTANTS
    CTRL_TIMEOUT,     \* SOFs before a request is given up (5000 in the code)
    ENUM_NB_TRY,      \* UHC_ENUM_NB_TRY (4 in the code)
    EnumPipeSize,     \* size of pipe 0 while bMaxPacketSize0 is unknown (64)
    PipeSize,         \* bMaxPacketSize0 of the device
    DataLength,       \* wLength of a request with a data phase
    MainKinds,        \* kinds of the main loop's requests
    MaxMain,          \* bound: requests of the main loop in a behaviour
    MaxConnect        \* bound: connections in a behaviour

(* wLength and payload_size of the requests: "start" is the first request of an
   enumeration, of 8 bytes into a buffer of 18, in a pipe of 64. *)
WLength == [start |-> 1, in |-> DataLength, out |-> DataLength, none |-> 0]
Payload == [start |-> 2, in |-> DataLength, out |-> DataLength, none |-> 0]
Kinds   == DOMAIN WLength

ASSUME ControlAssumption ==
    /\ CTRL_TIMEOUT \in Nat \ {0} /\ ENUM_NB_TRY \in Nat
    /\ EnumPipeSize \in Nat \ {0} /\ PipeSize \in Nat \ {0}
    /\ DataLength \in Nat \ {0}
    /\ MainKinds \subseteq Kinds
    /\ MaxMain \in Nat /\ MaxConnect \in Nat

NOT_VALID == 255                                   \* UHC_USB_ADD_NOT_VALID
Phases    == {"SETUP", "DATA_IN", "DATA_OUT", "ZLP_IN", "ZLP_OUT"}
Answers   == {"setup", "in", "out"}
Events    == Answers \cup {"stall", "error"}
EnumSteps == {"step6", "step10", "step12", "step13"}
Requests  == [add : {0, 1, NOT_VALID}, kind : Kinds, end : EnumSteps \cup {"main"}]

VARIABLES
    usb,         \* the driver, pipe 0 and the UHC, see Init
    connected,   \* a device is on the bus: it answers, and there are SOFs
    pc,          \* of uhd_setup_request() in the main loop
    made,        \* requests the main loop has made
    plugs        \* connections so far

vars == <<usb, connected, pc, made, plugs>>

Init ==
    /\ usb = [ \* the driver's variables
              queue |-> <<>>, phase |-> "SETUP", timeout |-> 0, nb_trans |-> 0,
              zlp_out_delayed |-> FALSE, pipes_error |-> FALSE,
               \* pipe 0
              enabled |-> FALSE, uhaddr |-> 0, size |-> EnumPipeSize, frozen |-> TRUE,
              token |-> "SETUP", armed |-> FALSE, ie |-> {}, flags |-> {}, ctn |-> 0,
               \* the UHC
              timer |-> "none", address |-> NOT_VALID, enum_try |-> 0, installed |-> FALSE,
               \* ghosts: the phase the armed transaction and each answer are for,
               \* "old" if it was of an earlier request; whether one was taken for another
              armedFor |-> "old", answerFor |-> [a \in Answers |-> "old"], fake |-> FALSE,
               \* ghost: a delayed ZLP was started in a phase of a later request
              misplaced |-> FALSE,
               \* ghost: the assertions that failed; "NULL" once the queue's head was used
               \* with no request in it, and "wait" once the interrupt waits for a pipe
               \* that nothing freezes: the model stops there
              failed |-> {}]
    /\ connected = FALSE /\ pc = "idle" /\ made = 0 /\ plugs = 0

----------------------------------------------------------------------------
(* Pipe 0 *)

(* A disabled pipe stays as its reset left it. *)
Unfreeze(s) ==
    IF s.enabled THEN [s EXCEPT !.frozen = FALSE, !.armed = TRUE, !.armedFor = s.phase] ELSE s

Disabled(s) ==
    [s EXCEPT !.enabled = FALSE, !.frozen = TRUE, !.armed = FALSE, !.ie = {}, !.flags = {}]

uhd_ep0_alloc(s, add, size) ==
    [s EXCEPT !.enabled = TRUE, !.uhaddr = add, !.size = size, !.token = "SETUP",
              !.ie = @ \cup {"stall", "error"}]

----------------------------------------------------------------------------
(* Starting and ending a request *)

Failed(s, assertion) == [s EXCEPT !.failed = @ \cup {assertion}]
NoHead(s) == Failed(s, "NULL")

Accepts(s, r) == s.enabled /\ r.add = s.uhaddr

(* The three parts of uhd_ctrl_phase_setup() that follow its check *)
FillPipeMutant(s) == Unfreeze([s EXCEPT !.token = "SETUP"])
FillPipe(s) ==
    Unfreeze([s EXCEPT !.token = "SETUP", !.flags = @ \ {"setup"}])
SetTimeoutMutant(s) == s
SetTimeout(s) == [s EXCEPT !.timeout = CTRL_TIMEOUT]
EnableSetup(s) ==
    [s EXCEPT !.ie = IF s.enabled THEN @ \cup {"setup"} ELSE @]

(* The head of the queue leaves it: the first half of uhd_ctrl_request_end(). *)
Removed(s) ==
    [s EXCEPT !.pipes_error = FALSE, !.timeout = 0, !.queue = Tail(@),
              !.answerFor = [a \in Answers |-> "old"], !.armedFor = "old"]

(* uhd_ctrl_phase_setup(): a request for another address, or for a pipe that is
   disabled, ends with DISCONNECT and the next one is started.  A step of the
   enumeration that ends so resets uhc_enum_try, the other callbacks do nothing. *)
RefusedCount(s) ==
    CHOOSE n \in 0 .. Len(s.queue) :
        /\ \A i \in 1 .. n : ~Accepts(s, s.queue[i])
        /\ n < Len(s.queue) => Accepts(s, s.queue[n + 1])

Start(s) ==
    LET n == RefusedCount(s)
        kept == [s EXCEPT
            !.phase = "SETUP", !.nb_trans = 0,
            !.queue = SubSeq(@, n + 1, Len(@)),
            !.pipes_error = IF n > 0 THEN FALSE ELSE @,
            !.timeout = IF n > 0 THEN 0 ELSE @,
            !.enum_try = IF \E i \in 1 .. n : s.queue[i].end \in EnumSteps THEN 0 ELSE @]
    IN  IF kept.queue = <<>> THEN kept ELSE EnableSetup(SetTimeout(FillPipe(kept)))

(* uhd_setup_request() in the interrupt *)
SetupRequest(s, r) ==
    LET queued == [s EXCEPT !.queue = Append(@, r)]
    IN  IF s.queue = <<>> THEN Start(queued) ELSE queued

(* uhc_enumeration_error(), for another reason than a disconnection.  No request is
   on-going when it is called, so that uhd_ep_free() ends none. *)
EnumerationErrorMutant(s) ==
    LET freed == IF s.address = s.uhaddr THEN Disabled(s) ELSE s
    IN  [freed EXCEPT !.address = 0, !.enum_try = @ + 1, !.timer = "step5"]
EnumerationError(s) ==
    LET freed == IF s.address = s.uhaddr THEN Disabled(s) ELSE s
        again == s.enum_try < ENUM_NB_TRY
    IN  [freed EXCEPT !.address = 0,
                      !.enum_try = IF again THEN @ + 1 ELSE 0,
                      !.timer = IF again THEN "step5" ELSE "none"]

(* The callbacks of the enumeration's requests; valid: what was received is the
   descriptor asked for, of its full length.  A request made here while the queue
   is empty is started at once, otherwise after the callback. *)
Callback(s, end, status, valid) ==
    IF end = "main" THEN s
    ELSE IF status = "DISCONNECT" THEN [s EXCEPT !.enum_try = 0]
    ELSE IF status # "NOERROR" \/ ~valid THEN EnumerationError(s)
    ELSE CASE end = "step6"  -> [s EXCEPT !.timer = "step9"]
           [] end = "step10" -> [s EXCEPT !.timer = "step11"]
           [] end = "step12" ->
                [s EXCEPT !.queue = Append(@, [add |-> 1, kind |-> "in", end |-> "step13"])]
           [] end = "step13" -> [s EXCEPT !.installed = TRUE, !.enum_try = 0]

(* uhd_ctrl_request_end() *)
RequestEndMutant(s, status, valid) ==
    IF s.queue = <<>> THEN NoHead(s)
    ELSE Callback(Removed(s), Head(s.queue).end, status, valid)
RequestEnd(s, status, valid) ==
    IF s.queue = <<>> THEN NoHead(s)
    ELSE LET called == Callback(Removed(s), Head(s.queue).end, status, valid)
         IN  IF called.queue = <<>> THEN called ELSE Start(called)

(* uhd_ep_free(), as far as pipe 0 is concerned *)
EpFree(s, add) ==
    IF add # s.uhaddr THEN s
    ELSE IF s.timeout > 0 \/ s.pipes_error THEN RequestEnd(Disabled(s), "DISCONNECT", TRUE)
    ELSE Disabled(s)

----------------------------------------------------------------------------
(* The interrupt of pipe 0: uhd_ctrl_interrupt() *)

HeadKind(s) == Head(s.queue).kind
Left(s)     == Payload[HeadKind(s)] - s.nb_trans       \* payload_size
Dir(kind)   == IF kind \in {"start", "in"} THEN "IN" ELSE "OUT"

StartPhase(s, phase, token, event) ==
    Unfreeze([s EXCEPT !.phase = phase, !.token = token, !.flags = @ \ {event},
                       !.ie = @ \cup {event}])

DataInStart(s) == StartPhase(s, "DATA_IN", "IN", "in")
ZlpIn(s) == StartPhase(s, "ZLP_IN", "IN", "in")

(* The ZLP is left to the next SOF. *)
ZlpOut(s) ==
    [s EXCEPT !.phase = "ZLP_OUT", !.token = "OUT", !.flags = @ \ {"out"},
              !.zlp_out_delayed = TRUE]

(* Every caller passes a NULL callback_run: a buffer that is full, or empty, before
   the end of the data phase ends that phase. *)
DataInMutant(s) ==
    LET got == [s EXCEPT !.nb_trans = @ + s.ctn]
    IN  IF got.nb_trans = WLength[HeadKind(s)] \/ s.ctn # s.size
        THEN ZlpOut(got)
        ELSE StartPhase(got, "DATA_IN", "IN", "in")
DataIn(s) ==
    LET copied == IF s.ctn < Left(s) THEN s.ctn ELSE Left(s)
        got    == [s EXCEPT !.nb_trans = @ + copied]
    IN  IF \/ s.ctn > copied
           \/ got.nb_trans = WLength[HeadKind(s)]
           \/ s.ctn # s.size
        THEN ZlpOut(got)
        ELSE StartPhase(got, "DATA_IN", "IN", "in")

DataOut(s) ==
    IF s.nb_trans = WLength[HeadKind(s)] \/ Left(s) = 0
    THEN ZlpIn([s EXCEPT !.phase = "DATA_OUT"])
    ELSE LET n == IF Left(s) < s.size THEN Left(s) ELSE s.size
         IN  StartPhase([s EXCEPT !.nb_trans = @ + n], "DATA_OUT", "OUT", "out")

(* A first error of a transfer that is not frozen freezes it; SOF raises it again. *)
ErrorFreezes(s) == "error" \in s.flags /\ ~s.frozen
Event(s) ==
    IF "setup" \in s.flags THEN "setup"
    ELSE IF "in" \in s.flags THEN "in"
    ELSE IF "out" \in s.flags THEN "out"
    ELSE IF "stall" \in s.flags THEN "stall" ELSE "error"

(* The event is acknowledged, and all but stall and error are disabled; setup and
   out freeze the pipe, in was frozen by the hardware. *)
Taken(s) ==
    [s EXCEPT !.ie = @ \ Answers, !.pipes_error = FALSE, !.flags = @ \ {Event(s)},
              !.answerFor = [a \in Answers |-> IF a = Event(s) THEN "old" ELSE @[a]],
              !.frozen = @ \/ Event(s) \in {"setup", "out"}]

(* An answer is taken for one to the transaction of the current phase. *)
Expected(s) ==
    \/ Event(s) = "setup" /\ s.phase = "SETUP"
    \/ Event(s) = "in" /\ s.phase \in {"DATA_IN", "ZLP_IN"}
    \/ Event(s) = "out" /\ s.phase \in {"DATA_OUT", "ZLP_OUT"}
Judged(s) ==
    [Taken(s) EXCEPT !.fake = @ \/ (Expected(s) /\ s.answerFor[Event(s)] # s.phase)]

HandledSetup(s) ==
    LET t == IF s.phase = "SETUP" THEN s ELSE Failed(s, "setup phase")
    IN  IF Dir(HeadKind(s)) = "IN" THEN DataInStart(t)
        ELSE IF WLength[HeadKind(s)] > 0 THEN DataOut(t) ELSE ZlpIn(t)
HandledIn(s, valid) ==
    CASE s.phase = "DATA_IN" -> DataIn(s)
      [] s.phase = "ZLP_IN"  -> RequestEnd(s, "NOERROR", valid)
      [] OTHER               -> Failed(s, "in phase")
HandledOut(s, valid) ==
    CASE s.phase = "DATA_OUT" -> DataOut(s)
      [] s.phase = "ZLP_OUT"  -> RequestEnd(s, "NOERROR", valid)
      [] OTHER                -> Failed(s, "out phase")

(* An IN packet is handled once the pipe is frozen.  The next request has unfrozen it for
   its SETUP when the packet came late, or the ZLP of an earlier one with the packet still
   in the bank: the bus freezes it in neither case, and the handler does not return. *)
WaitsForEver(s) == Event(s) = "in" /\ ~s.frozen

UsesHead(s) == Event(s) \in {"setup", "stall", "error"} \/ Expected(s)

CtrlInterrupt(s, valid) ==
    LET t == IF s.timeout > 0 THEN s ELSE Failed(s, "ongoing")
    IN  IF ErrorFreezes(t)
        THEN [t EXCEPT !.frozen = TRUE, !.flags = @ \ {"error"}, !.pipes_error = TRUE]
        ELSE IF WaitsForEver(t) THEN Failed(t, "wait")
        ELSE IF t.queue = <<>> /\ UsesHead(t) THEN NoHead(t)
        ELSE CASE Event(t) = "setup" -> HandledSetup(Judged(t))
               [] Event(t) = "in"    -> HandledIn(Judged(t), valid)
               [] Event(t) = "out"   -> HandledOut(Judged(t), valid)
               [] Event(t) = "stall" -> RequestEnd(Judged(t), "STALL", valid)
               [] OTHER              -> RequestEnd(Judged(t), "ERROR", valid)

----------------------------------------------------------------------------
(* SOF *)

(* uhc_notify_sof(): the step of the enumeration whose delay is over *)
EnumStep(s) ==
    LET t     == [s EXCEPT !.timer = "none"]
        freed == EpFree(IF s.timer = "step9" THEN [t EXCEPT !.address = 1] ELSE t, 0)
    IN  CASE s.timer = "step5" ->
               SetupRequest(uhd_ep0_alloc(freed, 0, EnumPipeSize),
                            [add |-> 0, kind |-> "start", end |-> "step6"])
          [] s.timer = "step9" ->
               SetupRequest(uhd_ep0_alloc(freed, 0, PipeSize),
                            [add |-> 0, kind |-> "none", end |-> "step10"])
          [] s.timer = "step11" ->
               SetupRequest(uhd_ep0_alloc(freed, 1, PipeSize),
                            [add |-> 1, kind |-> "in", end |-> "step12"])
          [] OTHER -> s

CountDown(s) ==
    IF s.timeout = 0 THEN s
    ELSE IF s.timeout > 1 THEN [s EXCEPT !.timeout = @ - 1]
    ELSE RequestEnd([s EXCEPT !.frozen = TRUE], "TIMEOUT", TRUE)

(* The flag outlives its request when that ends before the SOF. *)
DelayedZlp(s) ==
    IF ~s.zlp_out_delayed THEN s
    ELSE Unfreeze([s EXCEPT !.zlp_out_delayed = FALSE,
                            !.misplaced = @ \/ s.phase # "ZLP_OUT",
                            !.ie = IF s.enabled THEN @ \cup {"out"} ELSE @])

RaiseError(s) ==
    IF s.pipes_error /\ s.enabled THEN [s EXCEPT !.flags = @ \cup {"error"}] ELSE s

(* uhd_sof_interrupt(); due: the delay the UHC waits for is over *)
SofInterrupt(s, due) ==
    LET t == RaiseError(DelayedZlp(CountDown(s)))
    IN  IF due /\ "NULL" \notin t.failed THEN EnumStep(t) ELSE t

----------------------------------------------------------------------------
(* The bus and the interrupts *)

Running == usb.failed \cap {"NULL", "wait"} = {}

AnswerTo(token) == IF token = "SETUP" THEN "setup" ELSE IF token = "IN" THEN "in" ELSE "out"

(* The device answers the transaction of pipe 0; one that is frozen meanwhile can
   still be answered.  An error is tried again until the pipe is frozen. *)
DeviceAnswers ==
    /\ Running /\ connected /\ usb.armed
    /\ \E answer \in {AnswerTo(usb.token), "error"}
                     \cup IF usb.token = "SETUP" THEN {} ELSE {"stall"} :
       \E n \in IF answer = "in" THEN 0 .. usb.size ELSE {usb.ctn} :
        usb' = [usb EXCEPT
                  !.flags = @ \cup {answer}, !.ctn = n,
                  !.armed = answer = "error" /\ ~usb.frozen,
                  !.frozen = @ \/ answer \in {"in", "stall"},
                  !.armedFor = IF answer = "error" /\ ~usb.frozen THEN @ ELSE "old",
                  !.answerFor = [a \in Answers |->
                                   IF a = answer THEN usb.armedFor ELSE @[a]]]
    /\ UNCHANGED <<connected, pc, made, plugs>>

PipeInterrupt ==
    /\ Running
    /\ usb.flags \cap usb.ie # {}
    /\ \E valid \in BOOLEAN : usb' = CtrlInterrupt(usb, valid)
    /\ UNCHANGED <<connected, pc, made, plugs>>

(* The steps of the enumeration are at least 20 SOFs apart, and the main loop gets
   to the end of a call in that time. *)
Sof ==
    /\ Running /\ connected
    /\ \E due \in BOOLEAN :
        /\ due => usb.timer # "none" /\ pc = "idle"
        /\ usb' = SofInterrupt(usb, due)
    /\ UNCHANGED <<connected, pc, made, plugs>>

(* uhd_interrupt() looks for interrupts of the pipes before those of the bus. *)
BusInterrupt == Running /\ usb.flags \cap usb.ie = {}

(* The enumeration begins with a reset of the bus, which disables the pipes. *)
Connect ==
    /\ BusInterrupt /\ ~connected
    /\ plugs < MaxConnect
    /\ connected' = TRUE /\ plugs' = plugs + 1
    /\ usb' = [Disabled(usb) EXCEPT !.enum_try = 1, !.address = 0, !.timer = "step5"]
    /\ UNCHANGED <<pc, made>>

(* uhc_connection_tree() for a device that is gone *)
Disconnect ==
    /\ BusInterrupt /\ connected
    /\ connected' = FALSE
    /\ usb' = [EpFree([usb EXCEPT !.timer = "none"], usb.address)
                  EXCEPT !.installed = FALSE, !.address = NOT_VALID]
    /\ UNCHANGED <<pc, made, plugs>>

----------------------------------------------------------------------------
(* uhd_setup_request() in the main loop *)

Main(from, to) == Running /\ pc = from /\ pc' = to /\ UNCHANGED <<connected, plugs>>

(* The queue is updated with the interrupts disabled; who finds it empty starts the
   request. *)
MainQueue ==
    /\ usb.installed /\ made < MaxMain
    /\ \E kind \in MainKinds :
        usb' = [usb EXCEPT !.queue = Append(@, [add |-> usb.address, kind |-> kind, end |-> "main"])]
    /\ Main("idle", IF usb.queue = <<>> THEN "setup" ELSE "idle")
    /\ made' = made + 1

MainCheck ==
    /\ Main("setup", IF usb.queue # <<>> /\ Accepts(usb, Head(usb.queue)) THEN "fill"
                                                                        ELSE "refuse")
    /\ usb' = [usb EXCEPT !.phase = "SETUP", !.nb_trans = 0]
    /\ UNCHANGED made

(* uhd_ctrl_request_end() of a request that cannot start *)
MainRefuse ==
    /\ Main("refuse", IF Len(usb.queue) > 1 THEN "setup" ELSE "idle")
    /\ usb' = IF usb.queue = <<>> THEN NoHead(usb)
              ELSE Callback(Removed(usb), Head(usb.queue).end, "DISCONNECT", TRUE)
    /\ UNCHANGED made

MainFill    == Main("fill", "timeout") /\ usb' = FillPipe(usb) /\ UNCHANGED made
MainTimeout == Main("timeout", "enable") /\ usb' = SetTimeout(usb) /\ UNCHANGED made
MainEnable  == Main("enable", "idle") /\ usb' = EnableSetup(usb) /\ UNCHANGED made

MainStep == MainCheck \/ MainRefuse \/ MainFill \/ MainTimeout \/ MainEnable

Next ==
    \/ DeviceAnswers \/ PipeInterrupt \/ Sof \/ Connect \/ Disconnect
    \/ MainQueue \/ MainStep

Spec == Init /\ [][Next]_vars

(* A pending interrupt is served, the main loop goes on, and while a device stays,
   or is plugged in again and again, there are SOFs; a delay of the UHC ends. *)
Fairness ==
    /\ WF_vars(PipeInterrupt) /\ WF_vars(MainStep)
    /\ SF_vars(Sof)

FairSpec == Spec /\ Fairness
=============================================================================
