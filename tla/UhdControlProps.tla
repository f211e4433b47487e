------------------------- MODULE UhdControlProps -------------------------
(***************************************************************************)
(* What the users of the control endpoint may rely on.                     *)
(***************************************************************************)
EXTENDS UhdControl

(* The variables have their types, the counters their ranges. *)
TypeOK ==
    /\ \A i \in DOMAIN usb.queue : usb.queue[i] \in Requests
    /\ usb.phase \in Phases /\ usb.timeout \in 0 .. CTRL_TIMEOUT
    /\ usb.nb_trans \in Nat
    /\ {usb.zlp_out_delayed, usb.pipes_error, usb.enabled, usb.frozen, usb.armed,
        usb.installed, usb.fake, usb.misplaced, connected} \subseteq BOOLEAN
    /\ usb.uhaddr \in {0, 1} /\ usb.size \in {EnumPipeSize, PipeSize}
    /\ usb.token \in {"SETUP", "IN", "OUT"}
    /\ usb.ie \subseteq Events /\ usb.flags \subseteq Events
    /\ usb.timer \in {"none", "step5", "step9", "step11"}
    /\ usb.address \in {0, 1, NOT_VALID} /\ usb.enum_try \in 0 .. ENUM_NB_TRY + 1
    /\ pc \in {"idle", "setup", "refuse", "fill", "timeout", "enable"}

(* The assertions of the driver hold so far, and no interrupt waits for ever.  Both can
   fail, the first as the run of AssertOngoing shows: what comes late for a request that
   timed out meets no request, or the next one. *)
Sane == usb.failed = {}

(* A request in the queue is being worked on: its timeout runs, or the main loop is
   on its way to start it. *)
NoneForgotten ==
    Sane /\ usb.queue # <<>> => usb.timeout > 0 \/ pc \in {"setup", "refuse", "fill", "timeout"}

(* A data phase never moves more than the buffer of the request holds. *)
WithinBuffer ==
    Sane /\ usb.queue # <<>> /\ pc # "setup" => usb.nb_trans <= Payload[Head(usb.queue).kind]

(* A transaction is taken as answered only when the device answered that one, whatever
   comes late for the requests before it; except once a ZLP that a request left to the
   SOF was started in a phase of the next, because uhd_b_zlp_out_delayed outlives it. *)
AnswersAreOwn == Sane /\ ~usb.misplaced => ~usb.fake

(* Every request of the main loop is called back, by its answer, its timeout or the
   disconnection, unless the device is gone for good; the driver stops where it uses
   the head of an empty queue, and where a late IN packet makes the interrupt wait for a
   pipe that the next request has unfrozen. *)
MainAnswered ==
    LET Waiting == Cardinality({i \in DOMAIN usb.queue : usb.queue[i].end = "main"})
    IN  \A n \in 1 .. MaxMain :
            Waiting >= n ~> Waiting < n \/ ~Running \/ []~connected

----------------------------------------------------------------------------
(* usbc_host.c:1224 Assert(uhd_ctrl_request_timeout != 0) *)
AssertOngoing == "ongoing" \notin usb.failed
=============================================================================
