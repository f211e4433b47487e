--------------------------- MODULE UhdPipesProps ---------------------------
(***************************************************************************)
(* What a client of uhd_ep_run() may rely on                               *)
(***************************************************************************)
EXTENDS UhdPipes

(* The variables have their types, the counters their ranges, those of a transfer
   unless a resume unfroze a pipe without one. *)
TypeOK ==
    /\ p.dir \in Directions /\ p.flags \subseteq {"done", "stall", "error"}
    /\ p.buf_size \in Sizes \cup {0} /\ p.timeout \in 0 .. TIMEOUT
    /\ "stray" \notin p.odd =>
         /\ p.inrq \in 0 .. MaxInRequests /\ p.size \in 0 .. UHD_ENDPOINT_MAX_TRANS
         /\ p.ctn \in 0 .. UHD_ENDPOINT_MAX_TRANS
         /\ p.nb_trans \in Nat /\ p.moved \in Nat
    /\ p.suspend_start \in 0 .. 3 /\ p.resume_start \in 0 .. RESUME
    /\ p.report.status \in Statuses \cup {"none"}
    /\ p.odd \subseteq {"memory", "hung", "stray", "again", "lost", "raced", "NULL"}
    /\ pc \in {"idle", "run", "found", "check", "wait", "launch", "enable", "finish", "call",
               "freeze", "suspend"}

(* Each accepted job is called back once, whichever of the interrupt of the pipe, the
   timeout and the disconnection ends it, and however they meet. *)
CalledBackOnce == "memory" \notin p.odd => runs = p.ended + (IF p.busy THEN 1 ELSE 0)

(* A job that ends with NOERROR moved the bytes it reports; they are all those asked
   for, or the device ended an IN job with a short packet; an OUT job with
   b_shortpacket was closed by one. *)
ReportIsTrue ==
    p.report.status = "NOERROR" /\ p.odd \cap {"memory", "stray"} = {} =>
        /\ p.report.nb = p.report.moved
        /\ p.report.nb = p.report.size \/ p.report.short
        /\ p.report.closed => p.report.short

(* The hardware moves data of a job only while the job is not over, and no further than
   the end of its buffer. *)
WithinBuffer ==
    "stray" \notin p.odd =>
        /\ p.armed => p.busy
        /\ p.armed /\ ~p.inner =>
             p.nb_trans + (IF p.dir = "IN" THEN p.size ELSE p.ctn) <= p.buf_size
        /\ p.moved <= p.buf_size

(* A job that is not suspended is being worked on. *)
BusyIsWorkedOn ==
    p.busy /\ pc = "idle" /\ connected /\ p.sof /\ ~p.wakeup
        /\ p.suspend_start = 0 /\ p.resume_start = 0
        /\ p.odd \cap {"lost", "stray", "again", "raced"} = {} =>
      p.enabled /\ ((p.armed /\ ~p.frozen) \/ Pending(p) \/ p.pipes_error)

(* Neither the main loop nor an interrupt waits for a pipe that nothing will freeze, as
   long as no resume unfreezes a pipe without a transfer. *)
NeverHangs == "stray" \notin p.odd => ~Waiting /\ ~Hung

(* Every job ends while its device stays, at the latest with its timeout, unless a resume
   that unfroze a pipe without a transfer has made the interrupt wait for ever: then no
   timeout is counted any more.  A wait of the main loop is ended by the timeout. *)
JobEnds == p.busy ~> ~p.busy \/ ~connected \/ Hung
=============================================================================
