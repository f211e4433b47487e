--------------------------- MODULE UhdPipesProofs ---------------------------
(***************************************************************************)
(* The safety of the jobs of a pipe, for every size of the pipe, of the    *)
(* transfers and of the buffers, any timeout and any number of jobs.       *)
(*                                                                         *)
(* Every function of the driver keeps the number of accepted jobs, which   *)
(* is all that CalledBackOnce needs.  The other properties rest on Sane,   *)
(* what holds of the pipe at a place of the main loop until a resume       *)
(* unfreezes a pipe that has no transfer: a job is either still in the     *)
(* hands of uhd_ep_run(), and then the pipe is frozen and untouched, or    *)
(* its transfer is in the pipe, or is over with an interrupt to be served; *)
(* and the sizes of the transfer are those of the rest of the job.         *)
(***************************************************************************)
EXTENDS UhdPipesProps, TLAPS

Fields == {"busy", "buf_size", "nb_trans", "timeout", "b_shortpacket", "buf_internal",
    "enabled", "dir", "frozen", "inrq", "ctn", "size", "autozlp", "inner", "ie", "done_ie",
    "flags", "armed", "old", "due", "pipes_error", "pipes_unfreeze", "suspend_start",
    "resume_start", "sof", "wakeup", "dev", "moved", "short", "closed", "ended", "report",
    "odd"}
Flags  == {"done", "stall", "error"}
Oddity == {"memory", "hung", "stray", "again", "lost", "raced", "NULL"}
Places == {"idle", "run", "found", "check", "wait", "launch", "enable", "finish", "call",
           "freeze", "suspend"}

(* What holds of the record even after a stray resume *)
Steady(s) ==
    /\ DOMAIN s = Fields
    /\ s.busy \in BOOLEAN /\ s.enabled \in BOOLEAN /\ s.dev \in BOOLEAN
    /\ s.sof \in BOOLEAN /\ s.wakeup \in BOOLEAN
    /\ s.dir \in Directions /\ s.flags \subseteq Flags
    /\ s.buf_size \in Sizes \cup {0} /\ s.timeout \in 0 .. TIMEOUT
    /\ s.suspend_start \in 0 .. 3 /\ s.resume_start \in 0 .. RESUME
    /\ s.ended \in Nat /\ s.report.status \in Statuses \cup {"none"}
    /\ s.odd \subseteq Oddity

----------------------------------------------------------------------------
(* What every function of the driver keeps: the record, what went wrong before, and the
   number of jobs accepted. *)

Count(s) == s.ended + (IF s.busy THEN 1 ELSE 0)
Keeps(s, t) ==
    /\ Steady(t) /\ s.odd \subseteq t.odd /\ (t.dev => s.dev)
    /\ "memory" \notin t.odd => Count(t) = Count(s)

LEMMA KeepsChain ==
    ASSUME NEW s, NEW t, NEW u, Keeps(s, t), Keeps(t, u) PROVE Keeps(s, u)
BY DEF Keeps

LEMMA FrozenKeeps ==
    ASSUME NEW s, Steady(s)
    PROVE  Keeps(s, Frozen(s))
BY DEF Keeps, Count, Steady, Fields, Frozen

LEMMA UnfrozenKeeps ==
    ASSUME NEW s, Steady(s)
    PROVE  Keeps(s, Unfrozen(s))
BY DEF Keeps, Count, Steady, Fields, Unfrozen

LEMMA DisabledKeeps ==
    ASSUME NEW s, Steady(s)
    PROVE  Keeps(s, Disabled(s))
BY DEF Keeps, Count, Steady, Fields, Disabled, Flags

LEMMA AbortedKeeps ==
    ASSUME NEW s, Steady(s)
    PROVE  Keeps(s, Aborted(s)) /\ Aborted(s).busy = s.busy
BY DEF Keeps, Count, Steady, Fields, Aborted, Disabled, Flags

LEMMA CalledBackKeeps ==
    ASSUME NEW s, Steady(s),
           NEW status \in Statuses, s.busy \/ "memory" \in s.odd
    PROVE  Keeps(s, CalledBack(s, status))
BY DEF Keeps, Count, Steady, Fields, CalledBack

LEMMA FinishKeeps ==
    ASSUME NEW s, Steady(s), NEW status \in Statuses
    PROVE  Keeps(s, uhd_pipe_finish_job(s, status))
<1>1. CASE s.busy   BY <1>1, CalledBackKeeps DEF uhd_pipe_finish_job
<1>2. CASE ~s.busy  BY <1>2 DEF uhd_pipe_finish_job, Keeps
<1> QED  BY <1>1, <1>2

LEMMA AbortKeeps ==
    ASSUME NEW s, Steady(s), NEW status \in Statuses
    PROVE  Keeps(s, uhd_ep_abort_pipe(s, status))
<1>1. Keeps(s, Aborted(s))  BY AbortedKeeps
<1>2. Keeps(Aborted(s), uhd_pipe_finish_job(Aborted(s), status))
  BY <1>1, FinishKeeps DEF Keeps
<1> QED  BY <1>1, <1>2, KeepsChain DEF uhd_ep_abort_pipe

LEMMA AccountedKeeps ==
    ASSUME NEW s, Steady(s) PROVE Keeps(s, Accounted(s))
BY DEF Keeps, Count, Steady, Fields, Accounted, AccountOut, AccountIn

LEMMA PreparedKeeps ==
    ASSUME NEW s, Steady(s) PROVE Keeps(s, Prepared(s))
BY DEF Keeps, Count, Steady, Fields, Prepared, PreparedOut, PreparedIn

LEMMA LaunchedKeeps ==
    ASSUME NEW s, Steady(s) PROVE Keeps(s, Launched(s))
BY DEF Keeps, Count, Steady, Fields, Launched, Unfrozen

LEMMA EnabledKeeps ==
    ASSUME NEW s, Steady(s) PROVE Keeps(s, InterruptEnabled(s))
BY DEF Keeps, Count, Steady, Fields, InterruptEnabled

LEMMA CompleteKeeps ==
    ASSUME NEW s, Steady(s) PROVE Keeps(s, Complete(s))
BY FrozenKeeps DEF Complete, Keeps, Count

LEMMA OddKeeps ==
    ASSUME NEW s, Steady(s), NEW what \in Oddity PROVE Keeps(s, Odd(s, what))
BY DEF Keeps, Count, Steady, Fields, Odd

LEMMA NextKeeps ==
    ASSUME NEW t, Steady(t), NEW memory \in BOOLEAN
    PROVE  Keeps(t, NextTransfer(t, memory))
<1>1. Keeps(t, Odd(t, "hung")) /\ Keeps(t, Odd(t, "memory"))  BY OddKeeps DEF Oddity
<1>2. Keeps(t, uhd_pipe_finish_job(Odd(t, "memory"), "NOERROR"))
  <2>1. Keeps(Odd(t, "memory"), uhd_pipe_finish_job(Odd(t, "memory"), "NOERROR"))
    BY <1>1, FinishKeeps DEF Keeps, Statuses
  <2> QED  BY <1>1, <2>1, KeepsChain
<1>3. Keeps(t, InterruptEnabled(Launched(Prepared(t))))
  <2>1. Keeps(t, Prepared(t))  BY PreparedKeeps
  <2>2. Keeps(Prepared(t), Launched(Prepared(t)))  BY <2>1, LaunchedKeeps DEF Keeps
  <2>3. Keeps(Launched(Prepared(t)), InterruptEnabled(Launched(Prepared(t))))
    BY <2>2, EnabledKeeps DEF Keeps
  <2> QED  BY <2>1, <2>2, <2>3, KeepsChain
<1> QED  BY <1>1, <1>2, <1>3, Zenon DEF NextTransfer

LEMMA TransferKeeps ==
    ASSUME NEW s, Steady(s), NEW memory \in BOOLEAN
    PROVE  Keeps(s, uhd_pipe_trans_complet(s, memory))
<1> DEFINE t == Accounted(s)
<1>1. Keeps(s, t)  BY AccountedKeeps
<1>2. Keeps(s, s)  BY DEF Keeps
<1>3. Keeps(s, uhd_pipe_finish_job(Complete(t), "NOERROR"))
  <2>1. Keeps(t, Complete(t))  BY <1>1, CompleteKeeps DEF Keeps
  <2>2. Keeps(Complete(t), uhd_pipe_finish_job(Complete(t), "NOERROR"))
    BY <2>1, FinishKeeps DEF Keeps, Statuses
  <2> QED  BY <1>1, <2>1, <2>2, KeepsChain
<1>4. Keeps(s, NextTransfer(t, memory))
  <2>1. Keeps(t, NextTransfer(t, memory))  BY <1>1, NextKeeps DEF Keeps
  <2> QED  BY <1>1, <2>1, KeepsChain
<1> QED  BY <1>2, <1>3, <1>4, Zenon DEF uhd_pipe_trans_complet

LEMMA InterruptKeeps ==
    ASSUME NEW s, Steady(s), NEW memory \in BOOLEAN
    PROVE  Keeps(s, uhd_pipe_interrupt(s, memory))
<1> DEFINE Acked(flag) == [s EXCEPT !.ie = FALSE, !.pipes_error = FALSE, !.flags = @ \ {flag}]
<1>1. \A flag : Keeps(s, Acked(flag))  BY DEF Keeps, Count, Steady, Fields
<1>2. Keeps(s, [Frozen(s) EXCEPT !.flags = @ \ {"error"}, !.pipes_error = TRUE])
  BY DEF Keeps, Count, Steady, Fields, Frozen
<1>3. Keeps(s, uhd_pipe_trans_complet(Frozen(Acked("done")), memory))
  <2>1. Keeps(Acked("done"), Frozen(Acked("done")))  BY <1>1, FrozenKeeps DEF Keeps
  <2>2. Keeps(Frozen(Acked("done")), uhd_pipe_trans_complet(Frozen(Acked("done")), memory))
    BY <2>1, TransferKeeps DEF Keeps
  <2> QED  BY <1>1, <2>1, <2>2, KeepsChain
<1>4. Keeps(s, uhd_pipe_trans_complet(Acked("done"), memory))
  <2>1. Keeps(Acked("done"), uhd_pipe_trans_complet(Acked("done"), memory))
    BY <1>1, TransferKeeps DEF Keeps
  <2> QED  BY <1>1, <2>1, KeepsChain
<1>5. ASSUME NEW flag PROVE Keeps(s, uhd_ep_abort_pipe(Acked(flag), "STALL"))
  <2>1. Keeps(s, Acked(flag))  BY <1>1
  <2>2. Keeps(Acked(flag), uhd_ep_abort_pipe(Acked(flag), "STALL"))
    BY <2>1, AbortKeeps DEF Keeps, Statuses
  <2> QED  BY <2>1, <2>2, KeepsChain
<1>6. ASSUME NEW flag PROVE Keeps(s, uhd_ep_abort_pipe(Acked(flag), "ERROR"))
  <2>1. Keeps(s, Acked(flag))  BY <1>1
  <2>2. Keeps(Acked(flag), uhd_ep_abort_pipe(Acked(flag), "ERROR"))
    BY <2>1, AbortKeeps DEF Keeps, Statuses
  <2> QED  BY <2>1, <2>2, KeepsChain
<1> QED  BY <1>2, <1>3, <1>4, <1>5, <1>6, Zenon DEF uhd_pipe_interrupt

LEMMA ExpiredKeeps ==
    ASSUME NEW s, Steady(s) PROVE Keeps(s, Expired(s))
<1> DEFINE u == [s EXCEPT !.timeout = 0]
<1>1. Keeps(s, u)  BY PipeAssumption DEF Keeps, Count, Steady, Fields
<1>2. Keeps(s, uhd_ep_abort_pipe(u, "TIMEOUT"))
  BY <1>1, AbortKeeps, KeepsChain DEF Keeps, Statuses
<1>3. s.timeout > 1 => Keeps(s, [s EXCEPT !.timeout = @ - 1])
  BY PipeAssumption DEF Keeps, Count, Steady, Fields
<1>4. Keeps(s, s)  BY DEF Keeps
<1> QED  BY <1>2, <1>3, <1>4, Zenon DEF Expired

LEMMA RaisedKeeps ==
    ASSUME NEW s, Steady(s) PROVE Keeps(s, Raised(s))
BY DEF Keeps, Count, Steady, Fields, Raised, Flags

LEMMA RestoredKeeps ==
    ASSUME NEW s, Steady(s) PROVE Keeps(s, Restored(s))
<1>1. Keeps(s, Unfrozen(s))  BY UnfrozenKeeps
<1>2. Keeps(s, Odd(Unfrozen(s), "stray"))
  BY <1>1, OddKeeps, KeepsChain DEF Keeps, Oddity
<1>3. Keeps(s, s)  BY DEF Keeps
<1> QED  BY <1>1, <1>2, <1>3, Zenon DEF Restored

LEMMA SofKeeps ==
    ASSUME NEW s, Steady(s) PROVE Keeps(s, uhd_sof_interrupt(s))
<1>1. Keeps(s, [s EXCEPT !.suspend_start = 0, !.sof = FALSE, !.wakeup = TRUE])
  BY DEF Keeps, Count, Steady, Fields
<1>2. s.suspend_start > 1 => Keeps(s, [s EXCEPT !.suspend_start = @ - 1])
  BY DEF Keeps, Count, Steady, Fields
<1>3. Keeps(s, Restored([s EXCEPT !.resume_start = 0]))
  <2>1. Keeps(s, [s EXCEPT !.resume_start = 0])
    BY PipeAssumption DEF Keeps, Count, Steady, Fields
  <2> QED  BY <2>1, RestoredKeeps, KeepsChain DEF Keeps
<1>4. s.resume_start > 1 => Keeps(s, [s EXCEPT !.resume_start = @ - 1])
  BY PipeAssumption DEF Keeps, Count, Steady, Fields
<1>5. Keeps(s, Raised(Expired(s)))
  BY ExpiredKeeps, RaisedKeeps, KeepsChain DEF Keeps
<1> QED  BY <1>1, <1>2, <1>3, <1>4, <1>5, Zenon DEF uhd_sof_interrupt

(* Accept, once it is known whether the pipe was lost *)
Accepted(s, size, short) ==
    [s EXCEPT !.busy = TRUE, !.buf_size = size, !.nb_trans = 0, !.timeout = TIMEOUT,
              !.b_shortpacket = short, !.ctn = 0, !.size = 0,
              !.moved = 0, !.short = FALSE, !.closed = short, !.report = NoReport]

LEMMA AcceptSteady ==
    ASSUME NEW s, Steady(s), NEW size \in Sizes, NEW short \in BOOLEAN
    PROVE  LET t == Accepted(s, size, short)
           IN  Steady(t) /\ t.busy /\ t.ended = s.ended /\ t.odd = s.odd /\ t.dev = s.dev
<1> DEFINE t == Accepted(s, size, short)
<1>1. NoReport.status = "none"  BY DEF NoReport
<1>2. t.busy /\ t.ended = s.ended /\ t.odd = s.odd /\ t.report = NoReport /\ t.dev = s.dev
  BY DEF Steady, Fields, Accepted
<1>3. t.timeout = TIMEOUT /\ t.buf_size = size  BY DEF Steady, Fields, Accepted
<1>4. /\ DOMAIN t = Fields /\ t.flags = s.flags /\ t.dir = s.dir /\ t.sof = s.sof
      /\ t.enabled = s.enabled /\ t.dev = s.dev /\ t.wakeup = s.wakeup
      /\ t.suspend_start = s.suspend_start /\ t.resume_start = s.resume_start
      /\ t.busy = TRUE
  BY DEF Steady, Fields, Accepted
<1> HIDE DEF t
<1>5. TIMEOUT \in 0 .. TIMEOUT  BY PipeAssumption
<1>6. /\ s.ended \in Nat /\ s.odd \subseteq Oddity /\ s.flags \subseteq Flags
      /\ s.dir \in Directions /\ s.sof \in BOOLEAN /\ s.enabled \in BOOLEAN
      /\ s.dev \in BOOLEAN /\ s.wakeup \in BOOLEAN /\ s.suspend_start \in 0 .. 3
      /\ s.resume_start \in 0 .. RESUME
  BY DEF Steady
<1>7. Steady(t)
  <2>1. t.report.status \in Statuses \cup {"none"}  BY <1>1, <1>2
  <2>2. t.buf_size \in Sizes \cup {0} /\ t.timeout \in 0 .. TIMEOUT  BY <1>2, <1>3, <1>5
  <2> QED  BY <1>2, <1>4, <1>6, <2>1, <2>2 DEF Steady
<1> QED  BY <1>2, <1>7 DEF t

LEMMA UnpluggedKeeps ==
    ASSUME NEW s, Steady(s) PROVE Keeps(s, Unplugged(s))
<1> DEFINE u == uhd_pipe_finish_job(Disabled(s), "DISCONNECT")
<1>1. Keeps(s, Disabled(s))  BY DisabledKeeps
<1>2. Keeps(Disabled(s), u)  BY <1>1, FinishKeeps DEF Keeps, Statuses
<1>3. Keeps(s, u)  BY <1>1, <1>2, KeepsChain
<1> HIDE DEF u
<1>4. Keeps(u, [u EXCEPT !.dev = FALSE, !.wakeup = FALSE, !.suspend_start = 0,
                         !.resume_start = 0])
  BY <1>3, PipeAssumption DEF Keeps, Count, Steady, Fields
<1> QED  BY <1>3, <1>4, KeepsChain DEF Unplugged, u

(* The jobs that were accepted are those called back and the one that is under way. *)
Counted ==
    /\ Steady(p) /\ pc \in Places /\ runs \in Nat
    /\ pc \in {"finish", "call"} => "memory" \in p.odd
    /\ ~connected => ~p.dev
    /\ CalledBackOnce

LEMMA CountedKept ==
    ASSUME Counted, Keeps(p, p'), runs' = runs, pc' \in Places,
           connected => connected' \/ ~p'.dev,
           pc' \in {"finish", "call"} => pc \in {"finish", "call"} \/ "memory" \in p'.odd
    PROVE  Counted' /\ p.odd \subseteq p'.odd
BY DEF Counted, Keeps, Count, CalledBackOnce, Steady

LEMMA CountedInit == Init => Counted
BY PipeAssumption
   DEF Init, Counted, Steady, Fields, Directions, Statuses, NoReport, Places, CalledBackOnce,
       Flags, Oddity

LEMMA CountedStep == Counted /\ [Next]_vars => Counted' /\ p.odd \subseteq p'.odd
<1> SUFFICES ASSUME Counted, [Next]_vars PROVE Counted' /\ p.odd \subseteq p'.odd
  OBVIOUS
<1>0. Steady(p) /\ pc \in Places /\ runs \in Nat /\ Keeps(p, p)
  BY DEF Counted, Keeps
<1> USE PipeAssumption
<1>1. CASE PipeInterrupt
  <2> DEFINE q == [p EXCEPT !.due = FALSE]
  <2>1. Keeps(p, q)  BY <1>0 DEF Keeps, Count, Steady, Fields
  <2>2. PICK memory \in BOOLEAN : p' = uhd_pipe_interrupt(q, memory)
    BY <1>1 DEF PipeInterrupt
  <2>3. Keeps(q, p')  BY <2>1, <2>2, InterruptKeeps DEF Keeps
  <2>4. Keeps(p, p')  BY <2>1, <2>3, KeepsChain
  <2> QED  BY <1>0, <1>1, <2>4, CountedKept DEF PipeInterrupt
<1>2. CASE Sof
  <2> DEFINE q == [p EXCEPT !.old = FALSE]
             s == uhd_sof_interrupt(q)
  <2>1. Keeps(p, q)  BY <1>0 DEF Keeps, Count, Steady, Fields
  <2>2. Keeps(q, s)  BY <2>1, SofKeeps DEF Keeps
  <2>3. Keeps(s, [s EXCEPT !.due = Pending(s)])
    BY <2>2 DEF Keeps, Count, Steady, Fields
  <2>4. p' = [s EXCEPT !.due = Pending(s)]  BY <1>2 DEF Sof
  <2>5. Keeps(q, p')  BY <2>2, <2>3, <2>4, KeepsChain
  <2>6. Keeps(p, p')  BY <2>1, <2>5, KeepsChain
  <2> QED  BY <1>0, <1>2, <2>6, CountedKept DEF Sof
<1>3. CASE Wakeup
  <2>1. Keeps(p, p')  BY <1>0, <1>3 DEF Wakeup, Keeps, Count, Steady, Fields
  <2> QED  BY <1>0, <1>3, <2>1, CountedKept DEF Wakeup
<1>4. CASE Connect
  <2>1. Keeps(p, p')  BY <1>0, <1>4 DEF Connect, Keeps, Count, Steady, Fields
  <2> QED  BY <1>0, <1>4, <2>1, CountedKept DEF Connect
<1>5. CASE Install
  <2>1. PICK dir \in Directions : p' = [uhd_ep_alloc(p, dir) EXCEPT !.dev = TRUE]
    BY <1>5 DEF Install
  <2>2. Steady(p') /\ p'.odd = p.odd /\ p'.ended = p.ended /\ p'.busy = p.busy
    BY <1>0, <2>1 DEF uhd_ep_alloc, Steady, Fields
  <2>3. connected' = connected /\ connected /\ pc' = pc /\ runs' = runs
    BY <1>5 DEF Install, Sofs
  <2> QED  BY <2>2, <2>3 DEF Counted, CalledBackOnce
<1>6. CASE Disconnect
  <2>1. Keeps(p, [p EXCEPT !.wakeup = FALSE, !.suspend_start = 0, !.resume_start = 0])
    BY <1>0 DEF Keeps, Count, Steady, Fields
  <2>2. Keeps(p, p')  BY <1>0, <1>6, <2>1, UnpluggedKeeps DEF Disconnect
  <2>3. ~p'.dev
    <3>1. ASSUME NEW t PROVE
            /\ DOMAIN t = Fields => ~[t EXCEPT !.dev = FALSE, !.wakeup = FALSE,
                                               !.suspend_start = 0, !.resume_start = 0].dev
            /\ DOMAIN t = Fields /\ ~t.dev =>
                 ~[t EXCEPT !.wakeup = FALSE, !.suspend_start = 0, !.resume_start = 0].dev
      BY DEF Fields
    <3>2. ~Unplugged(p).dev
      BY <1>0 DEF Unplugged, uhd_pipe_finish_job, CalledBack, Disabled, Steady, Fields
    <3> QED  BY <1>0, <1>6, <3>1, <3>2 DEF Disconnect, Steady
  <2> QED  BY <1>0, <1>6, <2>2, <2>3, CountedKept DEF Disconnect
<1>7. CASE Run \/ Refuse \/ Ended \/ Finish
  BY <1>0, <1>7, CountedKept, Zenon DEF Run, Refuse, Ended, Finish, Main, Goes, Places, Counted
<1>8. CASE GetPipe
  <2>1. Keeps(p, p')  BY <1>0, <1>8, OddKeeps DEF GetPipe, Oddity
  <2> QED  BY <1>0, <1>8, <2>1, CountedKept DEF GetPipe, Main, Goes, Places
<1>9. CASE Accept
  <2> DEFINE q == IF p.enabled THEN p ELSE Odd(p, "lost")
  <2>1. Keeps(p, q) /\ q.busy = p.busy
    BY <1>0, OddKeeps DEF Oddity, Odd, Steady, Fields
  <2>2. PICK size \in Sizes, short \in BOOLEAN : p' = Accepted(q, size, short)
    BY <1>9 DEF Accept, Accepted
  <2>3. Steady(p') /\ p'.busy /\ p'.ended = q.ended /\ p'.odd = q.odd /\ p'.dev = q.dev
    <3>1. Steady(q)  BY <2>1 DEF Keeps
    <3> HIDE DEF q
    <3> QED  BY <2>2, <3>1, AcceptSteady
  <2>4. ~q.busy /\ runs' = runs + 1 /\ pc' = "check" /\ connected' = connected
    BY <1>9, <2>1 DEF Accept, Main, Goes
  <2>5. "memory" \notin q.odd => runs = q.ended
    <3>1. "memory" \notin q.odd => q.ended = p.ended /\ "memory" \notin p.odd
      BY <1>0, <2>1, <2>4 DEF Keeps, Count, Steady
    <3>2. "memory" \notin p.odd => runs = p.ended
      BY <1>0, <2>1, <2>4 DEF Counted, CalledBackOnce, Steady
    <3> QED  BY <3>1, <3>2
  <2> QED  BY <1>0, <2>1, <2>3, <2>4, <2>5 DEF Counted, Keeps, Places, CalledBackOnce
<1>10. CASE Check
  BY <1>0, <1>10, AccountedKeeps, CountedKept DEF Check, Main, Goes, Places
<1>11. CASE Prepare
  BY <1>0, <1>11, PreparedKeeps, CountedKept DEF Prepare, Main, Goes, Places
<1>12. CASE NoMemory
  <2>1. Keeps(p, p') /\ "memory" \in p'.odd
    BY <1>0, <1>12, OddKeeps DEF NoMemory, Oddity, Odd, Steady, Fields
  <2> QED  BY <1>0, <1>12, <2>1, CountedKept DEF NoMemory, Main, Goes, Places
<1>13. CASE Launch
  BY <1>0, <1>13, LaunchedKeeps, CountedKept DEF Launch, Main, Goes, Places
<1>14. CASE Enable
  BY <1>0, <1>14, EnabledKeeps, CountedKept DEF Enable, Main, Goes, Places
<1>15. CASE Call
  <2>1. Keeps(p, p')  BY <1>0, <1>15, CalledBackKeeps DEF Call, Main, Goes, Counted, Statuses
  <2> QED  BY <1>0, <1>15, <2>1, CountedKept DEF Call, Main, Goes, Places
<1>16. CASE SuspendSave
  <2> DEFINE q == IF p.suspend_start + p.resume_start # 0 \/ p.wakeup THEN Odd(p, "again") ELSE p
  <2>1. Keeps(p, q)  BY <1>0, OddKeeps DEF Oddity
  <2>2. Keeps(q, p')  BY <2>1, <1>16 DEF SuspendSave, Keeps, Count, Steady, Fields
  <2>3. Keeps(p, p')  BY <2>1, <2>2, KeepsChain
  <2> QED  BY <1>0, <1>16, <2>3, CountedKept DEF SuspendSave, Pause, Goes, Places
<1>17. CASE SuspendFreeze
  <2> DEFINE q == IF p.frozen = p.pipes_unfreeze THEN Odd(p, "raced") ELSE p
  <2>1. Keeps(p, q)  BY <1>0, OddKeeps DEF Oddity
  <2>2. Keeps(q, p')  BY <2>1, <1>17, FrozenKeeps DEF SuspendFreeze, Keeps
  <2>3. Keeps(p, p')  BY <2>1, <2>2, KeepsChain
  <2> QED  BY <1>0, <1>17, <2>3, CountedKept DEF SuspendFreeze, Pause, Goes, Places
<1>18. CASE SuspendStart
  <2>1. Keeps(p, p')  BY <1>0, <1>18 DEF SuspendStart, Keeps, Count, Steady, Fields
  <2> QED  BY <1>0, <1>18, <2>1, CountedKept DEF SuspendStart, Pause, Goes, Places
<1>19. CASE uhd_resume
  <2>1. Keeps(p, p')  BY <1>0, <1>19 DEF uhd_resume, Keeps, Count, Steady, Fields
  <2> QED  BY <1>0, <1>19, <2>1, CountedKept DEF uhd_resume, Pause, Goes, Places
<1>20. CASE InPacket
  <2>1. PICK n \in 0 .. PipeSize : p' = Received(p, n)  BY <1>20 DEF InPacket
  <2>2. Keeps(p, p')  BY <1>0, <2>1 DEF Received, Keeps, Count, Steady, Fields, Flags
  <2> QED  BY <1>0, <1>20, <2>2, CountedKept DEF InPacket, DeviceSteps
<1>21. CASE OutPacket
  <2>1. Keeps(p, p')  BY <1>0, <1>21 DEF OutPacket, Sent, Keeps, Count, Steady, Fields, Flags
  <2> QED  BY <1>0, <1>21, <2>1, CountedKept DEF OutPacket, DeviceSteps
<1>22. CASE Stall
  <2>1. Keeps(p, p')  BY <1>0, <1>22 DEF Stall, Keeps, Count, Steady, Fields, Flags
  <2> QED  BY <1>0, <1>22, <2>1, CountedKept DEF Stall, DeviceSteps
<1>23. CASE Error
  <2>1. Keeps(p, p')  BY <1>0, <1>23 DEF Error, Keeps, Count, Steady, Fields, Flags
  <2> QED  BY <1>0, <1>23, <2>1, CountedKept DEF Error, DeviceSteps
<1>24. CASE UNCHANGED vars
  BY <1>24 DEF vars, Counted, CalledBackOnce
<1> QED
  BY <1>1, <1>2, <1>3, <1>4, <1>5, <1>6, <1>7, <1>8, <1>9, <1>10, <1>11, <1>12, <1>13, <1>14,
     <1>15, <1>16, <1>17, <1>18, <1>19, <1>20, <1>21, <1>22, <1>23, <1>24
  DEF Next, Job, Suspend

(* Each accepted job is called back once, for any sizes, timeouts and numbers of jobs. *)
THEOREM CalledBackThen == Spec => []CalledBackOnce
<1>1. Counted => CalledBackOnce  BY DEF Counted
<1> QED  BY CountedInit, CountedStep, <1>1, PTL DEF Spec

----------------------------------------------------------------------------
(* The data of a job, as long as there was no stray resume *)

Bits(s) ==
    /\ s.armed \in BOOLEAN /\ s.frozen \in BOOLEAN /\ s.old \in BOOLEAN
    /\ s.ie \in BOOLEAN /\ s.done_ie \in BOOLEAN /\ s.inner \in BOOLEAN
    /\ s.buf_internal \in BOOLEAN /\ s.autozlp \in BOOLEAN /\ s.b_shortpacket \in BOOLEAN
    /\ s.short \in BOOLEAN /\ s.closed \in BOOLEAN
    /\ s.pipes_error \in BOOLEAN /\ s.pipes_unfreeze \in BOOLEAN
Numbers(s) ==
    /\ s.inrq \in 0 .. MaxInRequests /\ s.size \in 0 .. UHD_ENDPOINT_MAX_TRANS
    /\ s.ctn \in 0 .. UHD_ENDPOINT_MAX_TRANS
    /\ s.nb_trans \in Nat /\ s.moved \in Nat /\ s.moved <= s.buf_size

(* The main loop has a job that is not in the pipe yet. *)
Starting(c) == c \in {"check", "wait", "launch", "finish", "call"}

Resting(s)   == ~s.armed /\ ~s.pipes_error /\ s.frozen /\ s.flags \subseteq {"error"}
Untouched(s) == s.nb_trans = 0 /\ s.moved = 0
Loaded(s)    == s.armed \/ "done" \in s.flags \/ "stall" \in s.flags

(* Who works on the job, with the main loop at c *)
Flow(s, c) ==
    /\ s.dev => s.enabled
    /\ s.enabled /\ s.busy => s.dev
    /\ c \in {"run", "found"} /\ ~s.dev => ~s.enabled /\ ~s.busy
    /\ ~s.busy \/ Starting(c) => Resting(s)
    /\ ~s.dev => ~s.armed /\ s.frozen /\ s.flags = {}
    /\ ~s.armed /\ ~s.frozen => "done" \in s.flags
    /\ s.armed => s.flags \subseteq {"error"}
    /\ "stall" \in s.flags => s.frozen /\ "done" \notin s.flags
    /\ Starting(c) => ~Pending(s) /\ (s.enabled => s.busy)
    /\ Starting(c) /\ s.busy => Untouched(s) /\ (s.enabled \/ "lost" \in s.odd)
    /\ s.busy /\ ~Starting(c) /\ ~Loaded(s) =>
         Untouched(s) /\ Resting(s) /\ s.flags = {} /\ "lost" \in s.odd
    /\ c \in {"finish", "call"} => "memory" \in s.odd
    /\ "hung" \notin s.odd

(* A job before its first transfer *)
Fresh(s, c) ==
    /\ c \in {"check", "wait"} =>
         /\ Untouched(s) /\ s.ctn = 0 /\ s.size = 0 /\ s.buf_size \in Sizes
         /\ IF s.dir = "IN" THEN ~s.closed ELSE s.closed => s.b_shortpacket
    /\ c = "wait" /\ s.dir = "IN" => ~s.buf_internal

Whole(n) == \E m \in Nat : n = m * PipeSize

(* A transfer in the pipe, or over: what it may move fits the job. *)
LoadedIn(s) ==
    /\ Whole(s.nb_trans) /\ s.nb_trans < s.buf_size /\ s.ctn <= s.size
    /\ s.buf_internal = s.inner /\ ~s.closed
    /\ s.inner => s.size = PipeSize /\ s.moved = s.nb_trans /\ s.buf_size - s.nb_trans < PipeSize
    /\ ~s.inner => /\ Whole(s.size) /\ s.moved = s.nb_trans + s.ctn
                   /\ s.nb_trans + s.size <= s.buf_size
    /\ "done" \in s.flags => /\ s.inrq = 0 => s.frozen
                             /\ (s.ctn = s.size /\ s.inrq = 0) \/ (s.ctn < s.size /\ s.short)

LoadedOut(s) ==
    /\ s.nb_trans + s.ctn <= s.buf_size /\ s.size <= s.ctn
    /\ s.ctn <= PipeSize => s.size = 0
    /\ s.autozlp => ~s.b_shortpacket /\ s.nb_trans + s.ctn = s.buf_size
    /\ s.closed => s.b_shortpacket \/ s.autozlp
    /\ "done" \in s.flags => /\ s.moved = s.nb_trans + s.ctn
                             /\ s.size \in {0, s.ctn}
                             /\ s.autozlp => s.short

(* What is still to come of a transfer *)
GoingIn(s)  == s.inrq >= 1 /\ s.size = s.ctn + s.inrq * PipeSize
GoingOut(s) == s.moved = s.nb_trans + s.size /\ (s.size < s.ctn \/ s.ctn = 0)

Loading(s, c) ==
    s.busy /\ (Loaded(s) \/ c = "launch") =>
        IF s.dir = "IN" THEN LoadedIn(s) /\ (s.armed \/ c = "launch" => GoingIn(s))
                        ELSE LoadedOut(s) /\ (s.armed \/ c = "launch" => GoingOut(s))

(* What the last job was called back with *)
Truthful(s) ==
    s.report.status = "NOERROR" /\ "memory" \notin s.odd =>
        /\ s.report.nb = s.report.moved
        /\ s.report.nb = s.report.size \/ s.report.short
        /\ s.report.closed => s.report.short

(* A pipe that is frozen with its transfer is unfrozen by the resume. *)
Suspending(s, c) ==
    c = "suspend" \/ s.suspend_start > 0 \/ s.wakeup \/ s.resume_start > 0
Worked(s, c) ==
    s.busy /\ ~Starting(c) /\ s.odd \cap {"lost", "again", "raced"} = {} =>
        /\ s.enabled /\ Loaded(s)
        /\ c # "enable" => s.ie /\ s.done_ie
        /\ s.armed /\ s.frozen => s.pipes_error \/ (s.pipes_unfreeze /\ Suspending(s, c))

Sane(s, c) ==
    /\ Bits(s) /\ Numbers(s) /\ Truthful(s)
    /\ Flow(s, c) /\ Fresh(s, c) /\ Loading(s, c) /\ Worked(s, c)

LEMMA SizeIsNat == \A n \in Sizes \cup {0} : n \in Nat
BY PipeAssumption

LEMMA WholeSum ==
    ASSUME NEW m \in Nat, NEW n \in Nat, Whole(m), Whole(n) PROVE Whole(m + n)
<1>1. PICK i \in Nat : m = i * PipeSize  BY DEF Whole
<1>2. PICK j \in Nat : n = j * PipeSize  BY DEF Whole
<1>3. m + n = (i + j) * PipeSize  BY <1>1, <1>2, PipeAssumption
<1> QED  BY <1>3 DEF Whole

LEMMA Division ==
    ASSUME NEW n \in Nat
    PROVE  /\ n % PipeSize \in 0 .. PipeSize - 1 /\ n \div PipeSize \in Nat
           /\ n = ((n \div PipeSize) * PipeSize) + (n % PipeSize)
BY PipeAssumption

LEMMA Quotient ==
    ASSUME NEW q \in Nat, NEW r \in 0 .. PipeSize - 1
    PROVE  /\ ((q * PipeSize) + r) % PipeSize = r
           /\ ((q * PipeSize) + r) \div PipeSize = q
BY PipeAssumption

LEMMA Cancel ==
    ASSUME NEW q \in Nat, NEW m \in Nat, q * PipeSize <= m * PipeSize PROVE q <= m
BY PipeAssumption

(* The tail of a job is what is left over of whole packets. *)
LEMMA LeftOver ==
    ASSUME NEW m \in Nat, NEW n \in Nat, Whole(m), m <= n, n - m < PipeSize
    PROVE  n % PipeSize = n - m
<1>1. PICK q \in Nat : m = q * PipeSize  BY DEF Whole
<1>2. PICK r \in 0 .. PipeSize - 1 : r = n - m  BY PipeAssumption
<1>3. n = (q * PipeSize) + r  BY <1>1, <1>2, PipeAssumption
<1>4. n % PipeSize = r  BY <1>3, Quotient
<1> QED  BY <1>2, <1>4, Zenon

(* A pipe that has nothing to do any more, when its job is called back *)
Stopped(s, c) ==
    /\ Bits(s) /\ Numbers(s) /\ Fresh(s, c) /\ Truthful(s)
    /\ ~s.armed /\ s.frozen /\ s.flags \subseteq {"error"} /\ (s.dev => s.enabled)
    /\ ~s.dev => s.flags = {}
    /\ c \in {"run", "found"} => s.dev \/ ~s.enabled
    /\ Starting(c) => ~s.enabled
    /\ c \in {"finish", "call"} => "memory" \in s.odd
    /\ "hung" \notin s.odd /\ (~s.busy => ~s.pipes_error)

(* What it is called back with is true. *)
Honest(s) ==
    /\ s.nb_trans = s.moved
    /\ s.nb_trans = s.buf_size \/ s.short
    /\ s.closed => s.short

LEMMA CalledBackSane ==
    ASSUME NEW s, NEW c, Steady(s), NEW status \in Statuses, Stopped(s, c),
           status = "NOERROR" => Honest(s) \/ "memory" \in s.odd
    PROVE  Sane(CalledBack(s, status), c)
<1> DEFINE t == CalledBack(s, status)
<1>1. Bits(t)
  BY DEF Sane, Steady, Fields, Bits, CalledBack, Stopped, Honest
<1>2. Numbers(t)
  BY DEF Sane, Steady, Fields, Numbers, CalledBack, Stopped, Honest
<1>3. Flow(t, c)
  BY DEF Sane, Steady, Fields, Flow, Pending, Flags, Starting, Resting, Untouched,
      Loaded, CalledBack, Stopped, Honest
<1>4. Fresh(t, c)
  BY DEF Sane, Steady, Fields, Fresh, Untouched, CalledBack, Stopped, Honest
<1>5. Loading(t, c)
  BY DEF Sane, Steady, Fields, Loading, LoadedIn, LoadedOut, GoingIn,
      GoingOut, Loaded, CalledBack, Stopped, Honest
<1>6. Truthful(t)
  BY DEF Sane, Steady, Fields, Truthful, CalledBack, Stopped, Honest
<1>7. Worked(t, c)
  BY DEF Sane, Steady, Fields, Worked, Starting, Loaded, Suspending, CalledBack, Stopped, Honest
<1> QED  BY <1>1, <1>2, <1>3, <1>4, <1>5, <1>6, <1>7 DEF Sane

LEMMA FinishSane ==
    ASSUME NEW s, NEW c, Steady(s), NEW status \in Statuses, Stopped(s, c),
           status = "NOERROR" => Honest(s) \/ "memory" \in s.odd
    PROVE  Sane(uhd_pipe_finish_job(s, status), c)
<1>1. CASE s.busy   BY <1>1, CalledBackSane DEF uhd_pipe_finish_job
<1>2. CASE ~s.busy
  BY <1>2 DEF uhd_pipe_finish_job, Stopped, Sane, Flow, Loading, Worked, Pending, Resting, Starting
<1> QED  BY <1>1, <1>2

LEMMA AbortSane ==
    ASSUME NEW s, NEW c, Steady(s), NEW status \in Statuses \ {"NOERROR"}, ~Starting(c),
           Bits(s), Numbers(s), Truthful(s), "hung" \notin s.odd,
           ~s.busy => ~s.pipes_error, c \in {"run", "found"} => s.dev
    PROVE  Sane(uhd_ep_abort_pipe(s, status), c)
<1>1. Steady(Aborted(s))  BY AbortedKeeps DEF Keeps
<1>2. Stopped(Aborted(s), c)
  <2>1. Bits(Aborted(s))  BY DEF Aborted, Disabled, Bits, Steady, Fields
  <2>2. Numbers(Aborted(s))
    BY PipeAssumption DEF Aborted, Disabled, Numbers, Steady, Fields
  <2>3. Truthful(Aborted(s))  BY DEF Aborted, Disabled, Truthful, Steady, Fields
  <2>4. Fresh(Aborted(s), c)  BY DEF Fresh, Starting
  <2> QED  BY <2>1, <2>2, <2>3, <2>4 DEF Aborted, Disabled, Stopped, Steady, Fields, Starting
<1> QED  BY <1>1, <1>2, FinishSane DEF uhd_ep_abort_pipe

LEMMA RaisedSane ==
    ASSUME NEW s, NEW c, Steady(s), Sane(s, c)
    PROVE  Sane(Raised(s), c)
<1> DEFINE t == Raised(s)
<1>1. Bits(t)
  BY DEF Sane, Steady, Fields, Bits, Raised
<1>2. Numbers(t)
  BY DEF Sane, Steady, Fields, Numbers, Raised
<1>3. Flow(t, c)
  BY DEF Sane, Steady, Fields, Flow, Pending, Flags, Starting, Resting, Untouched,
      Loaded, Raised
<1>4. Fresh(t, c)
  BY DEF Sane, Steady, Fields, Fresh, Untouched, Raised
<1>5. Loading(t, c)
  BY DEF Sane, Steady, Fields, Loading, LoadedIn, LoadedOut, GoingIn,
      GoingOut, Loaded, Raised
<1>6. Truthful(t)
  BY DEF Sane, Steady, Fields, Truthful, Raised
<1>7. Worked(t, c)
  BY DEF Sane, Steady, Fields, Worked, Starting, Loaded, Suspending, Raised
<1> QED  BY <1>1, <1>2, <1>3, <1>4, <1>5, <1>6, <1>7 DEF Sane

(* A transfer that is over, in the hands of its interrupt *)
Taken(s) ==
    /\ Bits(s) /\ Numbers(s) /\ Truthful(s)
    /\ s.busy /\ s.enabled /\ s.dev /\ ~s.armed /\ ~s.pipes_error
    /\ s.flags \subseteq {"error"} /\ "hung" \notin s.odd
    /\ IF s.dir = "IN"
       THEN /\ Whole(s.nb_trans) /\ s.nb_trans < s.buf_size /\ s.ctn <= s.size
            /\ s.buf_internal = s.inner /\ ~s.closed
            /\ s.inner => /\ s.size = PipeSize /\ s.moved = s.nb_trans
                          /\ s.buf_size - s.nb_trans < PipeSize
            /\ ~s.inner => /\ Whole(s.size) /\ s.moved = s.nb_trans + s.ctn
                           /\ s.nb_trans + s.size <= s.buf_size
            /\ s.inrq = 0 => s.frozen
            /\ (s.ctn = s.size /\ s.inrq = 0) \/ (s.ctn < s.size /\ s.short)
       ELSE /\ s.frozen
            /\ s.nb_trans + s.ctn <= s.buf_size /\ s.moved = s.nb_trans + s.ctn
            /\ s.size \in {0, s.ctn}
            /\ s.autozlp => ~s.b_shortpacket /\ s.nb_trans + s.ctn = s.buf_size /\ s.short
            /\ s.closed => s.b_shortpacket \/ s.autozlp

(* Ready for its next transfer *)
Ready(s) ==
    /\ Bits(s) /\ Numbers(s) /\ s.moved = s.nb_trans
    /\ IF s.dir = "IN"
       THEN /\ Whole(s.nb_trans) /\ s.nb_trans < s.buf_size /\ s.ctn = 0
            /\ ~s.buf_internal /\ ~s.closed
       ELSE s.nb_trans <= s.buf_size /\ (s.closed => s.b_shortpacket)

(* The rest of the state while a transfer follows another *)
Between(s, t) ==
    /\ t.busy = s.busy /\ t.enabled = s.enabled /\ t.dev = s.dev /\ t.dir = s.dir
    /\ t.armed = s.armed /\ t.frozen = s.frozen /\ t.flags = s.flags /\ t.odd = s.odd
    /\ t.pipes_error = s.pipes_error /\ t.report = s.report /\ t.buf_size = s.buf_size
    /\ t.ie = s.ie /\ t.done_ie = s.done_ie

LEMMA AccountedIn ==
    ASSUME NEW s, Steady(s), Taken(s), s.dir = "IN"
    PROVE  LET t == Accounted(s)
           IN  /\ Bits(t) /\ Numbers(t) /\ Between(s, t)
               /\ NeedsMore(s, t) => Ready(t) /\ s.frozen
               /\ ~NeedsMore(s, t) => Honest(t)
<1> DEFINE t == AccountIn(s)
           d == IF s.buf_internal THEN Least(s.buf_size % PipeSize, s.ctn) ELSE 0
<1>1. /\ s.buf_size \in Nat /\ s.nb_trans \in Nat /\ s.ctn \in Nat /\ s.size \in Nat
      /\ s.moved \in Nat /\ s.inner \in BOOLEAN
  <2>1. s.buf_size \in Nat  BY SizeIsNat DEF Steady
  <2>2. Numbers(s) /\ Bits(s)  BY DEF Taken
  <2> QED  BY <2>1, <2>2, PipeAssumption DEF Numbers, Bits
<1>2. /\ t.moved = s.moved + d /\ t.buf_internal = FALSE /\ t.ctn = 0
      /\ t.nb_trans = Least(s.nb_trans + s.ctn, s.buf_size)
      /\ t.inrq = s.inrq /\ t.size = s.size /\ t.closed = s.closed /\ t.short = s.short
      /\ Between(s, t)
  BY DEF AccountIn, Steady, Fields, Between
<1>3. t.nb_trans \in Nat /\ t.nb_trans <= s.buf_size /\ t.moved = t.nb_trans
  <2>1. CASE s.inner
    <3>1. s.buf_size % PipeSize = s.buf_size - s.nb_trans
      <4>1. /\ Whole(s.nb_trans) /\ s.nb_trans <= s.buf_size
            /\ s.buf_size - s.nb_trans < PipeSize
        BY <1>1, <2>1 DEF Taken
      <4> QED  BY <1>1, <4>1, LeftOver
    <3>2. d = Least(s.buf_size - s.nb_trans, s.ctn)  BY <2>1, <3>1 DEF Taken
    <3>3. s.moved = s.nb_trans /\ s.nb_trans < s.buf_size  BY <2>1 DEF Taken
    <3> HIDE DEF d, t
    <3> QED  BY <1>1, <1>2, <3>2, <3>3 DEF Least
  <2>2. CASE ~s.inner
    <3>1. d = 0 /\ s.moved = s.nb_trans + s.ctn /\ s.nb_trans + s.size <= s.buf_size
          /\ s.ctn <= s.size
      BY <2>2 DEF Taken
    <3> HIDE DEF d, t
    <3> QED  BY <1>1, <1>2, <3>1 DEF Least
  <2> QED  BY <1>1, <2>1, <2>2
<1>4. Bits(t)  BY DEF Taken, Bits, AccountIn, Steady, Fields
<1>5. Numbers(t)
  <2> HIDE DEF t
  <2> QED  BY <1>1, <1>2, <1>3, PipeAssumption DEF Numbers, Taken, Between
<1>6. ASSUME s.ctn = s.size, t.nb_trans # s.buf_size PROVE Ready(t) /\ s.frozen
  <2> HIDE DEF t
  <2>1. ~s.inner
    <3> SUFFICES ASSUME s.inner PROVE FALSE  BY <1>1
    <3>1. s.nb_trans + s.ctn > s.buf_size  BY <1>1, <1>6, PipeAssumption DEF Taken
    <3> QED  BY <1>1, <1>2, <1>6, <3>1 DEF Least
  <2>2. Whole(s.nb_trans) /\ Whole(s.size) /\ s.nb_trans + s.size <= s.buf_size
        /\ ~s.closed /\ s.frozen
    BY <1>1, <1>6, <2>1 DEF Taken
  <2>3. t.nb_trans = s.nb_trans + s.size  BY <1>1, <1>2, <1>6, <2>2 DEF Least
  <2>4. Whole(t.nb_trans)  BY <1>1, <2>2, <2>3, WholeSum
  <2>5. t.nb_trans < t.buf_size /\ t.dir = "IN"  BY <1>1, <1>2, <1>3, <1>6 DEF Between
  <2> QED  BY <1>2, <1>3, <1>4, <1>5, <2>2, <2>4, <2>5 DEF Ready
<1>7. ASSUME ~(s.ctn = s.size /\ t.nb_trans # s.buf_size) PROVE Honest(t)
  <2> HIDE DEF t
  <2> QED  BY <1>2, <1>3, <1>7 DEF Honest, Taken, Between
<1>8. t.buf_size = s.buf_size  BY <1>2 DEF Between
<1>9. Accounted(s) = t  BY DEF Accounted
<1>10. NeedsMore(s, t) <=> s.ctn = s.size /\ t.nb_trans # s.buf_size
  BY <1>8 DEF NeedsMore
<1> HIDE DEF t
<1> QED  BY <1>2, <1>4, <1>5, <1>6, <1>7, <1>9, <1>10

LEMMA AccountedOut ==
    ASSUME NEW s, Steady(s), Taken(s), s.dir = "OUT"
    PROVE  LET t == Accounted(s)
           IN  /\ Bits(t) /\ Numbers(t) /\ Between(s, t)
               /\ NeedsMore(s, t) => Ready(t)
               /\ ~NeedsMore(s, t) => Honest(t)
<1> DEFINE t == AccountOut(s)
<1>1. /\ s.buf_size \in Nat /\ s.nb_trans \in Nat /\ s.ctn \in Nat /\ s.size \in Nat
      /\ s.moved \in Nat
  <2>1. s.buf_size \in Nat  BY SizeIsNat DEF Steady
  <2>2. Numbers(s)  BY DEF Taken
  <2> QED  BY <2>1, <2>2, PipeAssumption DEF Numbers
<1>2. /\ t.nb_trans = s.nb_trans + (IF s.size = 0 THEN s.ctn ELSE s.size) /\ t.size = 0
      /\ t.ctn = s.ctn /\ t.inrq = s.inrq /\ t.moved = s.moved /\ t.closed = s.closed
      /\ t.short = s.short /\ t.b_shortpacket = s.b_shortpacket /\ Between(s, t)
  BY DEF AccountOut, Steady, Fields, Between
<1>3. Bits(t)  BY DEF Taken, Bits, AccountOut, Steady, Fields
<1> HIDE DEF t
<1>4. t.nb_trans = s.nb_trans + s.ctn  BY <1>1, <1>2 DEF Taken
<1>5. t.moved = t.nb_trans /\ t.nb_trans <= s.buf_size  BY <1>1, <1>2, <1>4 DEF Taken
<1>6. Numbers(t)
  BY <1>1, <1>2, <1>4, <1>5, PipeAssumption DEF Numbers, Taken, Between
<1>7. Accounted(s) = t  BY DEF Accounted, t
<1>8. NeedsMore(s, t) <=> t.nb_trans # s.buf_size \/ s.b_shortpacket
  BY <1>2 DEF NeedsMore, Between
<1>9. ASSUME t.nb_trans # s.buf_size \/ s.b_shortpacket PROVE Ready(t)
  BY <1>2, <1>3, <1>4, <1>5, <1>6, <1>9 DEF Ready, Taken, Between
<1>10. ASSUME t.nb_trans = s.buf_size, ~s.b_shortpacket PROVE Honest(t)
  BY <1>2, <1>5, <1>10 DEF Honest, Taken, Between
<1> QED  BY <1>2, <1>3, <1>6, <1>7, <1>8, <1>9, <1>10

(* The sizes of an IN transfer are whole packets, as many as are requested. *)
LEMMA PreparedInLoaded ==
    ASSUME NEW s, Steady(s), Ready(s), s.dir = "IN"
    PROVE  LET t == PreparedIn(s)
           IN  /\ Bits(t) /\ Numbers(t) /\ Between(s, t)
               /\ "done" \notin s.flags => LoadedIn(t) /\ GoingIn(t)
<1> DEFINE t == PreparedIn(s)
           max == MaxInRequests * PipeSize
           next == Least(s.buf_size - s.nb_trans, Least(max, UHD_ENDPOINT_MAX_TRANS))
           whole == next - (next % PipeSize)
<1>1. /\ s.buf_size \in Nat /\ s.nb_trans \in Nat /\ s.nb_trans < s.buf_size /\ s.ctn = 0
      /\ s.moved = s.nb_trans
  <2>1. s.buf_size \in Nat  BY SizeIsNat DEF Steady
  <2> QED  BY <2>1 DEF Ready, Numbers
<1>2. max \in Nat /\ max >= PipeSize  BY PipeAssumption
<1>3. next \in Nat /\ next <= s.buf_size - s.nb_trans /\ next <= max
      /\ next <= UHD_ENDPOINT_MAX_TRANS
  BY <1>1, <1>2, PipeAssumption DEF Least
<1>4. CASE Internal(s)
  <2>1. /\ t.buf_internal = TRUE /\ t.inner = TRUE /\ t.size = PipeSize /\ t.inrq = 1
        /\ t.ctn = s.ctn /\ t.nb_trans = s.nb_trans /\ t.moved = s.moved
        /\ t.closed = s.closed /\ Between(s, t)
    BY <1>4 DEF PreparedIn, Between, Steady, Fields
  <2>2. s.buf_size - s.nb_trans < PipeSize
    BY <1>1, <1>4, PipeAssumption DEF Internal, Least
  <2>3. Bits(t)  BY <1>4 DEF Ready, Bits, PreparedIn, Steady, Fields
  <2>4. Whole(s.nb_trans) /\ ~s.closed /\ Numbers(s)  BY DEF Ready
  <2> HIDE DEF t
  <2>5. Numbers(t)  BY <1>1, <2>1, <2>4, PipeAssumption DEF Numbers, Between
  <2>6. ASSUME "done" \notin s.flags PROVE LoadedIn(t)
    <3>1. "done" \notin t.flags /\ t.buf_size = s.buf_size  BY <2>1, <2>6 DEF Between
    <3>2. t.nb_trans < t.buf_size /\ t.ctn <= t.size /\ t.buf_size - t.nb_trans < PipeSize
      BY <1>1, <2>1, <2>2, <3>1, PipeAssumption
    <3>3. Whole(t.nb_trans) /\ t.moved = t.nb_trans /\ t.inner /\ t.buf_internal = t.inner
          /\ ~t.closed
      BY <1>1, <2>1, <2>4
    <3> QED  BY <2>1, <3>1, <3>2, <3>3, Zenon DEF LoadedIn
  <2>7. GoingIn(t)  BY <1>1, <2>1, PipeAssumption DEF GoingIn
  <2> QED  BY <2>1, <2>3, <2>5, <2>6, <2>7 DEF t
<1>5. CASE ~Internal(s)
  <2> DEFINE q == whole \div PipeSize
  <2>1. /\ t.inner = FALSE /\ t.size = whole /\ t.inrq = q /\ t.buf_internal = s.buf_internal
        /\ t.ctn = s.ctn /\ t.nb_trans = s.nb_trans /\ t.moved = s.moved
        /\ t.closed = s.closed /\ Between(s, t)
    BY <1>5 DEF PreparedIn, Between, Steady, Fields
  <2>2. Bits(t)  BY <1>5 DEF Ready, Bits, PreparedIn, Steady, Fields
  <2>3. Whole(s.nb_trans) /\ ~s.closed /\ ~s.buf_internal /\ Numbers(s)  BY DEF Ready
  <2>4. next >= PipeSize
    BY <1>1, <1>2, <1>5, PipeAssumption DEF Internal, Least
  <2> HIDE DEF t, next, max
  <2> DEFINE n == next \div PipeSize
  <2>5. /\ n \in Nat /\ next % PipeSize \in 0 .. PipeSize - 1
        /\ next = (n * PipeSize) + (next % PipeSize)
    BY <1>3, Division
  <2>6. whole = n * PipeSize  BY <1>3, <2>5, PipeAssumption
  <2>7. q = n
    <3>1. ((n * PipeSize) + 0) \div PipeSize = n  BY <2>5, Quotient, PipeAssumption
    <3>2. n * PipeSize \in Nat  BY <2>5, PipeAssumption
    <3> HIDE DEF n, whole
    <3> QED  BY <2>6, <3>1, <3>2
  <2>8. n >= 1  BY <2>4, <2>5, PipeAssumption
  <2>9. n <= MaxInRequests
    <3>1. n * PipeSize <= max  BY <1>2, <1>3, <2>5, PipeAssumption
    <3> HIDE DEF n
    <3> QED  BY <2>5, <3>1, Cancel, PipeAssumption DEF max
  <2>10. whole \in Nat /\ whole <= next  BY <1>3, <2>5, PipeAssumption
  <2>11. Whole(whole)  BY <2>5, <2>6 DEF Whole
  <2> HIDE DEF n, whole, q
  <2>12. Numbers(t)
    BY <1>1, <1>3, <2>1, <2>3, <2>5, <2>7, <2>9, <2>10, PipeAssumption DEF Numbers, Between
  <2>13. s.buf_internal = FALSE  BY DEF Ready, Bits
  <2>14. "done" \notin s.flags => LoadedIn(t) /\ GoingIn(t)
    <3>1. t.size = t.ctn + t.inrq * PipeSize /\ t.inrq >= 1 /\ t.ctn <= t.size
      BY <1>1, <2>1, <2>6, <2>7, <2>8, <2>10, PipeAssumption
    <3>2. t.nb_trans + t.size <= t.buf_size /\ t.moved = t.nb_trans + t.ctn
          /\ t.nb_trans < t.buf_size
      BY <1>1, <1>3, <2>1, <2>10 DEF Between
    <3>3. ASSUME "done" \notin s.flags PROVE LoadedIn(t)
      <4>1. "done" \notin t.flags  BY <2>1, <3>3 DEF Between
      <4>2. Whole(t.nb_trans) /\ Whole(t.size) /\ ~t.inner /\ ~t.closed
            /\ t.buf_internal = t.inner
        BY <2>1, <2>3, <2>11, <2>13
      <4> QED  BY <3>1, <3>2, <4>1, <4>2, Zenon DEF LoadedIn
    <3> QED  BY <3>1, <3>3, Zenon DEF GoingIn
  <2> QED  BY <2>1, <2>2, <2>12, <2>14 DEF t
<1> QED  BY <1>4, <1>5

LEMMA PreparedOutLoaded ==
    ASSUME NEW s, Steady(s), Ready(s), s.dir = "OUT"
    PROVE  LET t == PreparedOut(s)
           IN  /\ Bits(t) /\ Numbers(t) /\ Between(s, t)
               /\ "done" \notin s.flags => LoadedOut(t) /\ GoingOut(t)
<1> DEFINE t == PreparedOut(s)
           rest == s.buf_size - s.nb_trans
           cut == UHD_ENDPOINT_MAX_TRANS < rest
           most == UHD_ENDPOINT_MAX_TRANS - (UHD_ENDPOINT_MAX_TRANS % PipeSize)
<1>1. /\ s.buf_size \in Nat /\ s.nb_trans \in Nat /\ s.nb_trans <= s.buf_size
      /\ s.moved = s.nb_trans /\ s.b_shortpacket \in BOOLEAN /\ s.closed \in BOOLEAN
      /\ s.closed => s.b_shortpacket
  <2>1. s.buf_size \in Nat  BY SizeIsNat DEF Steady
  <2> QED  BY <2>1 DEF Ready, Numbers, Bits
<1>2. /\ t.size = 0 /\ t.autozlp = (~cut /\ s.b_shortpacket)
      /\ t.b_shortpacket = (cut /\ s.b_shortpacket) /\ t.ctn = (IF cut THEN most ELSE rest)
      /\ t.nb_trans = s.nb_trans /\ t.moved = s.moved /\ t.closed = s.closed
      /\ t.inrq = s.inrq /\ Between(s, t)
  BY DEF PreparedOut, Between, Steady, Fields
<1>3. most \in Nat /\ most <= UHD_ENDPOINT_MAX_TRANS
  <2>1. UHD_ENDPOINT_MAX_TRANS % PipeSize \in 0 .. PipeSize - 1
    BY Division, PipeAssumption
  <2> QED  BY <2>1, PipeAssumption
<1>4. rest \in Nat /\ cut \in BOOLEAN  BY <1>1
<1>5. Bits(t)  BY <1>4 DEF Ready, Bits, PreparedOut, Steady, Fields
<1> HIDE DEF t, most
<1>6. Numbers(t)
  BY <1>1, <1>2, <1>3, <1>4, PipeAssumption DEF Ready, Numbers, Between
<1>7. t.nb_trans + t.ctn <= t.buf_size  /\ t.ctn \in Nat
      /\ (~cut => t.nb_trans + t.ctn = t.buf_size)
  BY <1>1, <1>2, <1>3, PipeAssumption DEF Between
<1>8. ASSUME "done" \notin s.flags PROVE LoadedOut(t) /\ GoingOut(t)
  <2>1. "done" \notin t.flags /\ t.buf_size = s.buf_size  BY <1>2, <1>8 DEF Between
  <2>2. t.size = 0 /\ t.size <= t.ctn /\ t.moved = t.nb_trans + t.size
        /\ (t.size < t.ctn \/ t.ctn = 0)
    BY <1>1, <1>2, <1>7
  <2>3. t.autozlp => ~t.b_shortpacket /\ ~cut  BY <1>1, <1>2, <1>4
  <2>4. t.closed => t.b_shortpacket \/ t.autozlp  BY <1>1, <1>2, <1>4
  <2> QED  BY <1>7, <2>1, <2>2, <2>3, <2>4, Zenon DEF LoadedOut, GoingOut
<1> QED  BY <1>2, <1>5, <1>6, <1>8 DEF t


(* What the launch of a transfer leaves alone *)
Alike(s, t) ==
    /\ t.busy = s.busy /\ t.enabled = s.enabled /\ t.dev = s.dev /\ t.dir = s.dir
    /\ t.flags = s.flags /\ t.odd = s.odd /\ t.pipes_error = s.pipes_error
    /\ t.report = s.report /\ t.buf_size = s.buf_size /\ t.nb_trans = s.nb_trans
    /\ t.moved = s.moved /\ t.size = s.size /\ t.ctn = s.ctn /\ t.inrq = s.inrq
    /\ t.inner = s.inner /\ t.buf_internal = s.buf_internal /\ t.autozlp = s.autozlp
    /\ t.b_shortpacket = s.b_shortpacket /\ t.closed = s.closed /\ t.short = s.short

LEMMA FrozenBits ==
    ASSUME NEW s, Steady(s), Bits(s) PROVE Bits(Frozen(s))
BY DEF Bits, Frozen, Steady, Fields

LEMMA LaunchedBits ==
    ASSUME NEW s, Steady(s), Bits(s) PROVE Bits(Launched(s))
<1>1. CASE s.enabled   BY <1>1 DEF Bits, Launched, Unfrozen, Steady, Fields
<1>2. CASE ~s.enabled  BY <1>2 DEF Launched
<1> QED  BY <1>1, <1>2

LEMMA EnabledBits ==
    ASSUME NEW s, Steady(s), Bits(s) PROVE Bits(InterruptEnabled(s))
BY DEF Bits, InterruptEnabled, Steady, Fields

LEMMA NextLaunched ==
    ASSUME NEW s, Steady(s), s.enabled, Bits(s)
    PROVE  LET t == InterruptEnabled(Launched(s))
           IN  /\ Alike(s, t) /\ Bits(t)
               /\ t.armed /\ ~t.frozen /\ t.ie /\ t.done_ie
<1> DEFINE t == InterruptEnabled(Launched(s))
<1>1. Alike(s, t)  BY DEF Alike, InterruptEnabled, Launched, Unfrozen, Steady, Fields
<1>2. Bits(t)
  <2>1. Steady(Launched(s)) /\ Bits(Launched(s))  BY LaunchedKeeps, LaunchedBits DEF Keeps
  <2> QED  BY <2>1, EnabledBits
<1>3. t.armed /\ ~t.frozen /\ t.ie /\ t.done_ie
  BY DEF InterruptEnabled, Launched, Unfrozen, Steady, Fields
<1> QED  BY <1>1, <1>2, <1>3

LEMMA AlikeLoaded ==
    ASSUME NEW s, NEW t, Alike(s, t), "done" \notin s.flags
    PROVE  /\ LoadedIn(s) => LoadedIn(t)
           /\ LoadedOut(s) => LoadedOut(t)
           /\ GoingIn(s) => GoingIn(t)
           /\ GoingOut(s) => GoingOut(t)
           /\ Numbers(s) => Numbers(t)
           /\ Truthful(s) => Truthful(t)
BY DEF Alike, LoadedIn, LoadedOut, GoingIn, GoingOut, Numbers, Truthful

LEMMA TransferSane ==
    ASSUME NEW s, NEW c, Steady(s), Taken(s), ~Starting(c), NEW memory \in BOOLEAN
    PROVE  Sane(uhd_pipe_trans_complet(s, memory), c)
<1> DEFINE t == Accounted(s)
           v == Prepared(t)
           w == InterruptEnabled(Launched(v))
<1>1. /\ Bits(t) /\ Numbers(t) /\ Between(s, t)
      /\ NeedsMore(s, t) => Ready(t) /\ (s.dir = "IN" => s.frozen)
      /\ ~NeedsMore(s, t) => Honest(t)
  BY AccountedIn, AccountedOut DEF Steady, Directions
<1>2. Steady(t)  BY AccountedKeeps DEF Keeps
<1>3. /\ s.busy /\ s.enabled /\ s.dev /\ ~s.armed /\ ~s.pipes_error
      /\ s.flags \subseteq {"error"} /\ "hung" \notin s.odd /\ Truthful(s)
      /\ s.dir = "OUT" => s.frozen
      /\ s.inrq = 0 /\ s.dir = "IN" => s.frozen
  BY DEF Taken, Steady, Directions
<1>4. Truthful(t) /\ t.inrq = s.inrq
  <2>1. t.inrq = s.inrq  BY DEF Accounted, AccountIn, AccountOut, Steady, Fields
  <2> QED  BY <1>1, <1>3, <2>1 DEF Truthful, Between
<1>5. \A x : Fresh(x, c)  BY DEF Fresh, Starting
<1> HIDE DEF t
<1>6. ASSUME ~NeedsMore(s, t) PROVE Sane(uhd_pipe_finish_job(Complete(t), "NOERROR"), c)
  <2> DEFINE u == Complete(t)
  <2>1. Steady(u)  BY <1>2, CompleteKeeps DEF Keeps
  <2>2. /\ u.frozen /\ ~u.armed /\ u.flags \subseteq {"error"} /\ u.dev = u.enabled
        /\ u.enabled /\ u.busy /\ "hung" \notin u.odd
    BY <1>1, <1>2, <1>3, <1>4 DEF Complete, Frozen, Steady, Fields, Between, Directions
  <2>3. Bits(u)
    <3>1. Bits(Frozen(t))  BY <1>1, <1>2, FrozenBits
    <3> QED  BY <1>1, <3>1 DEF Complete
  <2>4. Numbers(u)  BY <1>1, <1>2 DEF Complete, Frozen, Steady, Fields, Numbers
  <2>5. Truthful(u)  BY <1>2, <1>4 DEF Complete, Frozen, Steady, Fields, Truthful
  <2>6. Honest(u)  BY <1>1, <1>2, <1>6 DEF Complete, Frozen, Steady, Fields, Honest
  <2>7. Stopped(u, c)  BY <1>5, <2>2, <2>3, <2>4, <2>5 DEF Stopped, Starting
  <2> HIDE DEF u
  <2>8. "NOERROR" \in Statuses  BY DEF Statuses
  <2> QED  BY <2>1, <2>6, <2>7, <2>8, FinishSane DEF u
<1>7. ASSUME NeedsMore(s, t) PROVE Sane(uhd_pipe_finish_job(Odd(t, "memory"), "NOERROR"), c)
  <2> DEFINE u == Odd(t, "memory")
  <2>1. Steady(u)  BY <1>2, OddKeeps DEF Keeps, Oddity
  <2>2. /\ u.frozen /\ ~u.armed /\ u.flags \subseteq {"error"} /\ u.dev = u.enabled
        /\ u.enabled /\ u.busy /\ "hung" \notin u.odd /\ "memory" \in u.odd
    BY <1>1, <1>2, <1>3, <1>7 DEF Odd, Steady, Fields, Between, Directions
  <2>3. Bits(u)  BY <1>1, <1>2 DEF Odd, Steady, Fields, Bits
  <2>4. Numbers(u)  BY <1>1, <1>2 DEF Odd, Steady, Fields, Numbers
  <2>5. Truthful(u)  BY <2>2 DEF Truthful
  <2>6. Stopped(u, c)  BY <1>5, <2>2, <2>3, <2>4, <2>5 DEF Stopped, Starting
  <2> HIDE DEF u
  <2>7. "NOERROR" \in Statuses  BY DEF Statuses
  <2> QED  BY <2>1, <2>2, <2>6, <2>7, FinishSane DEF u
<1>8. ASSUME NeedsMore(s, t) PROVE Sane(w, c)
  <2>1. Ready(t) /\ "done" \notin t.flags  BY <1>1, <1>3, <1>8 DEF Between
  <2>2. /\ Bits(v) /\ Numbers(v) /\ Between(t, v)
        /\ IF t.dir = "IN" THEN LoadedIn(v) /\ GoingIn(v) ELSE LoadedOut(v) /\ GoingOut(v)
    BY <1>2, <2>1, PreparedInLoaded, PreparedOutLoaded DEF Prepared, Steady, Directions
  <2>3. Steady(v)  BY <1>2, PreparedKeeps DEF Keeps
  <2> HIDE DEF v
  <2>4. v.enabled /\ "done" \notin v.flags /\ v.dir = t.dir  BY <1>1, <1>3, <2>1, <2>2 DEF Between
  <2>5. Alike(v, w) /\ Bits(w) /\ w.armed /\ ~w.frozen /\ w.ie /\ w.done_ie
    BY <2>2, <2>3, <2>4, NextLaunched
  <2> HIDE DEF w
  <2>6. /\ w.flags \subseteq {"error"} /\ w.dev = w.enabled /\ w.enabled /\ w.busy
        /\ "hung" \notin w.odd /\ w.dir = t.dir
    BY <1>1, <1>3, <2>2, <2>5 DEF Between, Alike
  <2>7. Truthful(w)
    <3>1. Truthful(v)  BY <1>4, <2>2 DEF Truthful, Between
    <3> QED  BY <2>4, <2>5, <3>1, AlikeLoaded
  <2>8. Numbers(w)  BY <2>2, <2>4, <2>5, AlikeLoaded
  <2>9. Flow(w, c)  BY <2>5, <2>6 DEF Flow, Loaded, Starting
  <2>10. Loading(w, c)  BY <2>2, <2>4, <2>5, <2>6, AlikeLoaded DEF Loading
  <2>11. Worked(w, c)  BY <2>5, <2>6 DEF Worked, Loaded
  <2> QED  BY <1>5, <2>5, <2>7, <2>8, <2>9, <2>10, <2>11 DEF Sane
<1>9. NeedsMore(s, t) => ~(t.dir = "IN" /\ ~t.frozen)
  BY <1>1 DEF Between
<1> HIDE DEF w
<1>10. NeedsMore(s, t) => Sane(NextTransfer(t, memory), c)
  BY <1>7, <1>8, <1>9, Zenon DEF NextTransfer, v, w
<1> QED  BY <1>3, <1>6, <1>10, Zenon DEF uhd_pipe_trans_complet, t

(* The interrupt of a pipe is served when a transfer is over, or has gone wrong. *)
LEMMA InterruptSane ==
    ASSUME NEW s, NEW c, Steady(s), Sane(s, c), Pending(s), NEW memory \in BOOLEAN
    PROVE  Sane(uhd_pipe_interrupt(s, memory), c)
<1> DEFINE Acked(flag) == [s EXCEPT !.ie = FALSE, !.pipes_error = FALSE, !.flags = @ \ {flag}]
<1>1. /\ ~Starting(c) /\ s.enabled /\ s.dev /\ "hung" \notin s.odd
      /\ Bits(s) /\ Numbers(s) /\ Truthful(s)
  BY DEF Sane, Flow, Pending
<1>2. \A x : Fresh(x, c)  BY <1>1 DEF Fresh, Starting
<1>3. ASSUME "error" \in s.flags, ~s.frozen
      PROVE  Sane([Frozen(s) EXCEPT !.flags = @ \ {"error"}, !.pipes_error = TRUE], c)
  <2> DEFINE t == [Frozen(s) EXCEPT !.flags = @ \ {"error"}, !.pipes_error = TRUE]
  <2>1. s.busy /\ Loaded(s) /\ "stall" \notin s.flags
    BY <1>1, <1>3 DEF Sane, Flow, Resting
  <2>2. /\ t.busy = s.busy /\ t.enabled = s.enabled /\ t.dev = s.dev /\ t.dir = s.dir
        /\ t.armed = s.armed /\ t.flags = s.flags \ {"error"} /\ t.odd = s.odd
        /\ t.frozen = TRUE /\ t.pipes_error = TRUE /\ t.ie = s.ie /\ t.done_ie = s.done_ie
    BY DEF Frozen, Steady, Fields
  <2>3. Loaded(t)  BY <2>1, <2>2 DEF Loaded
  <2>4. Bits(t)  BY <1>1 DEF Frozen, Steady, Fields, Bits
  <2>5. Numbers(t)  BY <1>1 DEF Frozen, Steady, Fields, Numbers
  <2>6. Truthful(t)  BY <1>1 DEF Frozen, Steady, Fields, Truthful
  <2>7. Flow(t, c)
    <3> HIDE DEF t
    <3> QED  BY <1>1, <2>1, <2>2, <2>3 DEF Sane, Flow
  <2>8. Loading(t, c)
    BY <1>1, <2>1, <2>2 DEF Sane, Loading, LoadedIn, LoadedOut, GoingIn, GoingOut, Frozen,
       Steady, Fields
  <2>9. Worked(t, c)
    <3> HIDE DEF t
    <3> QED  BY <2>1, <2>2, <2>3 DEF Sane, Worked
  <2> QED  BY <1>2, <2>4, <2>5, <2>6, <2>7, <2>8, <2>9 DEF Sane
<1>4. ASSUME "done" \in s.flags
      PROVE  LET a == IF s.dir = "OUT" THEN Frozen(Acked("done")) ELSE Acked("done")
             IN  Steady(a) /\ Taken(a)
  <2> DEFINE a == IF s.dir = "OUT" THEN Frozen(Acked("done")) ELSE Acked("done")
  <2>1. s.busy /\ ~s.armed /\ s.flags \ {"done"} \subseteq {"error"}
    BY <1>1, <1>4 DEF Sane, Flow, Resting, Steady, Flags
  <2>2. /\ a.busy = s.busy /\ a.enabled = s.enabled /\ a.dev = s.dev /\ a.dir = s.dir
        /\ a.armed = s.armed /\ a.flags = s.flags \ {"done"} /\ a.odd = s.odd
        /\ a.frozen = (s.dir = "OUT" \/ s.frozen) /\ a.pipes_error = FALSE
        /\ a.report = s.report /\ a.buf_size = s.buf_size /\ a.nb_trans = s.nb_trans
        /\ a.moved = s.moved /\ a.size = s.size /\ a.ctn = s.ctn /\ a.inrq = s.inrq
        /\ a.inner = s.inner /\ a.buf_internal = s.buf_internal /\ a.autozlp = s.autozlp
        /\ a.b_shortpacket = s.b_shortpacket /\ a.closed = s.closed /\ a.short = s.short
    BY <1>1 DEF Frozen, Steady, Fields, Bits
  <2>3. Steady(a)  BY DEF Frozen, Steady, Fields, Flags
  <2>4. Bits(a)
    <3>1. Steady(Acked("done")) /\ Bits(Acked("done"))  BY <1>1 DEF Steady, Fields, Bits
    <3> QED  BY <3>1, FrozenBits
  <2> HIDE DEF a
  <2>5. Numbers(a) /\ Truthful(a)  BY <1>1, <2>2 DEF Numbers, Truthful
  <2>6. CASE s.dir = "IN"
    <3>1. LoadedIn(s)  BY <1>4, <2>1, <2>6 DEF Sane, Loading, Loaded
    <3> QED  BY <1>1, <1>4, <2>1, <2>2, <2>3, <2>4, <2>5, <2>6, <3>1 DEF LoadedIn, Taken, a
  <2>7. CASE s.dir = "OUT"
    <3>1. LoadedOut(s)  BY <1>4, <2>1, <2>7 DEF Sane, Loading, Loaded
    <3> QED  BY <1>1, <1>4, <2>1, <2>2, <2>3, <2>4, <2>5, <2>7, <3>1 DEF LoadedOut, Taken, a
  <2> QED  BY <2>6, <2>7 DEF Steady, Directions
<1>5. ASSUME NEW flag, NEW status \in Statuses \ {"NOERROR"}
      PROVE  Sane(uhd_ep_abort_pipe(Acked(flag), status), c)
  <2>1. Steady(Acked(flag))  BY DEF Steady, Fields
  <2>2. Bits(Acked(flag)) /\ Numbers(Acked(flag)) /\ Truthful(Acked(flag))
    BY <1>1 DEF Steady, Fields, Bits, Numbers, Truthful
  <2>3. /\ Acked(flag).dev /\ "hung" \notin Acked(flag).odd
        /\ ~Acked(flag).pipes_error
    BY <1>1 DEF Steady, Fields
  <2> HIDE DEF Acked
  <2> QED  BY <1>1, <2>1, <2>2, <2>3, AbortSane
<1>6. "STALL" \in Statuses \ {"NOERROR"} /\ "ERROR" \in Statuses \ {"NOERROR"}
  BY DEF Statuses
<1>7. "done" \in s.flags =>
        Sane(uhd_pipe_trans_complet(
               IF s.dir = "OUT" THEN Frozen(Acked("done")) ELSE Acked("done"), memory), c)
  BY <1>1, <1>4, TransferSane
<1> QED  BY <1>3, <1>5, <1>6, <1>7, Zenon DEF uhd_pipe_interrupt

(* The parts of the state that Sane tells apart *)
Same(s, t) ==
    /\ Alike(s, t)
    /\ t.armed = s.armed /\ t.frozen = s.frozen /\ t.ie = s.ie /\ t.done_ie = s.done_ie
    /\ t.pipes_unfreeze = s.pipes_unfreeze

LEMMA SameButWorked ==
    ASSUME NEW s, NEW t, NEW c, Sane(s, c), Same(s, t), Bits(t), Worked(t, c)
    PROVE  Sane(t, c)
<1>1. Numbers(t)  BY DEF Sane, Same, Alike, Numbers
<1>2. Pending(t) = Pending(s)  BY DEF Same, Alike, Pending
<1>3. Flow(t, c)
  BY <1>2 DEF Sane, Same, Alike, Flow, Resting, Untouched, Loaded
<1>4. Fresh(t, c)  BY DEF Sane, Same, Alike, Fresh, Untouched
<1>5. Loading(t, c)
  BY DEF Sane, Same, Alike, Loading, LoadedIn, LoadedOut, GoingIn, GoingOut, Loaded
<1>6. Truthful(t)  BY DEF Sane, Same, Alike, Truthful
<1> QED  BY <1>1, <1>3, <1>4, <1>5, <1>6 DEF Sane

LEMMA SameSane ==
    ASSUME NEW s, NEW t, NEW c, Sane(s, c), Same(s, t), Bits(t),
           Suspending(s, c) => Suspending(t, c)
    PROVE  Sane(t, c)
<1>1. Worked(t, c)  BY DEF Sane, Same, Alike, Worked, Loaded
<1> QED  BY <1>1, SameButWorked

(* The places where the main loop has no job in hand *)
Quiet == {"idle", "run", "found", "freeze", "suspend"}

LEMMA QuietSane ==
    ASSUME NEW s, NEW c \in Quiet, NEW d \in Quiet, Sane(s, c),
           Suspending(s, c) => Suspending(s, d),
           d \in {"run", "found"} => s.dev \/ c \in {"run", "found"}
    PROVE  Sane(s, d)
<1>1. ~Starting(c) /\ ~Starting(d) /\ c \notin {"launch", "enable"} /\ d # "launch"
  BY DEF Starting, Quiet
<1>2. Flow(s, d)  BY <1>1 DEF Sane, Flow, Starting
<1>3. Fresh(s, d) /\ Loading(s, d) /\ Worked(s, d)
  BY <1>1 DEF Sane, Fresh, Loading, Worked, Starting
<1> QED  BY <1>2, <1>3 DEF Sane

(* The suspend and resume of the driver unfreeze a transfer. *)
LEMMA RestoredSane ==
    ASSUME NEW s, NEW c, Steady(s), Sane(s, c), s.suspend_start = 0, s.resume_start = 1,
           LET t == Restored([s EXCEPT !.resume_start = 0]) IN "stray" \notin t.odd
    PROVE  Sane(Restored([s EXCEPT !.resume_start = 0]), c)
<1> DEFINE u == [s EXCEPT !.resume_start = 0]
           t == Unfrozen(u)
<1>1. Same(s, u) /\ u.armed = s.armed  BY DEF Same, Alike, Steady, Fields
<1>2. Bits(u)  BY DEF Sane, Bits, Steady, Fields
<1>3. CASE ~s.pipes_unfreeze
  <2>1. Restored(u) = u  BY <1>1, <1>3 DEF Restored, Same
  <2> HIDE DEF u
  <2>2. Worked(u, c)  BY <1>1, <1>3 DEF Sane, Same, Alike, Worked, Loaded
  <2> QED  BY <1>1, <1>2, <2>1, <2>2, SameButWorked DEF u
<1>4. CASE s.pipes_unfreeze
  <2>1. s.armed /\ Restored(u) = t
    <3>1. "stray" \in Odd(Unfrozen(u), "stray").odd
      BY DEF Odd, Unfrozen, Steady, Fields
    <3>2. u.pipes_unfreeze = s.pipes_unfreeze  BY <1>1 DEF Same
    <3> HIDE DEF u
    <3> QED  BY <1>1, <1>4, <3>1, <3>2 DEF Restored, u
  <2>2. /\ s.busy /\ ~Starting(c) /\ s.flags \subseteq {"error"} /\ s.enabled /\ s.dev
        /\ "hung" \notin s.odd
    BY <2>1 DEF Sane, Flow, Resting
  <2>3. /\ Alike(s, t) /\ t.armed /\ ~t.frozen /\ t.ie = s.ie /\ t.done_ie = s.done_ie
    BY <2>1, <2>2 DEF Alike, Unfrozen, Steady, Fields
  <2>4. Bits(t)  BY DEF Sane, Bits, Unfrozen, Steady, Fields
  <2> HIDE DEF t
  <2>5. t.flags \subseteq {"error"} /\ t.enabled /\ t.dev /\ t.busy /\ "hung" \notin t.odd
        /\ t.dev = t.enabled
    BY <2>2, <2>3 DEF Alike, Sane, Flow
  <2>6. Flow(t, c)  BY <2>2, <2>3, <2>5 DEF Flow, Loaded, Starting
  <2>7. Fresh(t, c)  BY <2>2 DEF Fresh, Starting
  <2>8. Loading(t, c)
    BY <2>1, <2>2, <2>3, AlikeLoaded DEF Sane, Loading, Loaded, Alike
  <2>9. Numbers(t) /\ Truthful(t)  BY <2>2, <2>3, AlikeLoaded DEF Sane
  <2>10. Worked(t, c)
    BY <2>1, <2>2, <2>3, <2>5 DEF Sane, Worked, Loaded, Alike
  <2> QED  BY <2>1, <2>4, <2>6, <2>7, <2>8, <2>9, <2>10 DEF Sane
<1> QED  BY <1>3, <1>4 DEF Sane, Bits

LEMMA ExpiredSane ==
    ASSUME NEW s, NEW c, Steady(s), Sane(s, c), s.busy /\ s.timeout = 1 => ~Starting(c)
    PROVE  Sane(Expired(s), c)
<1>1. ASSUME s.busy, s.timeout = 1
      PROVE  Sane(uhd_ep_abort_pipe([s EXCEPT !.timeout = 0], "TIMEOUT"), c)
  <2> DEFINE u == [s EXCEPT !.timeout = 0]
  <2>1. Steady(u)  BY PipeAssumption DEF Steady, Fields
  <2>2. Bits(u) /\ Numbers(u) /\ Truthful(u)
    BY DEF Sane, Steady, Fields, Bits, Numbers, Truthful
  <2>3. "hung" \notin u.odd /\ u.busy /\ (c \in {"run", "found"} => u.dev)
    BY <1>1 DEF Sane, Flow, Steady, Fields
  <2>4. "TIMEOUT" \in Statuses \ {"NOERROR"}  BY DEF Statuses
  <2> HIDE DEF u
  <2> QED  BY <1>1, <2>1, <2>2, <2>3, <2>4, AbortSane DEF u
<1>2. Sane([s EXCEPT !.timeout = @ - 1], c)
  <2> DEFINE u == [s EXCEPT !.timeout = @ - 1]
  <2>1. Same(s, u) /\ (Suspending(s, c) => Suspending(u, c))
    BY DEF Same, Alike, Suspending, Steady, Fields
  <2>2. Bits(u)  BY DEF Sane, Steady, Fields, Bits
  <2> HIDE DEF u
  <2> QED  BY <2>1, <2>2, SameSane DEF u
<1> QED  BY <1>1, <1>2, Zenon DEF Expired

LEMMA SofSane ==
    ASSUME NEW s, NEW c, Steady(s), Sane(s, c), s.busy /\ s.timeout = 1 => ~Starting(c),
           LET t == uhd_sof_interrupt(s) IN "stray" \notin t.odd
    PROVE  Sane(uhd_sof_interrupt(s), c)
<1>1. ASSUME s.suspend_start = 1
      PROVE  Sane([s EXCEPT !.suspend_start = 0, !.sof = FALSE, !.wakeup = TRUE], c)
  <2> DEFINE u == [s EXCEPT !.suspend_start = 0, !.sof = FALSE, !.wakeup = TRUE]
  <2>1. Same(s, u) /\ Suspending(u, c)
    BY DEF Same, Alike, Suspending, Steady, Fields
  <2>2. Bits(u)  BY DEF Sane, Steady, Fields, Bits
  <2> HIDE DEF u
  <2> QED  BY <2>1, <2>2, SameSane DEF u
<1>2. ASSUME s.suspend_start > 1
      PROVE  Sane([s EXCEPT !.suspend_start = @ - 1], c)
  <2> DEFINE u == [s EXCEPT !.suspend_start = @ - 1]
  <2>1. Same(s, u) /\ Suspending(u, c)
    BY <1>2 DEF Same, Alike, Suspending, Steady, Fields
  <2>2. Bits(u)  BY DEF Sane, Steady, Fields, Bits
  <2> HIDE DEF u
  <2> QED  BY <2>1, <2>2, SameSane DEF u
<1>3. ASSUME s.resume_start > 1
      PROVE  Sane([s EXCEPT !.resume_start = @ - 1], c)
  <2> DEFINE u == [s EXCEPT !.resume_start = @ - 1]
  <2>1. Same(s, u) /\ Suspending(u, c)
    BY <1>3, PipeAssumption DEF Same, Alike, Suspending, Steady, Fields
  <2>2. Bits(u)  BY DEF Sane, Steady, Fields, Bits
  <2> HIDE DEF u
  <2> QED  BY <2>1, <2>2, SameSane DEF u
<1>4. Sane(Raised(Expired(s)), c)
  <2>1. Steady(Expired(s))  BY ExpiredKeeps DEF Keeps
  <2> QED  BY <2>1, ExpiredSane, RaisedSane
<1>5. CASE s.suspend_start = 0 /\ s.resume_start = 1
  <2>1. uhd_sof_interrupt(s) = Restored([s EXCEPT !.resume_start = 0])
    BY <1>5 DEF uhd_sof_interrupt
  <2> QED  BY <1>5, <2>1, RestoredSane
<1>6. CASE ~(s.suspend_start = 0 /\ s.resume_start = 1)
  BY <1>1, <1>2, <1>3, <1>4, <1>6, Zenon DEF uhd_sof_interrupt
<1> QED  BY <1>5, <1>6

LEMMA OddSane ==
    ASSUME NEW s, NEW c, Steady(s), Sane(s, c), NEW what \in Oddity \ {"stray", "hung"}
    PROVE  Sane(Odd(s, what), c)
<1> DEFINE t == Odd(s, what)
<1>1. Bits(t)  BY DEF Sane, Bits, Odd, Steady, Fields
<1>2. Numbers(t)  BY DEF Sane, Numbers, Odd, Steady, Fields
<1>3. Flow(t, c)
  BY DEF Sane, Flow, Pending, Resting, Untouched, Loaded, Odd, Steady, Fields
<1>4. Fresh(t, c)  BY DEF Sane, Fresh, Untouched, Odd, Steady, Fields
<1>5. Loading(t, c)
  BY DEF Sane, Loading, LoadedIn, LoadedOut, GoingIn, GoingOut, Loaded, Odd, Steady, Fields
<1>6. Truthful(t)  BY DEF Sane, Truthful, Odd, Steady, Fields
<1>7. Worked(t, c)  BY DEF Sane, Worked, Loaded, Suspending, Odd, Steady, Fields
<1> QED  BY <1>1, <1>2, <1>3, <1>4, <1>5, <1>6, <1>7 DEF Sane

(* A disconnection calls the job back, wherever the main loop is with it. *)
LEMMA UnpluggedSane ==
    ASSUME NEW s, NEW c, Steady(s), Sane(s, c)
    PROVE  Sane(Unplugged(s), c)
<1> DEFINE t == Unplugged(s)
<1>1. /\ t.busy = FALSE /\ t.enabled = FALSE /\ t.dev = FALSE /\ t.armed = FALSE
      /\ t.frozen = TRUE /\ t.flags = {} /\ t.odd = s.odd /\ t.dir = s.dir
      /\ t.nb_trans = s.nb_trans /\ t.moved = s.moved /\ t.ctn = s.ctn /\ t.size = s.size
      /\ t.buf_size = s.buf_size /\ t.closed = s.closed /\ t.b_shortpacket = s.b_shortpacket
      /\ t.inrq = 0
  BY DEF Unplugged, uhd_pipe_finish_job, CalledBack, Disabled, Steady, Fields
<1>2. /\ t.pipes_error = (~s.busy /\ s.pipes_error)
      /\ t.buf_internal = (~s.busy /\ s.buf_internal)
  <2>1. s.busy \in BOOLEAN /\ s.pipes_error \in BOOLEAN /\ s.buf_internal \in BOOLEAN
    BY DEF Steady, Sane, Bits
  <2>2. CASE s.busy
    BY <2>1, <2>2 DEF Unplugged, uhd_pipe_finish_job, CalledBack, Disabled, Steady, Fields
  <2>3. CASE ~s.busy
    BY <2>1, <2>3 DEF Unplugged, uhd_pipe_finish_job, Disabled, Steady, Fields
  <2> QED  BY <2>1, <2>2, <2>3
<1>3. t.report.status # "NOERROR" \/ t.report = s.report
  BY DEF Unplugged, uhd_pipe_finish_job, CalledBack, Disabled, Steady, Fields
<1>4. Bits(t)
  <2>1. Bits(Disabled(s))  BY DEF Sane, Bits, Disabled, Steady, Fields
  <2>2. Steady(Disabled(s))  BY DisabledKeeps DEF Keeps
  <2>3. Bits(CalledBack(Disabled(s), "DISCONNECT"))
    <3> HIDE DEF t
    <3> DEFINE d == Disabled(s)
    <3>1. Steady(d) /\ Bits(d)  BY <2>1, <2>2
    <3> HIDE DEF d
    <3> QED  BY <3>1 DEF Bits, CalledBack, Steady, Fields, d
  <2> DEFINE u == uhd_pipe_finish_job(Disabled(s), "DISCONNECT")
  <2>4. Bits(u)  BY <2>1, <2>3 DEF uhd_pipe_finish_job
  <2>5. Steady(u)
    <3>1. "DISCONNECT" \in Statuses  BY DEF Statuses
    <3> QED  BY <2>2, <3>1, FinishKeeps DEF Keeps
  <2> HIDE DEF u
  <2>6. Bits([u EXCEPT !.dev = FALSE, !.wakeup = FALSE, !.suspend_start = 0, !.resume_start = 0])
    BY <2>4, <2>5 DEF Bits, Steady, Fields
  <2> QED  BY <2>6 DEF Unplugged, u
<1> HIDE DEF t
<1>5. Numbers(t)  BY <1>1, PipeAssumption DEF Sane, Numbers
<1>6. Flow(t, c)
  BY <1>1, <1>2 DEF Sane, Flow, Resting, Pending
<1>7. Fresh(t, c)  BY <1>1, <1>2 DEF Sane, Fresh, Untouched
<1>8. Loading(t, c)  BY <1>1 DEF Loading
<1>9. Truthful(t)  BY <1>1, <1>3 DEF Sane, Truthful
<1>10. Worked(t, c)  BY <1>1 DEF Worked
<1> QED  BY <1>4, <1>5, <1>6, <1>7, <1>8, <1>9, <1>10 DEF Sane, t

(* A transfer is in the pipe: the main loop is done with it. *)
LEMMA ArmedFacts ==
    ASSUME NEW s, NEW c, Steady(s), Sane(s, c), s.armed
    PROVE  /\ s.busy /\ ~Starting(c) /\ s.flags \subseteq {"error"} /\ s.enabled /\ s.dev
           /\ "hung" \notin s.odd
           /\ s.dir = "IN" => LoadedIn(s) /\ GoingIn(s)
           /\ s.dir = "OUT" => LoadedOut(s) /\ GoingOut(s)
BY DEF Sane, Flow, Resting, Loading, Loaded

LEMMA ReceivedSane ==
    ASSUME NEW s, NEW c, Steady(s), Sane(s, c), s.armed, s.dir = "IN", NEW n \in 0 .. PipeSize
    PROVE  Sane(Received(s, n), c)
<1> DEFINE t == Received(s, n)
           over == n < PipeSize \/ s.ctn + n = s.size
<1>1. /\ s.busy /\ ~Starting(c) /\ s.flags \subseteq {"error"} /\ s.enabled /\ s.dev
      /\ "hung" \notin s.odd /\ LoadedIn(s) /\ GoingIn(s)
  BY ArmedFacts
<1>2. /\ s.buf_size \in Nat /\ s.nb_trans \in Nat /\ s.moved \in Nat /\ s.ctn \in Nat
      /\ s.size \in Nat /\ s.inrq \in Nat /\ s.inrq <= MaxInRequests
      /\ s.size <= UHD_ENDPOINT_MAX_TRANS /\ s.moved <= s.buf_size /\ s.inner \in BOOLEAN
  <2>1. s.buf_size \in Nat  BY SizeIsNat DEF Steady
  <2> QED  BY <2>1, PipeAssumption DEF Sane, Numbers, Bits
<1>3. /\ t.ctn = s.ctn + n /\ t.inrq = (IF s.inrq = 0 THEN 0 ELSE s.inrq - 1)
      /\ t.frozen = (s.frozen \/ s.inrq \in {0, 1}) /\ t.armed = ~over
      /\ t.flags = (IF over THEN s.flags \cup {"done"} ELSE s.flags)
      /\ t.moved = (IF s.inner THEN s.moved ELSE s.moved + n) /\ t.short = (n < PipeSize)
      /\ t.busy = s.busy /\ t.enabled = s.enabled /\ t.dev = s.dev /\ t.dir = s.dir
      /\ t.odd = s.odd /\ t.report = s.report /\ t.buf_size = s.buf_size
      /\ t.nb_trans = s.nb_trans /\ t.size = s.size /\ t.inner = s.inner
      /\ t.buf_internal = s.buf_internal /\ t.closed = s.closed
      /\ t.ie = s.ie /\ t.done_ie = s.done_ie /\ t.pipes_error = s.pipes_error
      /\ t.pipes_unfreeze = s.pipes_unfreeze
      /\ (Suspending(s, c) <=> Suspending(t, c))
  BY DEF Received, Suspending, Steady, Fields, Sane, Bits
<1>4. Bits(t)  BY DEF Sane, Bits, Received, Steady, Fields
<1> HIDE DEF t
<1>5. /\ s.size = s.ctn + s.inrq * PipeSize /\ s.inrq >= 1
      /\ (s.inrq - 1) * PipeSize = s.inrq * PipeSize - PipeSize
      /\ s.inrq >= 2 => s.inrq * PipeSize >= 2 * PipeSize
      /\ s.inrq * PipeSize >= PipeSize
  BY <1>1, <1>2, PipeAssumption DEF GoingIn
<1>6. s.ctn + n <= s.size /\ (s.ctn + n = s.size => s.inrq = 1)
      /\ (~over => s.inrq >= 2)
  BY <1>2, <1>5, PipeAssumption
<1>7. LoadedIn(t)
  <2>1. /\ Whole(t.nb_trans) /\ t.nb_trans < t.buf_size /\ t.ctn <= t.size
        /\ t.buf_internal = t.inner /\ ~t.closed
    BY <1>1, <1>3, <1>6 DEF LoadedIn
  <2>2. t.inner => t.size = PipeSize /\ t.moved = t.nb_trans /\ t.buf_size - t.nb_trans < PipeSize
    BY <1>1, <1>3 DEF LoadedIn
  <2>3. ~t.inner => /\ Whole(t.size) /\ t.moved = t.nb_trans + t.ctn
                    /\ t.nb_trans + t.size <= t.buf_size
    BY <1>1, <1>2, <1>3 DEF LoadedIn
  <2>4. ASSUME t.inrq = 0 PROVE t.frozen
    <3>1. s.inrq = 1  BY <1>2, <1>3, <1>5, <2>4
    <3>2. s.inrq \in {0, 1}  BY <3>1
    <3> QED  BY <1>3, <3>2, Zenon
  <2>5. ASSUME "done" \in t.flags
        PROVE  (t.ctn = t.size /\ t.inrq = 0) \/ (t.ctn < t.size /\ t.short)
    <3>1. over  BY <1>1, <1>3, <2>5
    <3>2. CASE s.ctn + n = s.size
      <4>1. t.ctn = t.size /\ t.inrq = 0  BY <1>3, <1>6, <3>2
      <4> QED  BY <4>1
    <3>3. CASE s.ctn + n # s.size
      <4>1. n < PipeSize  BY <3>1, <3>3
      <4>2. t.ctn < t.size  BY <1>2, <1>3, <1>6, <3>3
      <4>3. t.short  BY <1>3, <4>1, Zenon
      <4> QED  BY <4>2, <4>3
    <3> QED  BY <3>2, <3>3
  <2> QED  BY <2>1, <2>2, <2>3, <2>4, <2>5 DEF LoadedIn
<1>8. ~over => GoingIn(t)  BY <1>2, <1>3, <1>5, <1>6, PipeAssumption DEF GoingIn
<1>9. Numbers(t)
  <2>1. t.moved \in Nat /\ t.moved <= t.buf_size
    BY <1>1, <1>2, <1>3, <1>6, <1>7 DEF LoadedIn
  <2>2. t.ctn \in 0 .. UHD_ENDPOINT_MAX_TRANS  BY <1>2, <1>3, <1>6, PipeAssumption
  <2>3. t.inrq \in 0 .. MaxInRequests  BY <1>2, <1>3, PipeAssumption
  <2> QED  BY <1>2, <1>3, <2>1, <2>2, <2>3, PipeAssumption DEF Numbers
<1> HIDE DEF over
<1>10. /\ t.flags \subseteq {"error", "done"} /\ (~over => t.flags \subseteq {"error"})
       /\ (over => "done" \in t.flags) /\ (t.armed <=> ~over) /\ over \in BOOLEAN
  BY <1>1, <1>3 DEF over
<1>11. Flow(t, c)  BY <1>1, <1>3, <1>10 DEF Flow, Loaded, Sane, Starting
<1>12. Fresh(t, c)  BY <1>1 DEF Fresh, Starting
<1>13. Loading(t, c)  BY <1>1, <1>3, <1>7, <1>8, <1>10 DEF Loading, Starting
<1>14. Truthful(t)  BY <1>3 DEF Sane, Truthful
<1>15. Worked(t, c)
  <2>1. t.armed => t.frozen = s.frozen  BY <1>3, <1>6, <1>10 DEF Sane, Bits
  <2> QED  BY <1>1, <1>3, <1>10, <2>1 DEF Sane, Worked, Loaded
<1> QED  BY <1>4, <1>9, <1>11, <1>12, <1>13, <1>14, <1>15 DEF Sane, t

LEMMA SentSane ==
    ASSUME NEW s, NEW c, Steady(s), Sane(s, c), s.armed, s.dir = "OUT"
    PROVE  Sane(Sent(s), c)
<1> DEFINE t == Sent(s)
           n == Least(PipeSize, s.ctn - s.size)
           over == s.size + n = s.ctn
<1>1. /\ s.busy /\ ~Starting(c) /\ s.flags \subseteq {"error"} /\ s.enabled /\ s.dev
      /\ "hung" \notin s.odd /\ LoadedOut(s) /\ GoingOut(s)
  BY ArmedFacts
<1>2. /\ s.buf_size \in Nat /\ s.nb_trans \in Nat /\ s.moved \in Nat /\ s.ctn \in Nat
      /\ s.size \in Nat /\ s.ctn <= UHD_ENDPOINT_MAX_TRANS
  <2>1. s.buf_size \in Nat  BY SizeIsNat DEF Steady
  <2> QED  BY <2>1, PipeAssumption DEF Sane, Numbers
<1>3. /\ t.size = (IF s.ctn <= PipeSize THEN 0 ELSE s.size + n) /\ t.armed = ~over
      /\ t.flags = (IF over THEN s.flags \cup {"done"} ELSE s.flags)
      /\ t.moved = s.moved + n /\ t.short = (n < PipeSize \/ (over /\ s.autozlp))
      /\ t.frozen = s.frozen /\ t.ctn = s.ctn /\ t.inrq = s.inrq
      /\ t.busy = s.busy /\ t.enabled = s.enabled /\ t.dev = s.dev /\ t.dir = s.dir
      /\ t.odd = s.odd /\ t.report = s.report /\ t.buf_size = s.buf_size
      /\ t.nb_trans = s.nb_trans /\ t.autozlp = s.autozlp
      /\ t.b_shortpacket = s.b_shortpacket /\ t.closed = s.closed
      /\ t.ie = s.ie /\ t.done_ie = s.done_ie /\ t.pipes_error = s.pipes_error
      /\ t.pipes_unfreeze = s.pipes_unfreeze
      /\ (Suspending(s, c) <=> Suspending(t, c))
  BY DEF Sent, Suspending, Steady, Fields
<1>4. Bits(t)  BY DEF Sane, Bits, Sent, Steady, Fields
<1> HIDE DEF t
<1>5. /\ s.size <= s.ctn /\ s.nb_trans + s.ctn <= s.buf_size /\ s.moved = s.nb_trans + s.size
      /\ (s.ctn <= PipeSize => s.size = 0)
  BY <1>1 DEF LoadedOut, GoingOut
<1>6. n \in Nat /\ n <= PipeSize /\ s.size + n <= s.ctn /\ (s.ctn <= PipeSize => s.size + n = s.ctn)
      /\ (s.size + n # s.ctn => n = PipeSize)
  BY <1>2, <1>5, PipeAssumption DEF Least
<1> HIDE DEF n
<1>7. /\ t.size \in Nat /\ t.size <= t.ctn /\ (t.ctn <= PipeSize => t.size = 0)
      /\ t.moved = s.nb_trans + (s.size + n) /\ t.nb_trans + t.ctn <= t.buf_size
  BY <1>2, <1>3, <1>5, <1>6
<1>8. over => t.moved = t.nb_trans + t.ctn /\ t.size \in {0, t.ctn}
  BY <1>2, <1>3, <1>7
<1>9. ~over => t.size = s.size + n /\ t.size < t.ctn /\ t.moved = t.nb_trans + t.size
  BY <1>2, <1>3, <1>6, <1>7
<1> HIDE DEF over
<1>10. /\ t.flags \subseteq {"error", "done"} /\ (~over => t.flags \subseteq {"error"})
       /\ (over => "done" \in t.flags) /\ ("done" \in t.flags => over)
       /\ (t.armed <=> ~over) /\ over \in BOOLEAN
  <2>1. over \in BOOLEAN /\ (t.armed <=> ~over)  BY <1>3 DEF over
  <2>2. CASE over
    <3>1. t.flags = s.flags \cup {"done"}  BY <1>3, <2>2 DEF over
    <3> QED  BY <1>1, <2>1, <2>2, <3>1
  <2>3. CASE ~over
    <3>1. t.flags = s.flags  BY <1>3, <2>3 DEF over
    <3> QED  BY <1>1, <2>1, <2>3, <3>1
  <2> QED  BY <2>2, <2>3
<1>11. LoadedOut(t)
  <2>1. t.autozlp => ~t.b_shortpacket /\ t.nb_trans + t.ctn = t.buf_size
    BY <1>1, <1>3 DEF LoadedOut
  <2>2. t.closed => t.b_shortpacket \/ t.autozlp  BY <1>1, <1>3 DEF LoadedOut
  <2>3. over /\ t.autozlp => t.short  BY <1>3
  <2> QED  BY <1>7, <1>8, <1>10, <2>1, <2>2, <2>3 DEF LoadedOut
<1>12. ~over => GoingOut(t)  BY <1>9 DEF GoingOut
<1>13. Numbers(t)
  <2>1. t.moved \in Nat /\ t.moved <= t.buf_size  BY <1>2, <1>3, <1>6, <1>7
  <2> QED  BY <1>2, <1>3, <1>7, <2>1, PipeAssumption DEF Numbers, Sane
<1>14. Flow(t, c)  BY <1>1, <1>3, <1>10 DEF Flow, Loaded, Sane, Starting
<1>15. Fresh(t, c)  BY <1>1 DEF Fresh, Starting
<1>16. Loading(t, c)
  <2>1. t.dir # "IN" /\ c # "launch"  BY <1>1, <1>3 DEF Starting
  <2> QED  BY <1>10, <1>11, <1>12, <2>1 DEF Loading
<1>17. Truthful(t)  BY <1>3 DEF Sane, Truthful
<1>18. Worked(t, c)  BY <1>1, <1>3, <1>10 DEF Sane, Worked, Loaded
<1> QED  BY <1>4, <1>13, <1>14, <1>15, <1>16, <1>17, <1>18 DEF Sane, t

LEMMA StallSane ==
    ASSUME NEW s, NEW c, Steady(s), Sane(s, c), s.armed
    PROVE  Sane([s EXCEPT !.flags = @ \cup {"stall"}, !.frozen = TRUE, !.armed = FALSE,
                          !.old = FALSE], c)
<1> DEFINE t == [s EXCEPT !.flags = @ \cup {"stall"}, !.frozen = TRUE, !.armed = FALSE,
                          !.old = FALSE]
<1>1. /\ s.busy /\ ~Starting(c) /\ s.flags \subseteq {"error"} /\ s.enabled /\ s.dev
      /\ "hung" \notin s.odd
      /\ s.dir = "IN" => LoadedIn(s)
      /\ s.dir = "OUT" => LoadedOut(s)
  BY ArmedFacts
<1>2. Alike([s EXCEPT !.flags = @ \cup {"stall"}], t) /\ ~t.armed /\ t.frozen
      /\ t.ie = s.ie /\ t.done_ie = s.done_ie /\ t.flags = s.flags \cup {"stall"}
      /\ t.dev = s.dev /\ t.enabled = s.enabled /\ t.busy = s.busy /\ t.odd = s.odd /\ t.dir = s.dir
  BY DEF Alike, Steady, Fields
<1>3. Bits(t) /\ Numbers(t) /\ Truthful(t)
  BY DEF Sane, Bits, Numbers, Truthful, Steady, Fields
<1>4. Flow(t, c)
  <2> HIDE DEF t
  <2> QED  BY <1>1, <1>2 DEF Flow, Loaded, Starting
<1>5. Fresh(t, c)  BY <1>1 DEF Fresh, Starting
<1>6. t.dir = "IN" => LoadedIn(t)  BY <1>1, <1>2 DEF LoadedIn, Steady, Fields
<1>7. t.dir = "OUT" => LoadedOut(t)  BY <1>1, <1>2 DEF LoadedOut, Steady, Fields
<1>8. Loading(t, c)
  <2>1. t.dir \in {"IN", "OUT"}  BY <1>2 DEF Steady, Directions
  <2> HIDE DEF t
  <2> QED  BY <1>1, <1>2, <1>6, <1>7, <2>1 DEF Loading, Starting
<1>9. Worked(t, c)
  <2> HIDE DEF t
  <2> QED  BY <1>1, <1>2 DEF Sane, Worked, Loaded
<1> QED  BY <1>3, <1>4, <1>5, <1>8, <1>9 DEF Sane

LEMMA ErrorSane ==
    ASSUME NEW s, NEW c, Steady(s), Sane(s, c), s.armed
    PROVE  Sane([s EXCEPT !.flags = @ \cup {"error"}, !.old = FALSE], c)
<1> DEFINE t == [s EXCEPT !.flags = @ \cup {"error"}, !.old = FALSE]
<1>1. /\ s.busy /\ ~Starting(c) /\ s.flags \subseteq {"error"} /\ s.enabled /\ s.dev
      /\ "hung" \notin s.odd
  BY ArmedFacts
<1>2. /\ t.armed = s.armed /\ t.frozen = s.frozen /\ t.pipes_error = s.pipes_error
      /\ t.pipes_unfreeze = s.pipes_unfreeze /\ t.flags = s.flags \cup {"error"}
      /\ t.ie = s.ie /\ t.done_ie = s.done_ie /\ t.busy = s.busy /\ t.enabled = s.enabled
      /\ t.dev = s.dev /\ t.odd = s.odd /\ t.dir = s.dir
      /\ (Suspending(s, c) <=> Suspending(t, c))
  BY DEF Suspending, Steady, Fields
<1>3. Bits(t) /\ Numbers(t) /\ Truthful(t)
  BY DEF Sane, Bits, Numbers, Truthful, Steady, Fields
<1>4. Loading(t, c)
  BY DEF Sane, Loading, LoadedIn, LoadedOut, GoingIn, GoingOut, Loaded, Steady, Fields
<1>5. Fresh(t, c)  BY <1>1 DEF Fresh, Starting
<1> HIDE DEF t
<1>6. Flow(t, c)  BY <1>1, <1>2 DEF Flow, Loaded, Starting
<1>7. Worked(t, c)  BY <1>1, <1>2 DEF Sane, Worked, Loaded
<1> QED  BY <1>3, <1>4, <1>5, <1>6, <1>7 DEF Sane, t

----------------------------------------------------------------------------
(* The calls of the main loop.  "check" to "call" are uhd_ep_run() between its locked
   start and its end. *)

LEMMA AcceptSane ==
    ASSUME NEW s, Steady(s), Sane(s, "found"), ~s.busy, ~Pending(s),
           s.enabled \/ "lost" \in s.odd,
           NEW size \in Sizes, NEW short \in BOOLEAN, short => s.dir = "OUT"
    PROVE  Sane(Accepted(s, size, short), "check")
<1> DEFINE t == Accepted(s, size, short)
<1>1. /\ Resting(s) /\ (s.dev <=> s.enabled) /\ (~s.dev => s.flags = {}) /\ Bits(s)
      /\ "hung" \notin s.odd /\ Numbers(s)
  BY DEF Sane, Flow
<1>2. /\ t.busy = TRUE /\ t.buf_size = size /\ t.nb_trans = 0 /\ t.moved = 0 /\ t.ctn = 0
      /\ t.size = 0 /\ t.b_shortpacket = short /\ t.closed = short /\ t.short = FALSE
      /\ t.armed = s.armed /\ t.frozen = s.frozen /\ t.flags = s.flags /\ t.inrq = s.inrq
      /\ t.enabled = s.enabled /\ t.dev = s.dev /\ t.dir = s.dir /\ t.odd = s.odd
      /\ t.ie = s.ie /\ t.done_ie = s.done_ie /\ t.pipes_error = s.pipes_error
      /\ t.old = s.old /\ t.inner = s.inner /\ t.buf_internal = s.buf_internal
      /\ t.autozlp = s.autozlp /\ t.pipes_unfreeze = s.pipes_unfreeze
  BY DEF Accepted, Steady, Fields
<1>3. t.report = NoReport  BY DEF Accepted, Steady, Fields
<1>4. Starting("check")  BY DEF Starting
<1> HIDE DEF t
<1>5. Bits(t)  BY <1>1, <1>2 DEF Bits
<1>6. Numbers(t)  BY <1>1, <1>2, PipeAssumption DEF Numbers
<1>7. ~Pending(t)  BY <1>2 DEF Pending
<1>8. Resting(t) /\ Untouched(t)  BY <1>1, <1>2 DEF Resting, Untouched
<1>9. Flow(t, "check")
  BY <1>1, <1>2, <1>4, <1>7, <1>8 DEF Flow, Resting
<1>10. Fresh(t, "check")  BY <1>2, <1>8 DEF Fresh, Steady, Directions
<1>11. Loading(t, "check")  BY <1>8 DEF Loading, Loaded, Resting
<1>12. Truthful(t)  BY <1>3 DEF Truthful, NoReport
<1>13. Worked(t, "check")  BY <1>4 DEF Worked
<1> QED  BY <1>5, <1>6, <1>9, <1>10, <1>11, <1>12, <1>13 DEF Sane, t

(* A job that ended before its first transfer *)
LEMMA EndedSane ==
    ASSUME NEW s, NEW c, Sane(s, c), Starting(c), ~s.busy PROVE Sane(s, "idle")
<1>1. ~Starting("idle")  BY DEF Starting
<1>2. Flow(s, "idle")  BY <1>1 DEF Sane, Flow
<1>3. Fresh(s, "idle") /\ Loading(s, "idle") /\ Worked(s, "idle")
  BY DEF Fresh, Loading, Worked
<1> QED  BY <1>2, <1>3 DEF Sane

LEMMA CheckSane ==
    ASSUME NEW s, Steady(s), Sane(s, "check") PROVE Sane(Accounted(s), "wait")
<1> DEFINE t == Accounted(s)
<1>1. Starting("check") /\ Starting("wait")  BY DEF Starting
<1>2. /\ Bits(s) /\ Numbers(s) /\ Flow(s, "check") /\ Resting(s) /\ Untouched(s) /\ s.ctn = 0
      /\ s.size = 0 /\ s.buf_size \in Sizes
      /\ IF s.dir = "IN" THEN ~s.closed ELSE s.closed => s.b_shortpacket
  BY <1>1 DEF Sane, Flow, Fresh
<1>3. Between(s, t) /\ t.inrq = s.inrq /\ t.closed = s.closed /\ t.b_shortpacket = s.b_shortpacket
  BY DEF Between, Accounted, AccountIn, AccountOut, Steady, Fields
<1>4. t.nb_trans = 0 /\ t.moved = 0 /\ t.ctn = 0 /\ t.size = 0
      /\ (s.dir = "IN" => t.buf_internal = FALSE)
  <2>1. CASE s.dir = "OUT"
    BY <1>2, <2>1 DEF Untouched, Accounted, AccountOut, Steady, Fields
  <2>2. CASE s.dir = "IN"
    <3> DEFINE d == IF s.buf_internal THEN Least(s.buf_size % PipeSize, s.ctn) ELSE 0
    <3>1. s.buf_size \in Nat  BY <1>2, SizeIsNat
    <3>2. d = 0
      <4>1. s.buf_size % PipeSize >= 0  BY <3>1, Division
      <4>2. s.buf_size % PipeSize \in Nat  BY <3>1, Division, PipeAssumption
      <4> HIDE DEF d
      <4> QED  BY <1>2, <4>1, <4>2 DEF Least, d
    <3>3. /\ t.moved = s.moved + d /\ t.buf_internal = FALSE /\ t.ctn = 0 /\ t.size = s.size
          /\ t.nb_trans = Least(s.nb_trans + s.ctn, s.buf_size)
      BY <2>2 DEF Accounted, AccountIn, Steady, Fields
    <3> HIDE DEF t, d
    <3> QED  BY <1>2, <3>1, <3>2, <3>3 DEF Untouched, Least
  <2> QED  BY <2>1, <2>2 DEF Steady, Directions
<1>5. Bits(t)  BY <1>2 DEF Bits, Accounted, AccountIn, AccountOut, Steady, Fields
<1> HIDE DEF t
<1>6. Numbers(t)
  <2>1. s.buf_size \in Nat  BY <1>2, SizeIsNat
  <2> QED  BY <1>2, <1>3, <1>4, <2>1, PipeAssumption DEF Numbers, Between
<1>7. ~Pending(t)  BY <1>1, <1>2, <1>3 DEF Pending, Flow, Between
<1>8. Resting(t) /\ Untouched(t)  BY <1>2, <1>3, <1>4 DEF Resting, Untouched, Between
<1>9. Flow(t, "wait")  BY <1>1, <1>2, <1>3, <1>7, <1>8 DEF Flow, Between, Resting
<1>10. Fresh(t, "wait")  BY <1>2, <1>3, <1>4, <1>8 DEF Fresh, Between
<1>11. Loading(t, "wait")  BY <1>8 DEF Loading, Loaded, Resting
<1>12. Truthful(t)  BY <1>3 DEF Sane, Truthful, Between
<1>13. Worked(t, "wait")  BY <1>1 DEF Worked
<1> QED  BY <1>5, <1>6, <1>9, <1>10, <1>11, <1>12, <1>13 DEF Sane, t

LEMMA PrepareSane ==
    ASSUME NEW s, Steady(s), Sane(s, "wait") PROVE Sane(Prepared(s), "launch")
<1> DEFINE t == Prepared(s)
<1>1. Starting("wait") /\ Starting("launch")  BY DEF Starting
<1>2. /\ Bits(s) /\ Numbers(s) /\ Flow(s, "wait") /\ Resting(s) /\ Untouched(s) /\ s.ctn = 0
      /\ s.size = 0 /\ s.buf_size \in Sizes
      /\ IF s.dir = "IN" THEN ~s.closed /\ ~s.buf_internal ELSE s.closed => s.b_shortpacket
  BY <1>1 DEF Sane, Flow, Fresh
<1>3. Ready(s)
  <2>1. Whole(0)
    <3>1. 0 \in Nat /\ 0 = 0 * PipeSize  BY PipeAssumption
    <3> QED  BY <3>1 DEF Whole
  <2>2. s.buf_size > 0
    <3>1. \A n \in Sizes : n > 0  BY PipeAssumption
    <3> QED  BY <1>2, <3>1
  <2>3. s.nb_trans = 0 /\ s.moved = 0  BY <1>2 DEF Untouched
  <2>4. s.nb_trans <= s.buf_size /\ s.nb_trans < s.buf_size /\ s.moved = s.nb_trans
    <3>1. s.buf_size \in Nat  BY <1>2, SizeIsNat
    <3> QED  BY <2>2, <2>3, <3>1
  <2> QED  BY <1>2, <2>1, <2>3, <2>4, Zenon DEF Ready
<1>4. "done" \notin s.flags  BY <1>2 DEF Resting
<1>5. /\ Bits(t) /\ Numbers(t) /\ Between(s, t)
      /\ IF s.dir = "IN" THEN LoadedIn(t) /\ GoingIn(t) ELSE LoadedOut(t) /\ GoingOut(t)
  BY <1>3, <1>4, PreparedInLoaded, PreparedOutLoaded DEF Prepared, Steady, Directions
<1>6. Untouched(t)
  BY <1>2 DEF Untouched, Prepared, PreparedIn, PreparedOut, Steady, Fields
<1> HIDE DEF t
<1>7. ~Pending(t)  BY <1>1, <1>2, <1>5 DEF Pending, Flow, Between
<1>8. Resting(t)  BY <1>2, <1>5 DEF Resting, Between
<1>9. Flow(t, "launch")  BY <1>1, <1>2, <1>5, <1>6, <1>7, <1>8 DEF Flow, Between, Resting
<1>10. Fresh(t, "launch")  BY DEF Fresh
<1>11. Loading(t, "launch")  BY <1>5 DEF Loading, Between
<1>12. Truthful(t)  BY <1>5 DEF Sane, Truthful, Between
<1>13. Worked(t, "launch")  BY <1>1 DEF Worked
<1> QED  BY <1>5, <1>9, <1>10, <1>11, <1>12, <1>13 DEF Sane, t

LEMMA NoMemorySane ==
    ASSUME NEW s, Steady(s), Sane(s, "wait") PROVE Sane(Odd(s, "memory"), "finish")
<1> DEFINE t == Odd(s, "memory")
<1>1. Starting("wait") /\ Starting("finish")  BY DEF Starting
<1>2. Sane(t, "wait") /\ "memory" \in t.odd
  BY OddSane DEF Oddity, Odd, Steady, Fields
<1> HIDE DEF t
<1>3. Flow(t, "finish")  BY <1>1, <1>2 DEF Sane, Flow
<1>4. Loading(t, "finish")  BY <1>1, <1>2 DEF Sane, Flow, Resting, Loading, Loaded
<1>5. Fresh(t, "finish") /\ Worked(t, "finish")  BY <1>1 DEF Fresh, Worked
<1> QED  BY <1>2, <1>3, <1>4, <1>5 DEF Sane, t

LEMMA LaunchSane ==
    ASSUME NEW s, Steady(s), Sane(s, "launch") PROVE Sane(Launched(s), "enable")
<1> DEFINE t == Launched(s)
<1>1. Starting("launch") /\ ~Starting("enable")  BY DEF Starting
<1>2. Resting(s) /\ (s.enabled => s.busy) /\ Flow(s, "launch") /\ Bits(s)
  BY <1>1 DEF Sane, Flow
<1>3. CASE ~s.enabled
  <2>1. t = s  BY <1>3 DEF Launched
  <2>2. Flow(s, "enable")  BY <1>1, <1>2, <1>3 DEF Flow
  <2>3. Fresh(s, "enable") /\ Loading(s, "enable")
    BY <1>2 DEF Fresh, Loading, Loaded, Resting
  <2>4. Worked(s, "enable")  BY <1>1, <1>2, <1>3 DEF Flow, Worked
  <2>5. Sane(s, "enable")  BY <2>2, <2>3, <2>4 DEF Sane
  <2> QED  BY <2>1, <2>5, Zenon
<1>4. CASE s.enabled
  <2>1. Alike(s, t) /\ t.armed /\ ~t.frozen
    BY <1>4 DEF Alike, Launched, Unfrozen, Steady, Fields
  <2>2. Bits(t)  BY <1>2, <1>4 DEF Bits, Launched, Unfrozen, Steady, Fields
  <2> HIDE DEF t
  <2>3. "done" \notin s.flags /\ s.flags \subseteq {"error"}  BY <1>2 DEF Resting
  <2>4. /\ t.flags \subseteq {"error"} /\ t.dev = t.enabled /\ t.enabled /\ t.busy
        /\ "hung" \notin t.odd /\ t.dir = s.dir
    BY <1>2, <1>4, <2>1, <2>3 DEF Alike, Flow
  <2>5. Flow(t, "enable")  BY <1>1, <2>1, <2>4 DEF Flow, Loaded
  <2>6. Fresh(t, "enable")  BY DEF Fresh
  <2>7. Numbers(t) /\ Truthful(t)  BY <2>1, <2>3, AlikeLoaded DEF Sane
  <2>8. Loading(t, "enable")
    BY <1>2, <1>4, <2>1, <2>3, <2>4, AlikeLoaded DEF Sane, Loading
  <2>9. Worked(t, "enable")  BY <2>1, <2>4 DEF Worked, Loaded
  <2> QED  BY <2>2, <2>5, <2>6, <2>7, <2>8, <2>9 DEF Sane, t
<1> QED  BY <1>3, <1>4 DEF Steady

LEMMA EnableSane ==
    ASSUME NEW s, Steady(s), Sane(s, "enable") PROVE Sane(InterruptEnabled(s), "idle")
<1> DEFINE t == InterruptEnabled(s)
<1>1. ~Starting("enable") /\ ~Starting("idle")  BY DEF Starting
<1>2. /\ Alike(s, t) /\ t.armed = s.armed /\ t.frozen = s.frozen /\ t.ie = s.enabled
      /\ t.done_ie = s.enabled /\ t.pipes_unfreeze = s.pipes_unfreeze
      /\ (Suspending(s, "enable") <=> Suspending(t, "idle"))
  BY DEF Alike, InterruptEnabled, Suspending, Steady, Fields
<1>3. Bits(t)  BY DEF Sane, Bits, InterruptEnabled, Steady, Fields
<1> HIDE DEF t
<1>4. Flow(t, "idle")
  BY <1>1, <1>2 DEF Sane, Flow, Alike, Loaded, Resting, Untouched
<1>5. Fresh(t, "idle")  BY DEF Fresh
<1>6. Numbers(t) /\ Truthful(t)  BY <1>2 DEF Sane, Alike, Numbers, Truthful
<1>7. Loading(t, "idle")
  BY <1>2 DEF Sane, Loading, Alike, LoadedIn, LoadedOut, GoingIn, GoingOut, Loaded
<1>8. Worked(t, "idle")  BY <1>1, <1>2 DEF Sane, Worked, Alike, Loaded
<1> QED  BY <1>3, <1>4, <1>5, <1>6, <1>7, <1>8 DEF Sane, t

LEMMA FinishStepSane ==
    ASSUME NEW s, Sane(s, "finish")
    PROVE  /\ s.busy => Sane(s, "call")
           /\ ~s.busy => Sane(s, "idle")
<1>1. Starting("finish") /\ Starting("call")  BY DEF Starting
<1>2. Flow(s, "call")  BY <1>1 DEF Sane, Flow
<1>3. Fresh(s, "call") /\ Loading(s, "call") /\ Worked(s, "call")
  BY <1>1 DEF Sane, Fresh, Loading, Worked
<1> QED  BY <1>1, <1>2, <1>3, EndedSane DEF Sane

LEMMA CallSane ==
    ASSUME NEW s, Steady(s), Sane(s, "call") PROVE Sane(CalledBack(s, "NOERROR"), "idle")
<1>1. Starting("call") /\ ~Starting("idle")  BY DEF Starting
<1>2. Resting(s) /\ "memory" \in s.odd /\ Flow(s, "call")  BY <1>1 DEF Sane, Flow
<1>3. Fresh(s, "idle")  BY DEF Fresh
<1>4. Stopped(s, "idle")  BY <1>1, <1>2, <1>3 DEF Sane, Flow, Resting, Stopped
<1> QED  BY <1>2, <1>4, CalledBackSane DEF Statuses

----------------------------------------------------------------------------
(* All that holds of a reachable state *)
Safe ==
    /\ Counted
    /\ "stray" \notin p.odd => Sane(p, pc)

LEMMA SafeInit == Init => Safe
<1> SUFFICES ASSUME Init PROVE Safe  OBVIOUS
<1> USE DEF Init
<1>1. Counted  BY CountedInit
<1>2. Bits(p)  BY DEF Bits
<1>3. Numbers(p)  BY PipeAssumption DEF Numbers
<1>4. Flow(p, pc)  BY DEF Flow, Starting, Resting, Pending, Loaded
<1>5. Fresh(p, pc)  BY DEF Fresh
<1>6. Loading(p, pc)  BY DEF Loading
<1>7. Truthful(p)  BY DEF Truthful, NoReport
<1>8. Worked(p, pc)  BY DEF Worked
<1> QED  BY <1>1, <1>2, <1>3, <1>4, <1>5, <1>6, <1>7, <1>8 DEF Safe, Sane

LEMMA InstallSane ==
    ASSUME NEW s, Steady(s), Sane(s, "idle"), ~s.dev, ~s.enabled, NEW dir \in Directions
    PROVE  Sane([uhd_ep_alloc(s, dir) EXCEPT !.dev = TRUE], "idle")
<1> DEFINE t == [uhd_ep_alloc(s, dir) EXCEPT !.dev = TRUE]
<1>1. ~Starting("idle")  BY DEF Starting
<1>2. /\ Bits(s) /\ Numbers(s) /\ ~s.enabled /\ ~s.armed /\ s.frozen /\ s.flags = {}
      /\ Flow(s, "idle")
  BY DEF Sane, Flow
<1>3. /\ t.busy = s.busy /\ t.dev = TRUE /\ t.enabled = TRUE /\ t.armed = s.armed
      /\ t.frozen = s.frozen /\ t.flags = s.flags /\ t.odd = s.odd /\ t.report = s.report
      /\ t.buf_size = s.buf_size /\ t.nb_trans = s.nb_trans /\ t.moved = s.moved
      /\ t.ctn = 0 /\ t.size = 0 /\ t.inrq = s.inrq /\ t.pipes_error = s.pipes_error
  BY DEF uhd_ep_alloc, Steady, Fields
<1>4. Bits(t)  BY <1>2 DEF Bits, uhd_ep_alloc, Steady, Fields
<1> HIDE DEF t
<1>5. Numbers(t)  BY <1>2, <1>3, PipeAssumption DEF Numbers
<1>6. ~Loaded(t) /\ ~Loaded(s)  BY <1>2, <1>3 DEF Loaded
<1>7. Flow(t, "idle")
  BY <1>1, <1>2, <1>3, <1>6 DEF Flow, Resting, Untouched
<1>8. Fresh(t, "idle")  BY DEF Fresh
<1>9. Loading(t, "idle")  BY <1>6 DEF Loading
<1>10. Truthful(t)  BY <1>3 DEF Sane, Truthful
<1>11. Worked(t, "idle")  BY <1>1, <1>2, <1>3, <1>6 DEF Flow, Worked
<1> QED  BY <1>4, <1>5, <1>7, <1>8, <1>9, <1>10, <1>11 DEF Sane, t

(* A connection finds no device: nothing is to be worked on yet. *)
LEMMA NoDeviceSane ==
    ASSUME NEW s, NEW t, NEW c, Sane(s, c), Same(s, t), Bits(t), ~s.dev PROVE Sane(t, c)
<1>1. Worked(t, c)  BY DEF Sane, Flow, Same, Alike, Worked, Loaded
<1> QED  BY <1>1, SameButWorked

(* uhd_suspend() keeps which pipe is to be unfrozen before it freezes it. *)
LEMMA SavedSane ==
    ASSUME NEW s, Steady(s), Sane(s, "idle"),
           s.suspend_start + s.resume_start # 0 \/ s.wakeup => "again" \in s.odd
    PROVE  Sane([s EXCEPT !.pipes_unfreeze = ~s.frozen], "freeze")
<1> DEFINE t == [s EXCEPT !.pipes_unfreeze = ~s.frozen]
<1>1. ~Starting("idle") /\ ~Starting("freeze")  BY DEF Starting
<1>2. /\ Alike(s, t) /\ t.armed = s.armed /\ t.frozen = s.frozen /\ t.ie = s.ie
      /\ t.done_ie = s.done_ie
  BY DEF Alike, Steady, Fields
<1>3. Bits(t)  BY DEF Sane, Bits, Steady, Fields
<1> HIDE DEF t
<1>4. Numbers(t) /\ Truthful(t)  BY <1>2 DEF Sane, Alike, Numbers, Truthful
<1>5. Flow(t, "freeze")
  BY <1>1, <1>2 DEF Sane, Flow, Alike, Loaded, Resting, Untouched
<1>6. Fresh(t, "freeze")  BY DEF Fresh
<1>7. Loading(t, "freeze")
  BY <1>2 DEF Sane, Loading, Alike, LoadedIn, LoadedOut, GoingIn, GoingOut, Loaded
<1>8. Worked(t, "freeze")
  <2>1. Suspending(s, "idle") => "again" \in s.odd
    BY PipeAssumption DEF Suspending, Steady
  <2> QED  BY <1>1, <1>2, <2>1 DEF Sane, Worked, Alike, Loaded
<1> QED  BY <1>3, <1>4, <1>5, <1>6, <1>7, <1>8 DEF Sane, t

LEMMA FreezeSane ==
    ASSUME NEW s, Steady(s), Sane(s, "freeze"), s.frozen = s.pipes_unfreeze => "raced" \in s.odd
    PROVE  Sane(Frozen(s), "suspend")
<1> DEFINE t == Frozen(s)
<1>1. ~Starting("freeze") /\ ~Starting("suspend")  BY DEF Starting
<1>2. /\ Alike(s, t) /\ t.armed = s.armed /\ t.frozen = TRUE /\ t.ie = s.ie
      /\ t.done_ie = s.done_ie /\ t.pipes_unfreeze = s.pipes_unfreeze
  BY DEF Frozen, Alike, Steady, Fields
<1>3. Bits(s) /\ Bits(t)  BY DEF Sane, Bits, Frozen, Steady, Fields
<1> HIDE DEF t
<1>4. Numbers(t) /\ Truthful(t)  BY <1>2 DEF Sane, Alike, Numbers, Truthful
<1>5. Flow(t, "suspend")
  BY <1>1, <1>2 DEF Sane, Flow, Alike, Loaded, Resting, Untouched
<1>6. Fresh(t, "suspend")  BY DEF Fresh
<1>7. Loading(t, "suspend")
  BY <1>2 DEF Sane, Loading, Alike, LoadedIn, LoadedOut, GoingIn, GoingOut, Loaded
<1>8. Worked(t, "suspend")
  <2>1. Suspending(t, "suspend")  BY DEF Suspending
  <2>2. "raced" \notin s.odd /\ s.frozen => ~s.pipes_unfreeze  BY <1>3 DEF Bits
  <2>3. "raced" \notin s.odd /\ ~s.frozen => s.pipes_unfreeze  BY <1>3 DEF Bits
  <2> QED  BY <1>1, <1>2, <2>1, <2>2, <2>3 DEF Sane, Worked, Alike, Loaded
<1> QED  BY <1>3, <1>4, <1>5, <1>6, <1>7, <1>8 DEF Sane, t

LEMMA SafeStep == Safe /\ [Next]_vars => Safe'
<1> SUFFICES ASSUME Safe, [Next]_vars PROVE Safe'  OBVIOUS
<1>0. Counted' /\ p.odd \subseteq p'.odd  BY CountedStep DEF Safe
<1>1. Steady(p) /\ pc \in Places /\ (~connected => ~p.dev)  BY DEF Safe, Counted
<1>2. SUFFICES ASSUME "stray" \notin p'.odd PROVE Sane(p', pc')
  BY <1>0 DEF Safe
<1>3. Sane(p, pc)  BY <1>0, <1>2 DEF Safe
<1>4. Bits(p)  BY <1>3 DEF Sane
<1>5. CASE PipeInterrupt
  <2> DEFINE q == [p EXCEPT !.due = FALSE]
  <2>1. Steady(q)  BY <1>1 DEF Steady, Fields
  <2>2. Same(p, q) /\ Bits(q) /\ (Suspending(p, pc) <=> Suspending(q, pc))
    BY <1>1, <1>4 DEF Same, Alike, Bits, Suspending, Steady, Fields
  <2>3. Pending(q) /\ pc' = pc
    BY <1>5, <2>2 DEF PipeInterrupt, Pending, Same, Alike
  <2>4. PICK memory \in BOOLEAN : p' = uhd_pipe_interrupt(q, memory)
    BY <1>5 DEF PipeInterrupt
  <2> HIDE DEF q
  <2>5. Sane(q, pc)  BY <1>3, <2>2, SameSane
  <2> QED  BY <2>1, <2>3, <2>4, <2>5, InterruptSane
<1>6. CASE Sof
  <2> DEFINE q == [p EXCEPT !.old = FALSE]
             s == uhd_sof_interrupt(q)
  <2>1. Steady(q) /\ q.busy = p.busy /\ q.timeout = p.timeout  BY <1>1 DEF Steady, Fields
  <2>2. Same(p, q) /\ Bits(q) /\ (Suspending(p, pc) <=> Suspending(q, pc))
    BY <1>1, <1>4 DEF Same, Alike, Bits, Suspending, Steady, Fields
  <2>3. pc' = pc /\ p' = [s EXCEPT !.due = Pending(s)]
        /\ (p.busy /\ p.timeout = 1 => ~Running \/ Waiting)
    BY <1>6 DEF Sof
  <2>4. p.busy /\ p.timeout = 1 => ~Starting(pc)
    <3>1. Starting(pc) => p.frozen  BY <1>3 DEF Sane, Flow, Resting
    <3> QED  BY <2>3, <3>1 DEF Running, Waiting, Starting
  <2> HIDE DEF q
  <2>5. Sane(q, pc)  BY <1>3, <2>2, SameSane
  <2>6. Steady(s)  BY <2>1, SofKeeps DEF Keeps
  <2> HIDE DEF s
  <2>7. p'.odd = s.odd  BY <2>3, <2>6 DEF Steady, Fields
  <2>8. Sane(s, pc)  BY <1>2, <2>1, <2>4, <2>5, <2>7, SofSane DEF s
  <2>9. Same(s, p') /\ Bits(p') /\ (Suspending(s, pc) <=> Suspending(p', pc))
    BY <2>3, <2>6, <2>8 DEF Sane, Same, Alike, Bits, Suspending, Steady, Fields
  <2> QED  BY <2>3, <2>8, <2>9, SameSane
<1>7. CASE Wakeup
  <2>1. Same(p, p') /\ Bits(p') /\ Suspending(p', pc) /\ pc' = pc
    BY <1>1, <1>4, <1>7, PipeAssumption
    DEF Wakeup, Same, Alike, Bits, Suspending, Steady, Fields
  <2> QED  BY <1>3, <2>1, SameSane
<1>8. CASE Connect
  <2>1. Same(p, p') /\ Bits(p') /\ ~p.dev /\ pc' = pc
    BY <1>1, <1>4, <1>8 DEF Connect, Same, Alike, Bits, Steady, Fields
  <2> QED  BY <1>3, <2>1, NoDeviceSane
<1>9. CASE Install
  <2>1. PICK dir \in Directions : p' = [uhd_ep_alloc(p, dir) EXCEPT !.dev = TRUE]
    BY <1>9 DEF Install
  <2>2. pc = "idle" /\ pc' = "idle" /\ ~p.dev /\ ~p.enabled  BY <1>9 DEF Install
  <2> QED  BY <1>1, <1>3, <2>1, <2>2, InstallSane
<1>10. CASE Disconnect
  <2> DEFINE q == [p EXCEPT !.wakeup = FALSE, !.suspend_start = 0, !.resume_start = 0]
  <2>1. pc' = pc /\ (p' = Unplugged(p) \/ (~p.dev /\ p' = q))  BY <1>10 DEF Disconnect
  <2>2. Same(p, q) /\ Bits(q)  BY <1>1, <1>4 DEF Same, Alike, Bits, Steady, Fields
  <2>3. CASE p' = Unplugged(p)       BY <1>1, <1>3, <2>1, <2>3, UnpluggedSane
  <2>4. CASE ~p.dev /\ p' = q  BY <1>3, <2>1, <2>2, <2>4, NoDeviceSane
  <2> QED  BY <2>1, <2>3, <2>4
<1>11. CASE Run
  <2>1. pc = "idle" /\ pc' = "run" /\ p' = p /\ p.dev  BY <1>11 DEF Run, Main, Goes
  <2> QED  BY <1>3, <2>1, QuietSane DEF Quiet, Suspending
<1>12. CASE GetPipe
  <2>1. pc = "run" /\ pc' \in {"idle", "found"} /\ p' \in {p, Odd(p, "NULL")}
    BY <1>12 DEF GetPipe, Main, Goes
  <2>2. Sane(p', "run")  BY <1>1, <1>3, <2>1, OddSane DEF Oddity
  <2> QED  BY <2>1, <2>2, QuietSane DEF Quiet, Suspending
<1>13. CASE Refuse
  <2>1. pc = "found" /\ pc' = "idle" /\ p' = p  BY <1>13 DEF Refuse, Main, Goes
  <2> QED  BY <1>3, <2>1, QuietSane DEF Quiet, Suspending
<1>14. CASE Accept
  <2> DEFINE q == IF p.enabled THEN p ELSE Odd(p, "lost")
  <2>1. pc = "found" /\ pc' = "check" /\ ~p.busy /\ ~Pending(p)
    BY <1>14 DEF Accept, Main, Goes
  <2>2. PICK size \in Sizes, short \in BOOLEAN :
           p' = Accepted(q, size, short) /\ (short => p.dir = "OUT")
    BY <1>14 DEF Accept, Accepted
  <2>3. Sane(q, "found")  BY <1>1, <1>3, <2>1, OddSane DEF Oddity
  <2>4. /\ Steady(q) /\ ~q.busy /\ q.dir = p.dir /\ (q.enabled \/ "lost" \in q.odd)
        /\ ~Pending(q)
    BY <1>1, <2>1 DEF Pending, Odd, Steady, Fields, Oddity
  <2> HIDE DEF q
  <2> QED  BY <2>1, <2>2, <2>3, <2>4, AcceptSane
<1>15. CASE Ended
  <2>1. pc = "check" /\ pc' = "idle" /\ p' = p /\ ~p.busy  BY <1>15 DEF Ended, Main, Goes
  <2> QED  BY <1>3, <2>1, EndedSane DEF Starting
<1>16. CASE Check
  <2>1. pc = "check" /\ pc' = "wait" /\ p' = Accounted(p)  BY <1>16 DEF Check, Main, Goes
  <2> QED  BY <1>1, <1>3, <2>1, CheckSane
<1>17. CASE Prepare
  <2>1. pc = "wait" /\ pc' = "launch" /\ p' = Prepared(p)  BY <1>17 DEF Prepare, Main, Goes
  <2> QED  BY <1>1, <1>3, <2>1, PrepareSane
<1>18. CASE NoMemory
  <2>1. pc = "wait" /\ pc' = "finish" /\ p' = Odd(p, "memory")
    BY <1>18 DEF NoMemory, Main, Goes
  <2> QED  BY <1>1, <1>3, <2>1, NoMemorySane
<1>19. CASE Launch
  <2>1. pc = "launch" /\ pc' = "enable" /\ p' = Launched(p)  BY <1>19 DEF Launch, Main, Goes
  <2> QED  BY <1>1, <1>3, <2>1, LaunchSane
<1>20. CASE Enable
  <2>1. pc = "enable" /\ pc' = "idle" /\ p' = InterruptEnabled(p)
    BY <1>20 DEF Enable, Main, Goes
  <2> QED  BY <1>1, <1>3, <2>1, EnableSane
<1>21. CASE Finish
  <2>1. pc = "finish" /\ pc' = (IF p.busy THEN "call" ELSE "idle") /\ p' = p
    BY <1>21 DEF Finish, Main, Goes
  <2> QED  BY <1>3, <2>1, FinishStepSane
<1>22. CASE Call
  <2>1. pc = "call" /\ pc' = "idle" /\ p' = CalledBack(p, "NOERROR")
    BY <1>22 DEF Call, Main, Goes
  <2> QED  BY <1>1, <1>3, <2>1, CallSane
<1>23. CASE SuspendSave
  <2> DEFINE q == IF p.suspend_start + p.resume_start # 0 \/ p.wakeup THEN Odd(p, "again") ELSE p
  <2>1. pc = "idle" /\ pc' = "freeze" /\ p' = [q EXCEPT !.pipes_unfreeze = ~p.frozen]
    BY <1>23 DEF SuspendSave, Pause, Goes
  <2>2. Sane(q, "idle")  BY <1>1, <1>3, <2>1, OddSane DEF Oddity
  <2>3. /\ Steady(q) /\ q.frozen = p.frozen
        /\ q.suspend_start + q.resume_start # 0 \/ q.wakeup => "again" \in q.odd
    BY <1>1 DEF Odd, Steady, Fields, Oddity
  <2> HIDE DEF q
  <2> QED  BY <2>1, <2>2, <2>3, SavedSane
<1>24. CASE SuspendFreeze
  <2> DEFINE q == IF p.frozen = p.pipes_unfreeze THEN Odd(p, "raced") ELSE p
  <2>1. pc = "freeze" /\ pc' = "suspend" /\ p' = Frozen(q)
    BY <1>24 DEF SuspendFreeze, Pause, Goes
  <2>2. Sane(q, "freeze")  BY <1>1, <1>3, <2>1, OddSane DEF Oddity
  <2>3. Steady(q) /\ (q.frozen = q.pipes_unfreeze => "raced" \in q.odd)
    BY <1>1 DEF Odd, Steady, Fields, Oddity
  <2> HIDE DEF q
  <2> QED  BY <2>1, <2>2, <2>3, FreezeSane
<1>25. CASE SuspendStart
  <2>1. /\ pc = "suspend" /\ pc' = "idle" /\ Same(p, p') /\ Bits(p')
        /\ Suspending(p', "suspend") /\ Suspending(p', "idle")
    BY <1>1, <1>4, <1>25
    DEF SuspendStart, Pause, Goes, Same, Alike, Bits, Suspending, Steady, Fields
  <2>2. Sane(p', "suspend")  BY <1>3, <2>1, SameSane
  <2> QED  BY <2>1, <2>2, QuietSane DEF Quiet
<1>26. CASE uhd_resume
  <2>1. /\ pc = "idle" /\ pc' = "idle" /\ Same(p, p') /\ Bits(p')
        /\ (Suspending(p, pc) <=> Suspending(p', pc))
    BY <1>1, <1>4, <1>26
    DEF uhd_resume, Pause, Goes, Same, Alike, Bits, Suspending, Steady, Fields
  <2> QED  BY <1>3, <2>1, SameSane
<1>27. CASE InPacket
  <2>1. PICK n \in 0 .. PipeSize : p' = Received(p, n)  BY <1>27 DEF InPacket
  <2>2. p.armed /\ p.dir = "IN" /\ pc' = pc  BY <1>27 DEF InPacket, DeviceSteps, Bus
  <2> QED  BY <1>1, <1>3, <2>1, <2>2, ReceivedSane
<1>28. CASE OutPacket
  <2>1. p.armed /\ p.dir = "OUT" /\ pc' = pc /\ p' = Sent(p)
    BY <1>28 DEF OutPacket, DeviceSteps, Bus
  <2> QED  BY <1>1, <1>3, <2>1, SentSane
<1>29. CASE Stall
  <2>1. p.armed /\ pc' = pc  BY <1>29 DEF Stall, DeviceSteps, Bus
  <2> QED  BY <1>1, <1>3, <1>29, <2>1, StallSane DEF Stall
<1>30. CASE Error
  <2>1. p.armed /\ pc' = pc  BY <1>30 DEF Error, DeviceSteps, Bus
  <2> QED  BY <1>1, <1>3, <1>30, <2>1, ErrorSane DEF Error
<1>31. CASE UNCHANGED vars  BY <1>3, <1>31 DEF vars
<1> QED
  BY <1>5, <1>6, <1>7, <1>8, <1>9, <1>10, <1>11, <1>12, <1>13, <1>14, <1>15, <1>16, <1>17,
     <1>18, <1>19, <1>20, <1>21, <1>22, <1>23, <1>24, <1>25, <1>26, <1>27, <1>28, <1>29,
     <1>30, <1>31
  DEF Next, Job, Suspend

LEMMA SafeAlways == Spec => []Safe
BY SafeInit, SafeStep, PTL DEF Spec

(* The numbers of a transfer stay in the ranges of their registers. *)
THEOREM TypeCorrect == Spec => []TypeOK
<1>1. Safe => TypeOK
  BY DEF Safe, Counted, Steady, Sane, Numbers, TypeOK, Flags, Oddity, Places
<1> QED  BY SafeAlways, <1>1, PTL

(* A transfer belongs to a job, and ends where the buffer of the job ends or before. *)
THEOREM StaysInBuffer == Spec => []WithinBuffer
<1>1. Safe => WithinBuffer
  <2> SUFFICES ASSUME Safe, "stray" \notin p.odd PROVE WithinBuffer  BY DEF WithinBuffer
  <2>1. Steady(p) /\ Sane(p, pc)  BY DEF Safe, Counted
  <2>2. p.moved <= p.buf_size  BY <2>1 DEF Sane, Numbers
  <2>3. p.armed => p.busy  BY <2>1, ArmedFacts
  <2>4. ASSUME p.armed, ~p.inner
        PROVE  p.nb_trans + (IF p.dir = "IN" THEN p.size ELSE p.ctn) <= p.buf_size
    BY <2>1, <2>4, ArmedFacts DEF LoadedIn, LoadedOut, Steady, Directions
  <2> QED  BY <2>2, <2>3, <2>4 DEF WithinBuffer
<1> QED  BY SafeAlways, <1>1, PTL

(* What a job is called back with is what it moved. *)
THEOREM ReportsTruly == Spec => []ReportIsTrue
<1>1. Safe => ReportIsTrue
  BY DEF Safe, Sane, Truthful, ReportIsTrue
<1> QED  BY SafeAlways, <1>1, PTL

(* A job is not forgotten: its transfer goes on or its interrupt is pending. *)
THEOREM WorkedOn == Spec => []BusyIsWorkedOn
<1>1. Safe => BusyIsWorkedOn
  <2> SUFFICES ASSUME Safe, p.busy, pc = "idle", ~p.wakeup, p.suspend_start = 0,
                      p.resume_start = 0, p.odd \cap {"lost", "stray", "again", "raced"} = {}
               PROVE  p.enabled /\ ((p.armed /\ ~p.frozen) \/ Pending(p) \/ p.pipes_error)
    BY DEF BusyIsWorkedOn
  <2>1. ~Starting(pc) /\ ~Suspending(p, pc)  BY DEF Starting, Suspending
  <2>2. Worked(p, pc)  BY DEF Safe, Sane
  <2>3. /\ p.enabled /\ Loaded(p) /\ p.ie /\ p.done_ie
        /\ p.armed /\ p.frozen => p.pipes_error
    BY <2>1, <2>2 DEF Worked
  <2> QED  BY <2>3 DEF Loaded, Pending
<1> QED  BY SafeAlways, <1>1, PTL

(* The pipe that uhd_ep_run() or the interrupt waits for is frozen. *)
THEOREM NeverWaits == Spec => []NeverHangs
<1>1. Safe => NeverHangs
  BY DEF Safe, Sane, Flow, Resting, Starting, Waiting, Hung, NeverHangs
<1> QED  BY SafeAlways, <1>1, PTL
=============================================================================
