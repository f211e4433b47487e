-------------------------- MODULE UhdPowerProofs --------------------------
(***************************************************************************)
(* The safety of the power states, for any number of devices, calls and    *)
(* starts, and any length of the resume delay.                             *)
(*                                                                         *)
(* Wake is what the interrupts enabled have in common at every step: each  *)
(* branch of the handler relies on it, and each has to restore it.  Locks  *)
(* counts the holders of a sleep mode's lock, and says that uhd_resume()   *)
(* has copied the state that is still the driver's.                        *)
(***************************************************************************)
EXTENDS UhdPowerProps, TLAPS

(* A disconnection that waits to be served has no device behind it, and the connection of a
   device that the USBC has seen is served or waits. *)
Line(s) ==
    s.on =>
        /\ "DDISC" \in s.flags \cap s.enabled => ~s.attached /\ ~s.seen
        /\ s.seen /\ "DCONN" \in s.enabled => "DCONN" \in s.flags

(* A host that is on waits for a connection or a disconnection, never for both; the
   interrupts of a resume are enabled with the wakeup's only; a device that is connected
   gets its SOFs from a clock that runs, or can wake the bus. *)
Wake ==
    /\ Line(u)
    /\ u.on => ("DCONN" \in u.enabled <=> "DDISC" \notin u.enabled)
    /\ "DCONN" \in u.enabled => "RSMED" \notin u.enabled /\ "RXRSM" \notin u.enabled
    /\ u.enabled \cap Wakeups # {} => "HWUP" \in u.enabled
    /\ "DDISC" \in u.enabled /\ ~u.sof => "HWUP" \in u.enabled
    /\ "DDISC" \in u.enabled /\ u.sof =>
        /\ ~u.frozen
        /\ pc \notin {"send", "mode", "hung"} \cup InMode /\ ~u.hung => u.uhd_state = "IDLE"

Locks ==
    ~raced =>
        /\ ~u.hung /\ pc # "hung"
        /\ \A m \in SleepModes : u.locks[m] = Holders(m)
        /\ pc \in InMode => copy = u.uhd_state /\ copy # "IDLE"
        /\ pc = "unlock" => copy # "OFF"

IInv == TypeOK /\ Wake /\ Locks

-----------------------------------------------------------------------------
(* uhd_sleep_mode() changes the state, the locks and hung, and nothing else. *)

LEMMA Modes == sleep_mode \in [States \ {"OFF"} -> SleepModes]
BY DEF sleep_mode, States, SleepModes, SLEEPMGR_RET, SLEEPMGR_SLEEP_0

LEMMA LockNewType ==
    ASSUME NEW s \in Controller, NEW new \in States
    PROVE  /\ LockNew(s, new) \in Controller
           /\ LockNew(s, new) = [s EXCEPT !.locks = LockNew(s, new).locks, !.hung = LockNew(s, new).hung]
<1>1. CASE new = "OFF"
  BY <1>1 DEF LockNew, Controller
<1>2. CASE new # "OFF" /\ MayLock(s.locks, sleep_mode[new])
  <2>1. sleep_mode[new] \in SleepModes
    BY <1>2, Modes
  <2>2. Locked(s.locks, sleep_mode[new]) \in [SleepModes -> 0 .. 255]
    BY <2>1 DEF Locked, Controller
  <2> QED  BY <1>2, <2>2 DEF LockNew, Controller
<1>3. CASE new # "OFF" /\ ~MayLock(s.locks, sleep_mode[new])
  BY <1>3 DEF LockNew, Controller
<1> QED  BY <1>1, <1>2, <1>3

LEMMA UnlockOldType ==
    ASSUME NEW s \in Controller, NEW old \in States
    PROVE  /\ UnlockOld(s, old) \in Controller
           /\ UnlockOld(s, old) = [s EXCEPT !.locks = UnlockOld(s, old).locks, !.hung = UnlockOld(s, old).hung]
<1>1. CASE s.hung \/ old = "OFF"
  BY <1>1 DEF UnlockOld, Controller
<1>2. CASE ~s.hung /\ old # "OFF" /\ MayUnlock(s.locks, sleep_mode[old])
  <2>1. sleep_mode[old] \in SleepModes
    BY <1>2, Modes
  <2>2. Unlocked(s.locks, sleep_mode[old]) \in [SleepModes -> 0 .. 255]
    BY <2>1 DEF Unlocked, Controller
  <2> QED  BY <1>2, <2>2 DEF UnlockOld, Controller
<1>3. CASE ~s.hung /\ old # "OFF" /\ ~MayUnlock(s.locks, sleep_mode[old])
  BY <1>3, ZenonT(60) DEF UnlockOld, Controller
<1> QED  BY <1>1, <1>2, <1>3

LEMMA SleepModeType ==
    ASSUME NEW s \in Controller, NEW new \in States
    PROVE  /\ uhd_sleep_mode(s, new) \in Controller
           /\ uhd_sleep_mode(s, new).uhd_state = new
           /\ uhd_sleep_mode(s, new).on = s.on /\ uhd_sleep_mode(s, new).sof = s.sof
           /\ uhd_sleep_mode(s, new).enabled = s.enabled
           /\ uhd_sleep_mode(s, new).frozen = s.frozen
           /\ uhd_sleep_mode(s, new).attached = s.attached
           /\ uhd_sleep_mode(s, new).seen = s.seen
           /\ uhd_sleep_mode(s, new).flags = s.flags
<1> DEFINE l == LockNew(s, new)
           r == UnlockOld(l, s.uhd_state)
<1>1. l \in Controller /\ l = [s EXCEPT !.locks = l.locks, !.hung = l.hung]
  BY LockNewType
<1>2. s.uhd_state \in States
  BY DEF Controller
<1>3. r \in Controller /\ r = [l EXCEPT !.locks = r.locks, !.hung = r.hung]
  BY <1>1, <1>2, UnlockOldType
<1>4. CASE s.uhd_state = new
  BY <1>4 DEF uhd_sleep_mode, Controller
<1>5. CASE s.uhd_state # new
  <2>1. uhd_sleep_mode(s, new) = [r EXCEPT !.uhd_state = new]
    BY <1>5 DEF uhd_sleep_mode
  <2> HIDE DEF l, r
  <2>2. /\ r.on = s.on /\ r.sof = s.sof /\ r.enabled = s.enabled /\ r.frozen = s.frozen
        /\ r.attached = s.attached /\ r.seen = s.seen /\ r.flags = s.flags
    BY <1>1, <1>3, ZenonT(60) DEF Controller
  <2> QED  BY <2>1, <2>2, <1>3 DEF Controller
<1> QED  BY <1>4, <1>5

(* With the locks of the driver's state and x more, x the PDCA's, it leaves those of the
   new state and x more, and finds no lock missing. *)
Held(state, m) == IF state # "OFF" /\ sleep_mode[state] = m THEN 1 ELSE 0

LEMMA SleepModeLocks ==
    ASSUME NEW s \in Controller, NEW new \in States, NEW x \in [SleepModes -> 0 .. 1], ~s.hung,
           \A m \in SleepModes : s.locks[m] = Held(s.uhd_state, m) + x[m]
    PROVE  /\ ~uhd_sleep_mode(s, new).hung
           /\ \A m \in SleepModes : uhd_sleep_mode(s, new).locks[m] = Held(new, m) + x[m]
<1> DEFINE l == LockNew(s, new)
           r == UnlockOld(l, s.uhd_state)
<1>0. CASE s.uhd_state = new
  BY <1>0 DEF uhd_sleep_mode
<1>1. CASE s.uhd_state # new
  <2>0. s.uhd_state \in States /\ s.locks \in [SleepModes -> 0 .. 255]
    BY DEF Controller
  <2>1. l \in Controller /\ ~l.hung
        /\ \A m \in SleepModes : l.locks[m] = Held(s.uhd_state, m) + Held(new, m) + x[m]
    <3>1. CASE new = "OFF"
      BY <3>1 DEF LockNew, Held
    <3>2. CASE new # "OFF"
      <4>1. sleep_mode[new] \in SleepModes
        BY <3>2, Modes
      <4>2. MayLock(s.locks, sleep_mode[new])
        BY <4>1, <2>0 DEF MayLock, Held
      <4>3. l = [s EXCEPT !.locks = Locked(@, sleep_mode[new])]
        BY <3>2, <4>2 DEF LockNew
      <4>4. \A m \in SleepModes : Locked(s.locks, sleep_mode[new])[m]
                = Held(s.uhd_state, m) + Held(new, m) + x[m]
        <5> TAKE m \in SleepModes
        <5>1. Held(s.uhd_state, m) \in 0 .. 1 /\ x[m] \in 0 .. 1
          BY DEF Held
        <5>2. CASE m = sleep_mode[new]
          BY <5>1, <5>2, <4>1, <2>0, <3>2 DEF Locked, Held
        <5>3. CASE m # sleep_mode[new]
          BY <5>1, <5>3, <4>1, <2>0, <3>2 DEF Locked, Held
        <5> QED  BY <5>2, <5>3
      <4> QED  BY <4>3, <4>4, LockNewType DEF Controller
    <3> QED  BY <3>1, <3>2, LockNewType
  <2> HIDE DEF l
  <2>2. r \in Controller /\ ~r.hung /\ \A m \in SleepModes : r.locks[m] = Held(new, m) + x[m]
    <3>1. CASE s.uhd_state = "OFF"
      BY <3>1, <2>1 DEF UnlockOld, Held
    <3>2. CASE s.uhd_state # "OFF"
      <4>1. sleep_mode[s.uhd_state] \in SleepModes
        BY <3>2, <2>0, Modes
      <4>0. l.locks \in [SleepModes -> 0 .. 255]
        BY <2>1 DEF Controller
      <4>2. MayUnlock(l.locks, sleep_mode[s.uhd_state])
        BY <4>1, <3>2, <2>1 DEF MayUnlock, Held
      <4>3. r = [l EXCEPT !.locks = Unlocked(@, sleep_mode[s.uhd_state])]
        BY <3>2, <4>2, <2>1 DEF UnlockOld
      <4>4. \A m \in SleepModes : Unlocked(l.locks, sleep_mode[s.uhd_state])[m] = Held(new, m) + x[m]
        <5> TAKE m \in SleepModes
        <5>1. Held(new, m) \in 0 .. 1 /\ x[m] \in 0 .. 1
          BY DEF Held
        <5>2. CASE m = sleep_mode[s.uhd_state]
          <6>1. l.locks[m] = 1 + Held(new, m) + x[m]
            BY <5>1, <5>2, <2>1, <3>2 DEF Held
          <6>2. Unlocked(l.locks, m)[m] = (l.locks[m] - 1) % 256
            BY <4>0 DEF Unlocked
          <6> QED  BY <6>1, <6>2, <5>1, <5>2
        <5>3. CASE m # sleep_mode[s.uhd_state]
          BY <5>1, <5>3, <4>0, <4>1, <2>1, <3>2 DEF Unlocked, Held
        <5> QED  BY <5>2, <5>3
      <4>5. r \in Controller
        BY <2>0, <2>1, UnlockOldType
      <4> QED  BY <4>3, <4>4, <4>5, <2>1 DEF Controller
    <3> QED  BY <3>1, <3>2
  <2>3. uhd_sleep_mode(s, new) = [r EXCEPT !.uhd_state = new]
    BY <1>1 DEF uhd_sleep_mode, l
  <2> HIDE DEF r
  <2> QED  BY <2>2, <2>3 DEF Controller
<1> QED  BY <1>0, <1>1

-----------------------------------------------------------------------------
LEMMA InitInv == Init => IInv
<1> SUFFICES ASSUME Init PROVE IInv
  OBVIOUS
<1>1. TypeOK
  <2>1. u \in Controller
    BY PowerAssumption DEF Init, Controller, States, NoLocks, PowerAssumption
  <2>2. pc = "idle" /\ copy \in States /\ raced \in BOOLEAN /\ pdca \in BOOLEAN
    BY DEF Init, States
  <2>3. plugs \in 0 .. MaxPlug /\ calls \in 0 .. MaxCall /\ starts \in 0 .. MaxStart
    BY PowerAssumption DEF Init, PowerAssumption
  <2>4. ~u.attached /\ ~u.seen /\ u.enabled = {} /\ u.uhd_state = "OFF"
    BY DEF Init
  <2> QED  BY <2>1, <2>2, <2>3, <2>4 DEF TypeOK
<1>2. Wake
  BY DEF Init, Wake, Wakeups, Line
<1>3. Locks
  BY DEF Init, Locks, Holders, NoLocks, InMode, SleepModes
<1> QED  BY <1>1, <1>2, <1>3 DEF IInv

(* A handler that leaves the driver in the state new, its other fields being of their
   types, keeps the locks. *)
LEMMA HandlerLocks ==
    ASSUME TypeOK, Locks, ~u.hung, NEW s \in Controller, NEW new \in States,
           s.locks = u.locks, s.uhd_state = u.uhd_state, s.hung = u.hung,
           u'.locks = uhd_sleep_mode(s, new).locks, u'.hung = uhd_sleep_mode(s, new).hung,
           u'.uhd_state = new, Serve(u')
    PROVE  Locks'
<1> SUFFICES ASSUME ~raced' PROVE Locks'
  BY DEF Locks
<1>1. ~raced /\ UNCHANGED <<pc, copy, pdca>> /\ (pc \in InMode => new = u.uhd_state)
  BY DEF Serve, InMode, TypeOK
<1>2. CASE new = u.uhd_state
  <2>1. uhd_sleep_mode(s, new) = s
    BY <1>2 DEF uhd_sleep_mode
  <2> QED  BY <2>1, <1>1, <1>2 DEF Locks, Holders
<1>3. CASE new # u.uhd_state
  <2> DEFINE x == [m \in SleepModes |-> IF pdca /\ m = SLEEPMGR_BACKUP THEN 1 ELSE 0]
  <2>1. pc \notin InMode /\ pc # "assign"
    BY <1>1, <1>3 DEF InMode
  <2>2. x \in [SleepModes -> 0 .. 1]
    OBVIOUS
  <2>3. \A m \in SleepModes : Holders(m) = Held(u.uhd_state, m) + x[m]
    BY <2>1 DEF Holders, Held
  <2>4. \A m \in SleepModes : s.locks[m] = Held(s.uhd_state, m) + x[m]
    BY <2>3, <1>1 DEF Locks
  <2>5. /\ ~uhd_sleep_mode(s, new).hung
        /\ \A m \in SleepModes : uhd_sleep_mode(s, new).locks[m] = Held(new, m) + x[m]
    <3> HIDE DEF x
    <3> QED  BY <2>2, <2>4, SleepModeLocks
  <2>6. \A m \in SleepModes : Holders(m)' = Held(new, m) + x[m]
    BY <2>1, <1>1 DEF Holders, Held
  <2> QED  BY <2>1, <2>5, <2>6, <1>1 DEF Locks, InMode
<1> QED  BY <1>2, <1>3

-----------------------------------------------------------------------------
(* What the handler finds once the clock runs: its own fields as they were. *)
LEMMA AwakeType ==
    ASSUME u \in Controller, NEW s \in Awake(u)
    PROVE  /\ s \in Controller /\ ~s.frozen /\ u.flags \subseteq s.flags
           /\ s.on = u.on /\ s.attached = u.attached /\ s.enabled = u.enabled /\ s.sof = u.sof
           /\ s.resume = u.resume /\ s.suspend_start = u.suspend_start
           /\ s.resume_start = u.resume_start /\ s.uhd_state = u.uhd_state
           /\ s.locks = u.locks /\ s.hung = u.hung
<1> DEFINE r == [u EXCEPT !.frozen = FALSE]
<1>1. r \in Controller /\ ~r.frozen
  BY DEF Controller
<1>2. Changed(r) \subseteq Interrupts
  BY DEF Changed, Interrupts
<1>3. CASE s = r
  BY <1>1, <1>3 DEF Controller
<1>4. CASE s = Detected(r)
  <2>1. s = [r EXCEPT !.flags = @ \cup Changed(r), !.seen = r.attached]
    BY <1>4 DEF Detected
  <2> QED  BY <2>1, <1>1, <1>2 DEF Controller
<1> QED  BY <1>3, <1>4 DEF Awake

LEMMA AwakeLine ==
    ASSUME u \in Controller, Line(u), NEW s \in Awake(u)
    PROVE  Line(s)
<1> DEFINE r == [u EXCEPT !.frozen = FALSE]
<1>1. r.on = u.on /\ r.flags = u.flags /\ r.enabled = u.enabled /\ r.attached = u.attached
      /\ r.seen = u.seen /\ r \in Controller
  BY DEF Controller
<1>2. Line(r)
  BY <1>1 DEF Line
<1>3. CASE s = Detected(r)
  <2>1. s = [r EXCEPT !.flags = @ \cup Changed(r), !.seen = r.attached]
    BY <1>3 DEF Detected
  <2> HIDE DEF r
  <2>2. s.on = r.on /\ s.flags = r.flags \cup Changed(r) /\ s.enabled = r.enabled
        /\ s.attached = r.attached /\ s.seen = r.attached
    BY <1>1, <2>1 DEF Controller
  <2> QED  BY <1>1, <1>2, <2>2 DEF Line, Changed, Controller
<1> QED  BY <1>2, <1>3 DEF Awake

(* The fields of each handler's result *)
LEMMA DisconnectFields ==
    ASSUME TypeOK, Disconnect
    PROVE  \E s \in Controller, t \in Awake(u) :
        /\ IsDisconnection(t) /\ s.attached = t.attached /\ s.seen = t.seen
        /\ s.flags = t.flags \ {"DDISC", "DCONN", "HWUP"}
        /\ s.locks = u.locks /\ s.uhd_state = u.uhd_state /\ s.hung = u.hung /\ s.on = u.on
        /\ s.enabled = (u.enabled \ ({"DDISC"} \cup Wakeups)) \cup {"DCONN", "HWUP"}
        /\ Serve(u') /\ u' = uhd_sleep_mode(s, "DISCONNECT")
<1>1. PICK s \in Awake(u) :
        IsDisconnection(s) /\ Serve(uhd_sleep_mode(
            [s EXCEPT !.flags = @ \ {"DDISC", "DCONN", "HWUP"},
                      !.enabled = (@ \ ({"DDISC"} \cup Wakeups)) \cup {"DCONN", "HWUP"},
                      !.frozen = TRUE, !.suspend_start = 0, !.resume_start = 0], "DISCONNECT"))
  BY DEF Disconnect
<1> DEFINE r == [s EXCEPT !.flags = @ \ {"DDISC", "DCONN", "HWUP"},
                      !.enabled = (@ \ ({"DDISC"} \cup Wakeups)) \cup {"DCONN", "HWUP"},
                      !.frozen = TRUE, !.suspend_start = 0, !.resume_start = 0]
<1>2. s \in Controller /\ s.enabled = u.enabled /\ s.on = u.on
      /\ s.uhd_state = u.uhd_state /\ s.locks = u.locks /\ s.hung = u.hung
  BY AwakeType DEF TypeOK
<1>3. r \in Controller /\ r.locks = u.locks /\ r.uhd_state = u.uhd_state /\ r.hung = u.hung
      /\ r.on = u.on /\ r.enabled = (u.enabled \ ({"DDISC"} \cup Wakeups)) \cup {"DCONN", "HWUP"}
      /\ r.attached = s.attached /\ r.seen = s.seen /\ r.flags = s.flags \ {"DDISC", "DCONN", "HWUP"}
  <2> DEFINE F == s.flags \ {"DDISC", "DCONN", "HWUP"}
             E == (s.enabled \ ({"DDISC"} \cup Wakeups)) \cup {"DCONN", "HWUP"}
  <2>1. F \in SUBSET Interrupts /\ E \in SUBSET Interrupts
    BY <1>2 DEF Controller, Interrupts
  <2>2. r = [s EXCEPT !.flags = F, !.enabled = E, !.frozen = TRUE,
                      !.suspend_start = 0, !.resume_start = 0]
    OBVIOUS
  <2>3. E = (u.enabled \ ({"DDISC"} \cup Wakeups)) \cup {"DCONN", "HWUP"}
    BY <1>2
  <2>4. 0 \in 0 .. RESUME /\ 0 \in 0 .. 3
    BY PowerAssumption DEF PowerAssumption
  <2> HIDE DEF F, E, r
  <2>5. r \in Controller
    BY <1>2, <2>1, <2>2, <2>4 DEF Controller
  <2>6. r.locks = u.locks /\ r.uhd_state = u.uhd_state /\ r.hung = u.hung /\ r.on = u.on
        /\ r.enabled = E /\ r.attached = s.attached /\ r.seen = s.seen /\ r.flags = F
    BY <1>2, <2>2 DEF Controller
  <2> QED  BY <2>3, <2>5, <2>6 DEF F
<1>4. u' = uhd_sleep_mode(r, "DISCONNECT")
  BY <1>1 DEF Serve
<1> QED  BY <1>1, <1>3, <1>4

LEMMA ConnectFields ==
    ASSUME TypeOK, Connect
    PROVE  \E s \in Controller :
        /\ s.locks = u.locks /\ s.uhd_state = u.uhd_state /\ s.hung = u.hung /\ s.on = u.on
        /\ s.enabled = (u.enabled \ {"DCONN"}) \cup {"DDISC"} /\ s.sof /\ ~s.frozen
        /\ "DDISC" \notin s.flags /\ Serve(u')
        /\ u' = [uhd_sleep_mode(s, "IDLE") EXCEPT !.suspend_start = 0, !.resume_start = 0]
<1>1. PICK s \in Awake(u) :
        Serve([uhd_sleep_mode(
            [s EXCEPT !.flags = @ \ {"DCONN", "DDISC"}, !.enabled = (@ \ {"DCONN"}) \cup {"DDISC"},
                      !.sof = TRUE], "IDLE") EXCEPT !.suspend_start = 0, !.resume_start = 0])
  BY DEF Connect
<1> DEFINE r == [s EXCEPT !.flags = @ \ {"DCONN", "DDISC"},
                          !.enabled = (@ \ {"DCONN"}) \cup {"DDISC"}, !.sof = TRUE]
<1>2. s \in Controller /\ ~s.frozen /\ s.enabled = u.enabled /\ s.on = u.on
      /\ s.uhd_state = u.uhd_state /\ s.locks = u.locks /\ s.hung = u.hung
  BY AwakeType DEF TypeOK
<1>3. r \in Controller /\ r.locks = u.locks /\ r.uhd_state = u.uhd_state /\ r.hung = u.hung
      /\ r.on = u.on /\ r.enabled = (u.enabled \ {"DCONN"}) \cup {"DDISC"} /\ r.sof /\ ~r.frozen
      /\ "DDISC" \notin r.flags
  BY <1>2 DEF Controller, Interrupts
<1>4. u' = [uhd_sleep_mode(r, "IDLE") EXCEPT !.suspend_start = 0, !.resume_start = 0]
  BY <1>1 DEF Serve
<1> QED  BY <1>1, <1>3, <1>4

LEMMA WakeupFields ==
    ASSUME TypeOK, Wakeup
    PROVE  \E s \in Controller, t \in Awake(u) :
        /\ s.attached = t.attached /\ s.seen = t.seen /\ s.flags = t.flags
        /\ s.locks = u.locks /\ s.uhd_state = u.uhd_state /\ s.hung = u.hung /\ s.on = u.on
        /\ s.enabled = u.enabled \ Wakeups /\ s.sof /\ ~s.frozen
        /\ Serve(u') /\ u' = uhd_sleep_mode(s, "IDLE")
<1>1. PICK s \in Awake(u) :
        Serve(uhd_sleep_mode([s EXCEPT !.enabled = @ \ Wakeups, !.sof = TRUE,
                                       !.resume_start = RESUME], "IDLE"))
  BY DEF Wakeup
<1> DEFINE r == [s EXCEPT !.enabled = @ \ Wakeups, !.sof = TRUE, !.resume_start = RESUME]
<1>2. s \in Controller /\ ~s.frozen /\ s.enabled = u.enabled /\ s.on = u.on
      /\ s.uhd_state = u.uhd_state /\ s.locks = u.locks /\ s.hung = u.hung
  BY AwakeType DEF TypeOK
<1>3. r \in Controller /\ r.locks = u.locks /\ r.uhd_state = u.uhd_state /\ r.hung = u.hung
      /\ r.on = u.on /\ r.enabled = u.enabled \ Wakeups /\ r.sof /\ ~r.frozen
      /\ r.attached = s.attached /\ r.seen = s.seen /\ r.flags = s.flags
  <2> DEFINE E == s.enabled \ Wakeups
  <2>1. E \in SUBSET Interrupts
    BY <1>2 DEF Controller
  <2>2. r = [s EXCEPT !.enabled = E, !.sof = TRUE, !.resume_start = RESUME]
    OBVIOUS
  <2>3. E = u.enabled \ Wakeups
    BY <1>2
  <2>4. RESUME \in 0 .. RESUME
    BY PowerAssumption DEF PowerAssumption
  <2> HIDE DEF E
  <2> QED  BY <1>2, <2>1, <2>2, <2>3, <2>4 DEF Controller
<1>4. u' = uhd_sleep_mode(r, "IDLE")
  BY <1>1 DEF Serve
<1> QED  BY <1>1, <1>3, <1>4

LEMMA SofSuspendFields ==
    ASSUME TypeOK, SofSuspend
    PROVE  \/ /\ u' = [u EXCEPT !.suspend_start = u.suspend_start - 1]
              /\ u' \in Controller /\ Serve(u')
           \/ \E s \in Controller :
                /\ s.locks = u.locks /\ s.uhd_state = u.uhd_state /\ s.hung = u.hung /\ s.on = u.on
                /\ s.enabled = u.enabled \cup Wakeups /\ ~s.sof
                /\ s.attached = u.attached /\ s.seen = u.seen /\ s.flags = u.flags \ Wakeups
                /\ Serve(u') /\ u' = uhd_sleep_mode(s, "SUSPEND")
<1>1. CASE u.suspend_start > 1
  <2>1. Serve([u EXCEPT !.suspend_start = @ - 1])
    BY <1>1 DEF SofSuspend
  <2>2. [u EXCEPT !.suspend_start = u.suspend_start - 1] \in Controller
    BY <1>1 DEF TypeOK, Controller
  <2> QED  BY <2>1, <2>2 DEF Serve
<1>2. CASE ~(u.suspend_start > 1)
  <2> DEFINE r == [u EXCEPT !.suspend_start = 0, !.sof = FALSE, !.flags = @ \ Wakeups,
                            !.enabled = @ \cup Wakeups, !.frozen = TRUE]
  <2>1. Serve(uhd_sleep_mode(r, "SUSPEND"))
    BY <1>2 DEF SofSuspend
  <2>2. r \in Controller /\ r.locks = u.locks /\ r.uhd_state = u.uhd_state /\ r.hung = u.hung
        /\ r.on = u.on /\ r.enabled = u.enabled \cup Wakeups /\ ~r.sof
        /\ r.attached = u.attached /\ r.seen = u.seen /\ r.flags = u.flags \ Wakeups
    <3> DEFINE F == u.flags \ Wakeups
               E == u.enabled \cup Wakeups
    <3>1. F \in SUBSET Interrupts /\ E \in SUBSET Interrupts /\ u \in Controller
      BY DEF TypeOK, Controller, Interrupts, Wakeups
    <3>2. r = [u EXCEPT !.suspend_start = 0, !.sof = FALSE, !.flags = F, !.enabled = E,
                        !.frozen = TRUE]
      OBVIOUS
    <3>3. 0 \in 0 .. 3
      OBVIOUS
    <3> HIDE DEF F, E
    <3>4. r \in Controller /\ r.locks = u.locks /\ r.uhd_state = u.uhd_state /\ r.hung = u.hung
          /\ r.on = u.on /\ r.enabled = E /\ ~r.sof
          /\ r.attached = u.attached /\ r.seen = u.seen /\ r.flags = F
      BY <3>1, <3>2, <3>3 DEF Controller
    <3> QED  BY <3>4 DEF E, F
  <2> QED  BY <2>1, <2>2 DEF Serve
<1> QED  BY <1>1, <1>2

-----------------------------------------------------------------------------
(* TypeOK is kept by every step. *)

LEMMA TypeHandler ==
    ASSUME TypeOK, [Next]_vars, Handler
    PROVE  TypeOK'
<1>1. ASSUME u' \in Controller, u'.on = u.on, u.on, Serve(u')
      PROVE  TypeOK'
  BY <1>1 DEF Serve, TypeOK
<1>0. u \in Controller
  BY DEF TypeOK
<1>2. CASE Disconnect
  <2>1. PICK s \in Controller :
            s.on = u.on /\ Serve(u') /\ u' = uhd_sleep_mode(s, "DISCONNECT")
    BY <1>2, DisconnectFields
  <2>2. u' \in Controller /\ u'.on = s.on
    BY <2>1, SleepModeType DEF States
  <2> QED  BY <1>1, <1>2, <2>1, <2>2 DEF Disconnect, Pending
<1>3. CASE Connect
  <2>1. PICK s \in Controller :
            /\ s.on = u.on /\ Serve(u')
            /\ u' = [uhd_sleep_mode(s, "IDLE") EXCEPT !.suspend_start = 0, !.resume_start = 0]
    BY <1>3, ConnectFields
  <2>2. uhd_sleep_mode(s, "IDLE") \in Controller /\ uhd_sleep_mode(s, "IDLE").on = s.on
    BY <2>1, SleepModeType DEF States
  <2>3. u' \in Controller /\ u'.on = s.on
    <3>1. 0 \in 0 .. 3 /\ 0 \in 0 .. RESUME
      BY PowerAssumption DEF PowerAssumption
    <3> DEFINE r == uhd_sleep_mode(s, "IDLE")
    <3> HIDE DEF r
    <3>2. [r EXCEPT !.suspend_start = 0, !.resume_start = 0].on = r.on
          /\ (r \in Controller => [r EXCEPT !.suspend_start = 0, !.resume_start = 0] \in Controller)
      BY <2>2, <3>1 DEF Controller, r
    <3> QED  BY <2>1, <2>2, <3>2 DEF r
  <2> QED  BY <1>1, <1>3, <2>1, <2>3 DEF Connect, Pending
<1>4. CASE WakeupConnection
  <2>1. PICK s \in Awake(u) : Serve([s EXCEPT !.enabled = @ \ {"HWUP"}])
    BY <1>4 DEF WakeupConnection
  <2>2. s \in Controller /\ s.on = u.on
    BY <1>0, <2>1, AwakeType
  <2>3. u' = [s EXCEPT !.enabled = @ \ {"HWUP"}]
    BY <2>1 DEF Serve
  <2>4. u' \in Controller /\ u'.on = u.on
    BY <2>2, <2>3 DEF Controller
  <2> QED  BY <1>1, <1>4, <2>1, <2>3, <2>4 DEF WakeupConnection, Pending
<1>5. CASE Wakeup
  <2>1. PICK s \in Controller : s.on = u.on /\ Serve(u') /\ u' = uhd_sleep_mode(s, "IDLE")
    BY <1>5, WakeupFields
  <2>2. u' \in Controller /\ u'.on = s.on
    BY <2>1, SleepModeType DEF States
  <2> QED  BY <1>1, <1>5, <2>1, <2>2 DEF Wakeup, Pending
<1>6. CASE SofSuspend
  <2>1. CASE u' = [u EXCEPT !.suspend_start = u.suspend_start - 1] /\ u' \in Controller /\ Serve(u')
    <3>1. u'.on = u.on
      BY <1>0, <2>1 DEF Controller
    <3> QED  BY <1>1, <1>6, <2>1, <3>1 DEF SofSuspend, Sofs
  <2>2. CASE \E s \in Controller : s.on = u.on /\ Serve(u') /\ u' = uhd_sleep_mode(s, "SUSPEND")
    <3>1. PICK s \in Controller : s.on = u.on /\ Serve(u') /\ u' = uhd_sleep_mode(s, "SUSPEND")
      BY <2>2
    <3>2. u' \in Controller /\ u'.on = s.on
      BY <3>1, SleepModeType DEF States
    <3> QED  BY <1>1, <1>6, <3>1, <3>2 DEF SofSuspend, Sofs
  <2> QED  BY <1>6, <2>1, <2>2, SofSuspendFields
<1>7. CASE SofResume
  <2>1. u' = [u EXCEPT !.resume_start = u.resume_start - 1] /\ u.resume_start # 0 /\ Serve(u')
    BY <1>7 DEF SofResume, Serve
  <2>2. u.resume_start - 1 \in 0 .. RESUME
    BY <1>0, <2>1, PowerAssumption DEF Controller, PowerAssumption
  <2>3. u' \in Controller /\ u'.on = u.on
    BY <1>0, <2>1, <2>2 DEF Controller
  <2> QED  BY <1>1, <1>7, <2>1, <2>3 DEF SofResume, Sofs
<1> QED  BY <1>2, <1>3, <1>4, <1>5, <1>6, <1>7 DEF Handler

LEMMA TypeNext == TypeOK /\ [Next]_vars => TypeOK'
<1> SUFFICES ASSUME TypeOK, [Next]_vars PROVE TypeOK'
  OBVIOUS
<1>0. u \in Controller /\ 0 \in 0 .. 3 /\ 0 \in 0 .. RESUME /\ 1 \in 0 .. RESUME /\ 3 \in 0 .. 3
  BY PowerAssumption DEF TypeOK, PowerAssumption
<1>1. CASE Handler
  BY <1>1, TypeHandler
<1>2. CASE Plug
  <2>1. u' = [u EXCEPT !.flags = u'.flags, !.attached = TRUE] /\ u'.flags \in SUBSET Interrupts
    BY <1>0, <1>2 DEF Plug, Woken, Controller, Interrupts
  <2>2. u' \in Controller /\ u'.on /\ u.on
    BY <1>0, <1>2, <2>1, ZenonT(60) DEF Plug, Controller
  <2> QED  BY <1>2, <2>2, PowerAssumption DEF Plug, TypeOK, PowerAssumption
<1>3. CASE Unplug
  <2>1. u' = [u EXCEPT !.flags = u'.flags, !.attached = FALSE] /\ u'.flags \in SUBSET Interrupts
    BY <1>0, <1>3 DEF Unplug, Woken, Controller, Interrupts
  <2>2. u' \in Controller /\ u'.on /\ u.on
    BY <1>0, <1>3, <2>1, ZenonT(60) DEF Unplug, Controller
  <2> QED  BY <1>3, <2>2 DEF Unplug, TypeOK
<1>4. CASE Detect
  <2>1. u' = [u EXCEPT !.flags = u'.flags, !.seen = u.attached] /\ u'.flags \in SUBSET Interrupts
    BY <1>0, <1>4 DEF Detect, Detected, Changed, Controller, Interrupts
  <2>2. u' \in Controller /\ u'.on /\ u.on
    BY <1>0, <1>4, <2>1, ZenonT(60) DEF Detect, Controller
  <2> QED  BY <1>4, <2>2 DEF Detect, TypeOK
<1>5. CASE DeviceResume
  <2>1. u' = [u EXCEPT !.flags = u'.flags] /\ u'.flags \in SUBSET Interrupts
    BY <1>0, <1>5 DEF DeviceResume, Controller, Interrupts
  <2>2. u' \in Controller /\ u'.on /\ u.on
    BY <1>0, <1>5, <2>1 DEF DeviceResume, Controller
  <2> QED  BY <1>5, <2>2 DEF DeviceResume, TypeOK
<1>6. CASE ResumeSent
  <2>1. u' = [u EXCEPT !.resume = FALSE, !.flags = u'.flags] /\ u'.flags \in SUBSET Interrupts
    BY <1>0, <1>6 DEF ResumeSent, Controller, Interrupts
  <2>2. u' \in Controller /\ u'.on /\ u.on
    BY <1>0, <1>6, <2>1, ZenonT(60) DEF ResumeSent, Controller
  <2> QED  BY <1>6, <2>2 DEF ResumeSent, TypeOK
<1>7. CASE HandlerSuspend \/ uhd_suspend
  <2>1. u' = [u EXCEPT !.suspend_start = 3] /\ u.on
    BY <1>7 DEF HandlerSuspend, uhd_suspend, Sofs
  <2>2. u' \in Controller /\ u'.on
    BY <1>0, <2>1 DEF Controller
  <2> QED  BY <1>7, <2>1, <2>2, PowerAssumption DEF HandlerSuspend, uhd_suspend, TypeOK, PowerAssumption
<1>8. CASE uhd_enable
  <2> DEFINE a == [u EXCEPT !.on = TRUE, !.flags = {}, !.enabled = {"HWUP", "DCONN"}, !.frozen = TRUE,
                            !.suspend_start = 0, !.resume_start = 0]
             b == uhd_sleep_mode(a, "OFF")
             c == uhd_sleep_mode(b, "NO_VBUS")
  <2>1. a \in Controller /\ a.on
    BY <1>0 DEF Controller, Interrupts
  <2>2. b \in Controller /\ b.on
    BY <2>1, SleepModeType DEF States
  <2>3. c \in Controller /\ c.on
    BY <2>2, SleepModeType DEF States
  <2>4. u' = uhd_sleep_mode(c, "DISCONNECT")
    BY <1>8 DEF uhd_enable
  <2> HIDE DEF a, b, c
  <2>5. u' \in Controller /\ u'.on
    BY <2>3, <2>4, SleepModeType DEF States
  <2> QED  BY <1>8, <2>5, PowerAssumption DEF uhd_enable, TypeOK, PowerAssumption
<1>9. CASE uhd_disable
  <2> DEFINE a == [u EXCEPT !.on = FALSE, !.enabled = {}, !.sof = FALSE, !.frozen = TRUE,
                            !.attached = FALSE, !.seen = FALSE, !.resume = FALSE]
  <2>1. a \in Controller /\ ~a.on /\ ~a.attached /\ ~a.seen /\ a.enabled = {}
    BY <1>0, ZenonT(60) DEF Controller
  <2>2. u' = uhd_sleep_mode(a, "OFF")
    BY <1>9 DEF uhd_disable
  <2> HIDE DEF a
  <2>3. /\ u' \in Controller /\ u'.uhd_state = "OFF" /\ u'.enabled = {}
        /\ ~u'.attached /\ ~u'.seen
    BY <2>1, <2>2, SleepModeType DEF States
  <2> QED  BY <1>9, <2>3 DEF uhd_disable, MainIdle, TypeOK
<1>10. CASE pdca_enable
  <2>1. Locked(u.locks, SLEEPMGR_BACKUP) \in [SleepModes -> 0 .. 255]
    BY <1>0 DEF Locked, SleepModes, SLEEPMGR_BACKUP, Controller
  <2>2. u' = [u EXCEPT !.locks = Locked(u.locks, SLEEPMGR_BACKUP)]
    BY <1>10 DEF pdca_enable
  <2>3. /\ u' \in Controller /\ u'.on = u.on /\ u'.attached = u.attached /\ u'.seen = u.seen
        /\ u'.enabled = u.enabled /\ u'.uhd_state = u.uhd_state
    BY <1>0, <2>1, <2>2 DEF Controller
  <2> QED  BY <1>10, <2>3 DEF pdca_enable, TypeOK
<1>11. CASE ResumeCall
  BY <1>11, PowerAssumption DEF ResumeCall, TypeOK, PowerAssumption
<1>12. CASE Resume
  <2>1. ASSUME u' \in Controller, u'.on = u.on
        PROVE  TypeOK'
    <3>1. u.on /\ pc # "idle"
      BY <1>12 DEF Resume, ResumeSofs, ResumeUnfreeze, ResumeEnable, ResumeSend, ModeRead, ModeLock,
                   ModeTest, ModeUnlock, ModeAssign, Step, TypeOK
    <3>2. /\ pc' \in {"idle", "sofs", "unfreeze", "enable", "send", "mode", "hung"} \cup InMode
          /\ copy' \in States
      BY <1>0, <1>12 DEF Resume, ResumeSofs, ResumeUnfreeze, ResumeEnable, ResumeSend, ModeRead,
                   ModeLock, ModeTest, ModeUnlock, ModeAssign, Step, TypeOK, InMode, Controller
    <3>3. UNCHANGED <<raced, pdca, plugs, calls, starts>>
      BY <1>12 DEF Resume, ResumeSofs, ResumeUnfreeze, ResumeEnable, ResumeSend, ModeRead, ModeLock,
                   ModeTest, ModeUnlock, ModeAssign, Step
    <3> QED  BY <2>1, <3>1, <3>2, <3>3 DEF TypeOK
  <2>2. CASE ResumeSofs \/ ResumeUnfreeze \/ ResumeEnable \/ ResumeSend
    <3>1. \/ u' = u
          \/ u' = [u EXCEPT !.suspend_start = 0, !.resume_start = 1]
          \/ u' = [u EXCEPT !.frozen = FALSE]
          \/ u' = [u EXCEPT !.sof = TRUE]
          \/ u' = [u EXCEPT !.resume = TRUE]
      BY <2>2 DEF ResumeSofs, ResumeUnfreeze, ResumeEnable, ResumeSend, Step
    <3>2. u' \in Controller /\ u'.on = u.on
      <4>1. CASE u' = u
        BY <1>0, <4>1
      <4>2. CASE u' = [u EXCEPT !.suspend_start = 0, !.resume_start = 1]
        BY <1>0, <4>2 DEF Controller
      <4>3. CASE u' = [u EXCEPT !.frozen = FALSE]
        BY <1>0, <4>3 DEF Controller
      <4>4. CASE u' = [u EXCEPT !.sof = TRUE]
        BY <1>0, <4>4 DEF Controller
      <4>5. CASE u' = [u EXCEPT !.resume = TRUE]
        BY <1>0, <4>5 DEF Controller
      <4> QED  BY <3>1, <4>1, <4>2, <4>3, <4>4, <4>5
    <3> QED  BY <2>1, <3>2
  <2>3. CASE ModeRead \/ ModeTest
    BY <1>0, <2>1, <2>3 DEF ModeRead, ModeTest, Step
  <2>4. CASE ModeLock
    <3>1. Locked(u.locks, SLEEPMGR_SLEEP_0) \in [SleepModes -> 0 .. 255]
      BY <1>0 DEF Locked, SleepModes, SLEEPMGR_SLEEP_0, Controller
    <3>2. u' = u \/ u' = [u EXCEPT !.locks = Locked(u.locks, SLEEPMGR_SLEEP_0)]
      BY <2>4 DEF ModeLock, Step
    <3>3. u' \in Controller /\ u'.on = u.on
      BY <1>0, <3>1, <3>2 DEF Controller
    <3> QED  BY <2>1, <3>3
  <2>5. CASE ModeUnlock
    <3>1. Unlocked(u.locks, sleep_mode[copy]) \in [SleepModes -> 0 .. 255]
      <4>1. CASE sleep_mode[copy] \in SleepModes
        BY <1>0, <4>1 DEF Unlocked, Controller
      <4>2. CASE sleep_mode[copy] \notin SleepModes
        <5>1. u.locks \in [SleepModes -> 0 .. 255]
          BY <1>0 DEF Controller
        <5>2. Unlocked(u.locks, sleep_mode[copy]) = u.locks
          BY <4>2, <5>1 DEF Unlocked
        <5> QED  BY <5>1, <5>2
      <4> QED  BY <4>1, <4>2
    <3>2. u' = [u EXCEPT !.locks = Unlocked(u.locks, sleep_mode[copy])]
      BY <2>5 DEF ModeUnlock, Step
    <3>3. u' \in Controller /\ u'.on = u.on
      BY <1>0, <3>1, <3>2 DEF Controller
    <3> QED  BY <2>1, <3>3
  <2>6. CASE ModeAssign
    <3>1. u' = [u EXCEPT !.uhd_state = "IDLE"]
      BY <2>6 DEF ModeAssign, Step
    <3>2. u' \in Controller /\ u'.on = u.on
      BY <1>0, <3>1 DEF Controller, States
    <3> QED  BY <2>1, <3>2
  <2> QED  BY <1>12, <2>2, <2>3, <2>4, <2>5, <2>6 DEF Resume
<1>13. CASE UNCHANGED vars
  BY <1>13 DEF vars, TypeOK
<1> QED  BY <1>1, <1>2, <1>3, <1>4, <1>5, <1>6, <1>7, <1>8, <1>9, <1>10, <1>11, <1>12, <1>13
         DEF Next, Bus, Main

-----------------------------------------------------------------------------
(* Wake is kept by every step. *)

LEMMA WakeHandler ==
    ASSUME TypeOK, Wake, Handler
    PROVE  Wake'
<1>0. u \in Controller /\ Line(u)
  BY DEF TypeOK, Wake
<1>1. CASE Disconnect
  <2>1. PICK s \in Controller, t \in Awake(u) :
            /\ IsDisconnection(t) /\ s.seen = t.seen
            /\ s.flags = t.flags \ {"DDISC", "DCONN", "HWUP"}
            /\ s.enabled = (u.enabled \ ({"DDISC"} \cup Wakeups)) \cup {"DCONN", "HWUP"}
            /\ u' = uhd_sleep_mode(s, "DISCONNECT")
    BY <1>1, DisconnectFields
  <2>2. u'.enabled = (u.enabled \ ({"DDISC"} \cup Wakeups)) \cup {"DCONN", "HWUP"}
        /\ u'.seen = s.seen
    BY <2>1, SleepModeType DEF States
  <2>3. ~t.seen
    <3>1. t.on /\ Line(t) /\ t.enabled = u.enabled
      BY <1>0, <1>1, AwakeLine, AwakeType DEF Disconnect, Pending
    <3> QED  BY <2>1, <3>1 DEF Line, IsDisconnection
  <2> QED  BY <2>1, <2>2, <2>3 DEF Wake, Wakeups, Line
<1>2. CASE Connect
  <2>1. PICK s \in Controller :
            /\ s.enabled = (u.enabled \ {"DCONN"}) \cup {"DDISC"} /\ s.sof /\ ~s.frozen /\ s.on = u.on
            /\ "DDISC" \notin s.flags
            /\ u' = [uhd_sleep_mode(s, "IDLE") EXCEPT !.suspend_start = 0, !.resume_start = 0]
    BY <1>2, ConnectFields
  <2> DEFINE r == uhd_sleep_mode(s, "IDLE")
  <2>2. r \in Controller /\ r.enabled = s.enabled /\ r.sof /\ ~r.frozen /\ r.uhd_state = "IDLE"
        /\ r.flags = s.flags
    BY <2>1, SleepModeType DEF States
  <2> HIDE DEF r
  <2>3. /\ u'.enabled = (u.enabled \ {"DCONN"}) \cup {"DDISC"} /\ "DDISC" \notin u'.flags
        /\ u'.sof /\ ~u'.frozen /\ u'.uhd_state = "IDLE"
    BY <2>1, <2>2 DEF Controller, r
  <2> QED  BY <2>3 DEF Wake, Wakeups, Line
<1>3. CASE WakeupConnection
  <2>1. PICK s \in Awake(u) : "DCONN" \in s.enabled /\ Serve([s EXCEPT !.enabled = @ \ {"HWUP"}])
    BY <1>3 DEF WakeupConnection
  <2>2. s \in Controller /\ s.enabled = u.enabled /\ s.on = u.on /\ Line(s) /\ u.on
    BY <1>0, <1>3, <2>1, AwakeType, AwakeLine DEF WakeupConnection, Pending
  <2>3. u' = [s EXCEPT !.enabled = @ \ {"HWUP"}]
    BY <2>1 DEF Serve
  <2>4. u'.enabled = u.enabled \ {"HWUP"} /\ u'.on = u.on /\ "DCONN" \in u.enabled
        /\ u'.flags = s.flags /\ u'.seen = s.seen /\ u'.attached = s.attached
    BY <2>1, <2>2, <2>3 DEF Controller
  <2> QED  BY <2>2, <2>4 DEF Wake, Wakeups, Line
<1>4. CASE Wakeup
  <2>1. PICK s \in Controller, t \in Awake(u) :
            /\ s.attached = t.attached /\ s.seen = t.seen /\ s.flags = t.flags /\ s.on = u.on
            /\ s.enabled = u.enabled \ Wakeups /\ s.sof /\ ~s.frozen /\ u' = uhd_sleep_mode(s, "IDLE")
    BY <1>4, WakeupFields
  <2>2. /\ u'.attached = t.attached /\ u'.seen = t.seen /\ u'.flags = t.flags /\ u'.on = u.on
        /\ u'.enabled = u.enabled \ Wakeups /\ u'.sof /\ ~u'.frozen /\ u'.uhd_state = "IDLE"
    BY <2>1, SleepModeType DEF States
  <2>3. Line(t) /\ t.on = u.on /\ t.enabled = u.enabled
    BY <1>0, AwakeLine, AwakeType
  <2> QED  BY <2>2, <2>3 DEF Wake, Wakeups, Line
<1>5. CASE SofSuspend
  <2>0. u.seen /\ Served /\ u.on
    BY <1>5 DEF SofSuspend, Sofs
  <2>1. CASE u' = [u EXCEPT !.suspend_start = u.suspend_start - 1] /\ Serve(u')
    <3>1. /\ u'.on = u.on /\ u'.enabled = u.enabled /\ u'.flags = u.flags /\ u'.seen = u.seen
          /\ u'.attached = u.attached /\ u'.sof = u.sof /\ u'.frozen = u.frozen
          /\ u'.uhd_state = u.uhd_state /\ u'.hung = u.hung /\ pc' = pc
      BY <1>0, <2>1 DEF Controller, Serve
    <3> QED  BY <3>1 DEF Wake, Line
  <2>2. CASE \E s \in Controller :
            /\ s.enabled = u.enabled \cup Wakeups /\ ~s.sof /\ s.on = u.on
            /\ s.attached = u.attached /\ s.seen = u.seen /\ s.flags = u.flags \ Wakeups
            /\ u' = uhd_sleep_mode(s, "SUSPEND")
    <3>1. PICK s \in Controller :
            /\ s.enabled = u.enabled \cup Wakeups /\ ~s.sof /\ s.on = u.on
            /\ s.attached = u.attached /\ s.seen = u.seen /\ s.flags = u.flags \ Wakeups
            /\ u' = uhd_sleep_mode(s, "SUSPEND")
      BY <2>2
    <3>2. /\ u'.enabled = u.enabled \cup Wakeups /\ ~u'.sof /\ u'.on = u.on
          /\ u'.attached = u.attached /\ u'.seen = u.seen /\ u'.flags = u.flags \ Wakeups
      BY <3>1, SleepModeType DEF States
    <3>3. "DCONN" \notin u.enabled
      BY <1>0, <2>0 DEF Line, Served
    <3> QED  BY <1>0, <3>2, <3>3 DEF Wake, Wakeups, Line
  <2> QED  BY <1>5, <2>1, <2>2, SofSuspendFields
<1>6. CASE SofResume
  <2>1. u' = [u EXCEPT !.resume_start = u.resume_start - 1] /\ pc' = pc
    BY <1>6 DEF SofResume, Serve
  <2>2. /\ u'.on = u.on /\ u'.enabled = u.enabled /\ u'.flags = u.flags /\ u'.seen = u.seen
        /\ u'.attached = u.attached /\ u'.sof = u.sof /\ u'.frozen = u.frozen
        /\ u'.uhd_state = u.uhd_state /\ u'.hung = u.hung
    BY <1>0, <2>1 DEF Controller
  <2> QED  BY <2>1, <2>2 DEF Wake, Line
<1> QED  BY <1>1, <1>2, <1>3, <1>4, <1>5, <1>6 DEF Handler

LEMMA WakeNext == TypeOK /\ Wake /\ [Next]_vars => Wake'
<1> SUFFICES ASSUME TypeOK, Wake, [Next]_vars PROVE Wake'
  OBVIOUS
<1>0. u \in Controller
  BY DEF TypeOK
<1>1. CASE Handler
  BY <1>1, WakeHandler
<1>2. CASE Plug \/ Unplug \/ DeviceResume \/ ResumeSent
  <2>1. /\ u'.enabled = u.enabled /\ u'.sof = u.sof /\ u'.frozen = u.frozen /\ u'.on = u.on
        /\ u'.uhd_state = u.uhd_state /\ u'.hung = u.hung /\ pc' = pc /\ u'.seen = u.seen
        /\ u.flags \subseteq u'.flags /\ u'.flags \subseteq u.flags \cup Wakeups
    <3>1. CASE Plug \/ Unplug
      <4>1. u' = [Woken(u) EXCEPT !.attached = u'.attached] /\ pc' = pc
        BY <1>0, <3>1 DEF Plug, Unplug, Woken, Controller
      <4>2. u' = [u EXCEPT !.attached = u'.attached]
            \/ u' = [u EXCEPT !.flags = u.flags \cup {"HWUP"}, !.attached = u'.attached]
        BY <1>0, <4>1 DEF Woken, Controller
      <4> QED  BY <1>0, <4>1, <4>2, ZenonT(60) DEF Wakeups, Controller
    <3>2. CASE DeviceResume
      <4>1. PICK f \in {{"HWUP"}, {"HWUP", "RXRSM"}} : u' = [u EXCEPT !.flags = u.flags \cup f] /\ pc' = pc
        BY <3>2 DEF DeviceResume
      <4> QED  BY <1>0, <4>1 DEF Wakeups, Controller
    <3>3. CASE ResumeSent
      <4>1. u' = [u EXCEPT !.resume = FALSE, !.flags = u.flags \cup {"RSMED"}] /\ pc' = pc
        BY <3>3 DEF ResumeSent
      <4> QED  BY <1>0, <4>1 DEF Wakeups, Controller
    <3> QED  BY <1>2, <3>1, <3>2, <3>3
  <2>2. u'.attached = u.attached \/ "DDISC" \notin u.flags \cap u.enabled
    BY <1>0, <1>2 DEF Plug, Unplug, DeviceResume, ResumeSent, Woken, Served, Controller
  <2>3. Line(u)'
    BY <2>1, <2>2 DEF Wake, Line, Wakeups
  <2> QED  BY <2>1, <2>3 DEF Wake
<1>3. CASE Detect
  <2>1. u' = [u EXCEPT !.flags = @ \cup Changed(u), !.seen = u.attached] /\ pc' = pc
    BY <1>3 DEF Detect, Detected
  <2>2. /\ u'.enabled = u.enabled /\ u'.sof = u.sof /\ u'.frozen = u.frozen /\ u'.on = u.on
        /\ u'.uhd_state = u.uhd_state /\ u'.hung = u.hung /\ u'.attached = u.attached
        /\ u'.seen = u.attached /\ u'.flags = u.flags \cup Changed(u)
    BY <1>0, <2>1 DEF Controller
  <2>3. Line(u)'
    BY <1>0, <1>3, <2>2 DEF Wake, Line, Changed, Detect, Controller
  <2> QED  BY <2>1, <2>2, <2>3 DEF Wake
<1>4. CASE HandlerSuspend \/ uhd_suspend \/ pdca_enable \/ ResumeCall \/ ModeUnlock \/ UNCHANGED vars
  <2>1. /\ u'.enabled = u.enabled /\ u'.sof = u.sof /\ u'.frozen = u.frozen /\ u'.on = u.on
        /\ u'.uhd_state = u.uhd_state /\ u'.hung = u.hung /\ u'.attached = u.attached
        /\ u'.seen = u.seen /\ u'.flags = u.flags
    BY <1>0, <1>4 DEF HandlerSuspend, uhd_suspend, pdca_enable, ResumeCall, ModeUnlock, Step, vars, Controller
  <2>2. pc' = pc \/ (pc = "idle" /\ pc' = "sofs") \/ (pc = "unlock" /\ pc' = "assign")
    BY <1>4 DEF HandlerSuspend, uhd_suspend, pdca_enable, ResumeCall, ModeUnlock, Step, MainIdle, vars
  <2> QED  BY <2>1, <2>2 DEF Wake, Line, InMode
<1>5. CASE uhd_enable
  <2> DEFINE a == [u EXCEPT !.on = TRUE, !.flags = {}, !.enabled = {"HWUP", "DCONN"}, !.frozen = TRUE,
                            !.suspend_start = 0, !.resume_start = 0]
             b == uhd_sleep_mode(a, "OFF")
             c == uhd_sleep_mode(b, "NO_VBUS")
  <2>0. 0 \in 0 .. 3 /\ 0 \in 0 .. RESUME /\ ~u.seen
    BY <1>5, PowerAssumption DEF PowerAssumption, uhd_enable, TypeOK
  <2>1. a \in Controller /\ a.flags = {} /\ a.enabled = {"HWUP", "DCONN"} /\ ~a.seen
    BY <1>0, <2>0 DEF Controller, Interrupts
  <2>2. b \in Controller /\ b.flags = a.flags /\ b.enabled = a.enabled /\ b.seen = a.seen
    BY <2>1, SleepModeType DEF States
  <2>3. c \in Controller /\ c.flags = b.flags /\ c.enabled = b.enabled /\ c.seen = b.seen
    BY <2>2, SleepModeType DEF States
  <2>4. u' = uhd_sleep_mode(c, "DISCONNECT")
    BY <1>5 DEF uhd_enable
  <2> HIDE DEF a, b, c
  <2>5. u'.flags = {} /\ u'.enabled = {"HWUP", "DCONN"} /\ ~u'.seen
    BY <2>1, <2>2, <2>3, <2>4, SleepModeType DEF States
  <2> QED  BY <2>5 DEF Wake, Line
<1>6. CASE uhd_disable
  <2> DEFINE a == [u EXCEPT !.on = FALSE, !.enabled = {}, !.sof = FALSE, !.frozen = TRUE,
                            !.attached = FALSE, !.seen = FALSE, !.resume = FALSE]
  <2>1. a \in Controller /\ ~a.on /\ a.enabled = {}
    BY <1>0, ZenonT(60) DEF Controller
  <2>2. u' = uhd_sleep_mode(a, "OFF")
    BY <1>6 DEF uhd_disable
  <2> HIDE DEF a
  <2>3. u'.enabled = {} /\ ~u'.on
    BY <2>1, <2>2, SleepModeType DEF States
  <2> QED  BY <2>3 DEF Wake, Line
<1>7. CASE ResumeSofs \/ ResumeUnfreeze \/ ResumeEnable \/ ResumeSend
  <2>1. /\ u'.enabled = u.enabled /\ u'.on = u.on /\ u'.attached = u.attached
        /\ u'.uhd_state = u.uhd_state /\ u'.hung = u.hung
        /\ u'.seen = u.seen /\ u'.flags = u.flags
    BY <1>0, <1>7 DEF ResumeSofs, ResumeUnfreeze, ResumeEnable, ResumeSend, Step, Controller
  <2>2. CASE ResumeSofs
    BY <1>0, <2>1, <2>2 DEF ResumeSofs, Step, Wake, Line, InMode, Controller
  <2>3. CASE ResumeUnfreeze
    BY <1>0, <2>1, <2>3 DEF ResumeUnfreeze, Step, Wake, Line, InMode, Controller
  <2>4. CASE ResumeEnable
    BY <1>0, <2>1, <2>4 DEF ResumeEnable, Step, Wake, Line, InMode, Controller
  <2>5. CASE ResumeSend
    BY <1>0, <2>1, <2>5 DEF ResumeSend, Step, Wake, Line, InMode, Controller
  <2> QED  BY <1>7, <2>2, <2>3, <2>4, <2>5
<1>8. CASE ModeRead \/ ModeLock \/ ModeTest \/ ModeAssign
  <2>1. /\ u'.enabled = u.enabled /\ u'.sof = u.sof /\ u'.frozen = u.frozen /\ u'.on = u.on
        /\ u'.hung = u.hung /\ u'.attached = u.attached /\ u'.seen = u.seen /\ u'.flags = u.flags
    BY <1>0, <1>8 DEF ModeRead, ModeLock, ModeTest, ModeAssign, Step, Controller
  <2>2. u'.uhd_state = "IDLE" \/ pc' \in {"lock", "test", "unlock", "assign", "hung"}
    BY <1>0, <1>8 DEF ModeRead, ModeLock, ModeTest, ModeAssign, Step, Controller
  <2> QED  BY <2>1, <2>2 DEF Wake, Line, InMode
<1> QED  BY <1>1, <1>2, <1>3, <1>4, <1>5, <1>6, <1>7, <1>8 DEF Next, Bus, Main, Resume

-----------------------------------------------------------------------------
(* Locks is kept by every step. *)

LEMMA LocksNext == TypeOK /\ Locks /\ [Next]_vars => Locks'
<1> SUFFICES ASSUME TypeOK, Locks, [Next]_vars PROVE Locks'
  OBVIOUS
<1>0. u \in Controller
  BY DEF TypeOK
<1>1. CASE Disconnect
  <2>1. PICK s \in Controller :
            /\ s.locks = u.locks /\ s.uhd_state = u.uhd_state /\ s.hung = u.hung
            /\ Serve(u') /\ u' = uhd_sleep_mode(s, "DISCONNECT")
    BY <1>1, DisconnectFields
  <2>2. ~u.hung /\ u'.uhd_state = "DISCONNECT"
    BY <1>1, <2>1, SleepModeType DEF States, Disconnect, Pending
  <2> QED  BY <2>1, <2>2, HandlerLocks DEF States
<1>2. CASE Connect
  <2>1. PICK s \in Controller :
            /\ s.locks = u.locks /\ s.uhd_state = u.uhd_state /\ s.hung = u.hung /\ Serve(u')
            /\ u' = [uhd_sleep_mode(s, "IDLE") EXCEPT !.suspend_start = 0, !.resume_start = 0]
    BY <1>2, ConnectFields
  <2> DEFINE r == uhd_sleep_mode(s, "IDLE")
  <2>2. ~u.hung /\ r \in Controller /\ r.uhd_state = "IDLE"
    BY <1>2, <2>1, SleepModeType DEF States, Connect, Pending
  <2> HIDE DEF r
  <2>3. u'.locks = r.locks /\ u'.hung = r.hung /\ u'.uhd_state = "IDLE"
    BY <2>1, <2>2 DEF r, Controller
  <2> QED  BY <2>1, <2>2, <2>3, HandlerLocks DEF States, r
<1>3. CASE Wakeup
  <2>1. PICK s \in Controller :
            /\ s.locks = u.locks /\ s.uhd_state = u.uhd_state /\ s.hung = u.hung
            /\ Serve(u') /\ u' = uhd_sleep_mode(s, "IDLE")
    BY <1>3, WakeupFields
  <2>2. ~u.hung /\ u'.uhd_state = "IDLE"
    BY <1>3, <2>1, SleepModeType DEF States, Wakeup, Pending
  <2> QED  BY <2>1, <2>2, HandlerLocks DEF States
<1>4. ASSUME u'.locks = u.locks, u'.uhd_state = u.uhd_state, u'.hung = u.hung, raced' = raced,
             pc' = pc, copy' = copy, pdca' = pdca
      PROVE  Locks'
  BY <1>4 DEF Locks, Holders
<1>5. CASE SofSuspend
  <2>1. CASE u' = [u EXCEPT !.suspend_start = u.suspend_start - 1] /\ Serve(u')
    <3>1. u'.locks = u.locks /\ u'.uhd_state = u.uhd_state /\ u'.hung = u.hung
      BY <1>0, <2>1 DEF Controller
    <3> QED  BY <1>4, <2>1, <3>1 DEF Serve, TypeOK
  <2>2. CASE \E s \in Controller :
            /\ s.locks = u.locks /\ s.uhd_state = u.uhd_state /\ s.hung = u.hung
            /\ Serve(u') /\ u' = uhd_sleep_mode(s, "SUSPEND")
    <3>1. PICK s \in Controller :
            /\ s.locks = u.locks /\ s.uhd_state = u.uhd_state /\ s.hung = u.hung
            /\ Serve(u') /\ u' = uhd_sleep_mode(s, "SUSPEND")
      BY <2>2
    <3>2. ~u.hung /\ u'.uhd_state = "SUSPEND"
      BY <1>5, <3>1, SleepModeType DEF States, SofSuspend
    <3> QED  BY <3>1, <3>2, HandlerLocks DEF States
  <2> QED  BY <1>5, <2>1, <2>2, SofSuspendFields
<1>6. CASE WakeupConnection
  <2>1. PICK s \in Awake(u) : Serve([s EXCEPT !.enabled = @ \ {"HWUP"}])
    BY <1>6 DEF WakeupConnection
  <2>2. s \in Controller /\ s.locks = u.locks /\ s.uhd_state = u.uhd_state /\ s.hung = u.hung
    BY <1>0, <2>1, AwakeType
  <2>3. u' = [s EXCEPT !.enabled = @ \ {"HWUP"}]
    BY <2>1 DEF Serve
  <2>4. u'.locks = u.locks /\ u'.uhd_state = u.uhd_state /\ u'.hung = u.hung
    BY <2>2, <2>3 DEF Controller
  <2>5. raced' = raced /\ UNCHANGED <<pc, copy, pdca>>
    BY <2>1, <2>3, <2>4 DEF Serve, TypeOK
  <2> QED  BY <1>4, <2>4, <2>5
<1>7. CASE SofResume
  <2>1. u' = [u EXCEPT !.resume_start = u.resume_start - 1] /\ Serve(u')
    BY <1>7 DEF SofResume, Serve
  <2>2. u'.locks = u.locks /\ u'.uhd_state = u.uhd_state /\ u'.hung = u.hung
    BY <1>0, <2>1 DEF Controller
  <2>3. raced' = raced /\ UNCHANGED <<pc, copy, pdca>>
    BY <2>1, <2>2 DEF Serve, TypeOK
  <2> QED  BY <1>4, <2>2, <2>3
<1>8. CASE Bus \/ HandlerSuspend \/ uhd_suspend \/ UNCHANGED vars
  <2>1. u'.locks = u.locks /\ u'.uhd_state = u.uhd_state /\ u'.hung = u.hung
    BY <1>0, <1>8, ZenonT(60) DEF Bus, Plug, Unplug, Detect, Detected, DeviceResume, ResumeSent, Woken,
                      HandlerSuspend, uhd_suspend, vars, Controller
  <2>2. raced' = raced /\ UNCHANGED <<pc, copy, pdca>>
    BY <1>8 DEF Bus, Plug, Unplug, Detect, DeviceResume, ResumeSent,
                HandlerSuspend, uhd_suspend, vars
  <2> QED  BY <1>4, <2>1, <2>2
<1>9. CASE uhd_enable
  <2> DEFINE a == [u EXCEPT !.on = TRUE, !.flags = {}, !.enabled = {"HWUP", "DCONN"}, !.frozen = TRUE,
                            !.suspend_start = 0, !.resume_start = 0]
             b == uhd_sleep_mode(a, "OFF")
             c == uhd_sleep_mode(b, "NO_VBUS")
             x == [m \in SleepModes |-> IF pdca /\ m = SLEEPMGR_BACKUP THEN 1 ELSE 0]
  <2> SUFFICES ASSUME ~raced' PROVE Locks'
    BY DEF Locks
  <2>0. 0 \in 0 .. 3 /\ 0 \in 0 .. RESUME /\ x \in [SleepModes -> 0 .. 1]
    BY PowerAssumption DEF PowerAssumption
  <2>1. a \in Controller /\ a.locks = u.locks /\ a.uhd_state = u.uhd_state /\ a.hung = u.hung
    BY <1>0, <2>0 DEF Controller, Interrupts
  <2>2. pc = "idle" /\ pc' = "idle" /\ pdca' = pdca /\ ~raced /\ ~u.hung
    BY <1>9 DEF uhd_enable, MainIdle
  <2>3. \A m \in SleepModes : Holders(m) = Held(u.uhd_state, m) + x[m]
    BY <2>2 DEF Holders, Held, InMode
  <2>4. ~a.hung /\ \A m \in SleepModes : a.locks[m] = Held(a.uhd_state, m) + x[m]
    BY <2>1, <2>2, <2>3 DEF Locks
  <2> HIDE DEF a, b, c, x
  <2>5. b \in Controller /\ ~b.hung /\ b.uhd_state = "OFF"
        /\ \A m \in SleepModes : b.locks[m] = Held("OFF", m) + x[m]
    BY <2>0, <2>1, <2>4, SleepModeType, SleepModeLocks DEF States, b
  <2>6. c \in Controller /\ ~c.hung /\ c.uhd_state = "NO_VBUS"
        /\ \A m \in SleepModes : c.locks[m] = Held("NO_VBUS", m) + x[m]
    BY <2>0, <2>5, SleepModeType, SleepModeLocks DEF States, c
  <2>7. u' = uhd_sleep_mode(c, "DISCONNECT")
    BY <1>9 DEF uhd_enable, a, b, c
  <2>8. ~u'.hung /\ u'.uhd_state = "DISCONNECT"
        /\ \A m \in SleepModes : u'.locks[m] = Held("DISCONNECT", m) + x[m]
    BY <2>0, <2>6, <2>7, SleepModeType, SleepModeLocks DEF States
  <2>9. \A m \in SleepModes : Holders(m)' = Held(u'.uhd_state, m) + x[m]
    BY <2>2 DEF Holders, Held, InMode, x
  <2> QED  BY <2>2, <2>8, <2>9 DEF Locks, InMode
<1>10. CASE uhd_disable
  <2> DEFINE a == [u EXCEPT !.on = FALSE, !.enabled = {}, !.sof = FALSE, !.frozen = TRUE,
                            !.attached = FALSE, !.seen = FALSE, !.resume = FALSE]
             x == [m \in SleepModes |-> IF pdca /\ m = SLEEPMGR_BACKUP THEN 1 ELSE 0]
  <2> SUFFICES ASSUME ~raced' PROVE Locks'
    BY DEF Locks
  <2>0. x \in [SleepModes -> 0 .. 1]
    OBVIOUS
  <2>1. a \in Controller /\ a.locks = u.locks /\ a.uhd_state = u.uhd_state /\ a.hung = u.hung
    BY <1>0, ZenonT(60) DEF Controller
  <2>2. pc = "idle" /\ pc' = "idle" /\ pdca' = pdca /\ ~raced /\ ~u.hung
    BY <1>10 DEF uhd_disable, MainIdle
  <2>3. \A m \in SleepModes : Holders(m) = Held(u.uhd_state, m) + x[m]
    BY <2>2 DEF Holders, Held, InMode
  <2>4. ~a.hung /\ \A m \in SleepModes : a.locks[m] = Held(a.uhd_state, m) + x[m]
    BY <2>1, <2>2, <2>3 DEF Locks
  <2>5. u' = uhd_sleep_mode(a, "OFF")
    BY <1>10 DEF uhd_disable
  <2> HIDE DEF a, x
  <2>6. ~u'.hung /\ u'.uhd_state = "OFF"
        /\ \A m \in SleepModes : u'.locks[m] = Held("OFF", m) + x[m]
    BY <2>0, <2>1, <2>4, <2>5, SleepModeType, SleepModeLocks DEF States
  <2>7. \A m \in SleepModes : Holders(m)' = Held(u'.uhd_state, m) + x[m]
    BY <2>2 DEF Holders, Held, InMode, x
  <2> QED  BY <2>2, <2>6, <2>7 DEF Locks, InMode
<1>11. CASE pdca_enable
  <2> SUFFICES ASSUME ~raced' PROVE Locks'
    BY DEF Locks
  <2>1. pc = "idle" /\ pc' = "idle" /\ ~pdca /\ pdca' /\ ~raced /\ ~u.hung /\ copy' = copy
    BY <1>11 DEF pdca_enable, MainIdle
  <2>2. u' = [u EXCEPT !.locks = Locked(u.locks, SLEEPMGR_BACKUP)]
    BY <1>11 DEF pdca_enable
  <2>3. u'.locks = Locked(u.locks, SLEEPMGR_BACKUP) /\ u'.uhd_state = u.uhd_state /\ u'.hung = u.hung
        /\ u.locks \in [SleepModes -> 0 .. 255]
    BY <1>0, <2>2 DEF Controller
  <2>4. \A m \in SleepModes : u.locks[m] = Held(u.uhd_state, m)
    BY <2>1 DEF Locks, Holders, Held, InMode
  <2>5. \A m \in SleepModes : Holders(m)' = Held(u.uhd_state, m) + (IF m = SLEEPMGR_BACKUP THEN 1 ELSE 0)
    BY <2>1, <2>3 DEF Holders, Held, InMode
  <2>6. \A m \in SleepModes : u'.locks[m] = Held(u.uhd_state, m) + (IF m = SLEEPMGR_BACKUP THEN 1 ELSE 0)
    <3> TAKE m \in SleepModes
    <3>1. Held(u.uhd_state, m) \in 0 .. 1 /\ u.locks[m] = Held(u.uhd_state, m)
      BY <2>4 DEF Held
    <3> QED  BY <3>1, <2>3 DEF Locked
  <2> QED  BY <2>1, <2>3, <2>5, <2>6 DEF Locks, InMode
<1>12. CASE ResumeCall \/ ResumeSofs \/ ResumeUnfreeze \/ ResumeEnable \/ ResumeSend
  <2>1. u'.locks = u.locks /\ u'.uhd_state = u.uhd_state /\ u'.hung = u.hung
    BY <1>0, <1>12 DEF ResumeCall, ResumeSofs, ResumeUnfreeze, ResumeEnable, ResumeSend, Step, Controller
  <2>2. raced' = raced /\ pdca' = pdca /\ copy' = copy
    BY <1>12 DEF ResumeCall, ResumeSofs, ResumeUnfreeze, ResumeEnable, ResumeSend, Step
  <2>3. pc \notin InMode /\ pc' \notin InMode /\ pc' # "hung"
    BY <1>12 DEF ResumeCall, ResumeSofs, ResumeUnfreeze, ResumeEnable, ResumeSend, Step, MainIdle, InMode
  <2> QED  BY <2>1, <2>2, <2>3 DEF Locks, Holders, InMode
<1>13. CASE ModeRead
  <2>1. u' = u /\ raced' = raced /\ pdca' = pdca /\ copy' = u.uhd_state /\ pc = "mode"
        /\ \/ pc' = "idle"
           \/ pc' = "lock" /\ u.uhd_state # "IDLE"
    BY <1>13 DEF ModeRead, Step
  <2> QED  BY <2>1 DEF Locks, Holders, InMode
<1> DEFINE old(m) == Held(u.uhd_state, m) + (IF pdca /\ m = SLEEPMGR_BACKUP THEN 1 ELSE 0)
           new(m) == IF m = SLEEPMGR_SLEEP_0 THEN 1 ELSE 0
<1>14. CASE ModeLock
  <2> SUFFICES ASSUME ~raced' PROVE Locks'
    BY DEF Locks
  <2>1. pc = "lock" /\ ~raced /\ pdca' = pdca /\ copy' = copy
    BY <1>14 DEF ModeLock, Step
  <2>2. \A m \in SleepModes : u.locks[m] = old(m) /\ old(m) \in 0 .. 2
    BY <2>1 DEF Locks, Holders, Held, InMode
  <2>3. MayLock(u.locks, SLEEPMGR_SLEEP_0) /\ SLEEPMGR_SLEEP_0 \in SleepModes
    BY <2>2 DEF MayLock, SLEEPMGR_SLEEP_0, SleepModes
  <2>4. pc' = "test" /\ u' = [u EXCEPT !.locks = Locked(u.locks, SLEEPMGR_SLEEP_0)]
    BY <1>14, <2>3 DEF ModeLock, Step
  <2>5. u'.locks = Locked(u.locks, SLEEPMGR_SLEEP_0) /\ u'.uhd_state = u.uhd_state /\ u'.hung = u.hung
        /\ u.locks \in [SleepModes -> 0 .. 255]
    BY <1>0, <2>4 DEF Controller
  <2>6. \A m \in SleepModes : u'.locks[m] = old(m) + new(m)
    <3> TAKE m \in SleepModes
    <3> QED  BY <2>2, <2>5 DEF Locked
  <2>7. \A m \in SleepModes : Holders(m)' = old(m) + new(m)
    BY <2>1, <2>4, <2>5 DEF Holders, Held, InMode
  <2> QED  BY <2>1, <2>4, <2>5, <2>6, <2>7 DEF Locks, InMode
<1>15. CASE ModeTest
  <2> SUFFICES ASSUME ~raced' PROVE Locks'
    BY DEF Locks
  <2>0. PICK k \in {copy, u.uhd_state} :
            /\ Step("test", IF k = "OFF" THEN "assign"
                            ELSE IF MayUnlock(u.locks, sleep_mode[k]) THEN "unlock" ELSE "hung", u)
            /\ copy' = k
    BY <1>15 DEF ModeTest
  <2>1. pc = "test" /\ ~raced /\ pdca' = pdca /\ u' = u /\ copy = u.uhd_state /\ copy # "IDLE"
    BY <2>0 DEF Step, Locks, InMode
  <2>2. /\ copy' = copy
        /\ \/ copy = "OFF" /\ pc' = "assign"
           \/ copy # "OFF" /\ MayUnlock(u.locks, sleep_mode[copy]) /\ pc' = "unlock"
           \/ copy # "OFF" /\ ~MayUnlock(u.locks, sleep_mode[copy]) /\ pc' = "hung"
    <3>1. k = copy
      BY <2>1
    <3>2. copy' = copy /\ pc' = (IF copy = "OFF" THEN "assign"
                                 ELSE IF MayUnlock(u.locks, sleep_mode[copy]) THEN "unlock" ELSE "hung")
      BY <2>0, <3>1 DEF Step
    <3>3. CASE copy = "OFF"
      BY <3>2, <3>3
    <3>4. CASE copy # "OFF" /\ MayUnlock(u.locks, sleep_mode[copy])
      BY <3>2, <3>4
    <3>5. CASE copy # "OFF" /\ ~MayUnlock(u.locks, sleep_mode[copy])
      BY <3>2, <3>5
    <3> QED  BY <3>3, <3>4, <3>5
  <2>3. \A m \in SleepModes : u.locks[m] = old(m) + new(m)
    BY <2>1 DEF Locks, Holders, Held, InMode
  <2>4. copy # "OFF" => MayUnlock(u.locks, sleep_mode[copy])
    <3> HAVE copy # "OFF"
    <3>1. sleep_mode[copy] \in SleepModes
      BY Modes DEF TypeOK
    <3> QED  BY <2>1, <2>3, <3>1 DEF MayUnlock, Held
  <2>5. \A m \in SleepModes : Holders(m)' = old(m) + new(m)
    BY <2>1, <2>2, <2>4 DEF Holders, Held, InMode
  <2> QED  BY <2>1, <2>2, <2>3, <2>4, <2>5 DEF Locks, InMode
<1>16. CASE ModeUnlock
  <2> SUFFICES ASSUME ~raced' PROVE Locks'
    BY DEF Locks
  <2>1. /\ pc = "unlock" /\ pc' = "assign" /\ ~raced /\ pdca' = pdca /\ copy' = copy
        /\ copy = u.uhd_state /\ copy # "IDLE" /\ copy # "OFF"
        /\ u' = [u EXCEPT !.locks = Unlocked(u.locks, sleep_mode[copy])]
    BY <1>16 DEF ModeUnlock, Step, Locks, InMode
  <2>2. \A m \in SleepModes : u.locks[m] = old(m) + new(m)
    BY <2>1 DEF Locks, Holders, Held, InMode
  <2>3. u'.locks = Unlocked(u.locks, sleep_mode[copy]) /\ u'.uhd_state = u.uhd_state /\ u'.hung = u.hung
        /\ u.locks \in [SleepModes -> 0 .. 255]
    BY <1>0, <2>1 DEF Controller
  <2> DEFINE less(m) == (IF pdca /\ m = SLEEPMGR_BACKUP THEN 1 ELSE 0) + new(m)
  <2>4. \A m \in SleepModes : u'.locks[m] = less(m)
    <3> TAKE m \in SleepModes
    <3>1. CASE m = sleep_mode[copy]
      <4>1. u.locks[m] = 1 + less(m)
        BY <2>1, <2>2, <3>1 DEF Held
      <4>2. u'.locks[m] = (u.locks[m] - 1) % 256
        BY <2>3, <3>1 DEF Unlocked
      <4>3. less(m) \in 0 .. 2
        OBVIOUS
      <4> QED  BY <4>1, <4>2, <4>3
    <3>2. CASE m # sleep_mode[copy]
      <4>1. u.locks[m] = less(m)
        BY <2>1, <2>2, <3>2 DEF Held
      <4> QED  BY <2>3, <3>2, <4>1 DEF Unlocked
    <3> QED  BY <3>1, <3>2
  <2>5. \A m \in SleepModes : Holders(m)' = less(m)
    BY <2>1, <2>3 DEF Holders, Held, InMode
  <2> QED  BY <2>1, <2>3, <2>4, <2>5 DEF Locks, InMode
<1>17. CASE ModeAssign
  <2> SUFFICES ASSUME ~raced' PROVE Locks'
    BY DEF Locks
  <2>1. /\ pc = "assign" /\ pc' = "idle" /\ ~raced /\ pdca' = pdca
        /\ copy = u.uhd_state /\ u' = [u EXCEPT !.uhd_state = "IDLE"]
    BY <1>17 DEF ModeAssign, Step, Locks, InMode
  <2>2. u'.locks = u.locks /\ u'.uhd_state = "IDLE" /\ u'.hung = u.hung
    BY <1>0, <2>1 DEF Controller
  <2>3. \A m \in SleepModes : u.locks[m] = (IF pdca /\ m = SLEEPMGR_BACKUP THEN 1 ELSE 0) + new(m)
    BY <2>1 DEF Locks, Holders, InMode
  <2>4. \A m \in SleepModes : Holders(m)' = (IF pdca /\ m = SLEEPMGR_BACKUP THEN 1 ELSE 0) + new(m)
    BY <2>1, <2>2 DEF Holders, InMode, sleep_mode
  <2> QED  BY <2>1, <2>2, <2>3, <2>4 DEF Locks, InMode
<1> QED  BY <1>1, <1>2, <1>3, <1>5, <1>6, <1>7, <1>8, <1>9, <1>10, <1>11, <1>12, <1>13, <1>14,
            <1>15, <1>16, <1>17 DEF Next, Handler, Main, Resume

-----------------------------------------------------------------------------
THEOREM Inductive == Spec => []IInv
<1>1. IInv /\ [Next]_vars => IInv'
  BY TypeNext, WakeNext, LocksNext DEF IInv
<1> QED  BY InitInv, <1>1, PTL DEF Spec

(* The driver's variables keep their types, and a host that is off has nothing enabled. *)
THEOREM TypeCorrect == Spec => []TypeOK
BY Inductive, PTL DEF IInv

(* The locks of the sleep manager are those of the driver's state and of the PDCA. *)
THEOREM LocksBalance == Spec => []LocksHaveHolders
<1>1. IInv => LocksHaveHolders
  BY DEF IInv, Locks, LocksHaveHolders
<1> QED  BY Inductive, <1>1, PTL

(* While a device gets SOFs the clock runs and the CPU sleeps no deeper than SLEEP_0. *)
THEOREM Awakes == Spec => []AwakeWhileActive
<1>1. IInv => AwakeWhileActive
  <2> SUFFICES ASSUME IInv, ~raced, ~u.hung, pc = "idle", u.sof, "DDISC" \in u.enabled
               PROVE  ~u.frozen /\ sleepmgr_get_sleep_mode(u.locks) = {SLEEPMGR_SLEEP_0}
    BY DEF AwakeWhileActive
  <2>1. ~u.frozen /\ u.uhd_state = "IDLE"
    BY DEF IInv, Wake, InMode
  <2>2. u.locks[0] = 0 /\ u.locks[1] = 1
    BY <2>1 DEF IInv, Locks, Holders, InMode, SleepModes, sleep_mode, SLEEPMGR_SLEEP_0, SLEEPMGR_BACKUP
  <2> QED  BY <2>1, <2>2 DEF sleepmgr_get_sleep_mode, SLEEPMGR_SLEEP_0, SleepModes
<1> QED  BY Inductive, <1>1, PTL

(* A suspended bus can be woken up. *)
THEOREM CanWake == Spec => []SuspendedCanWake
<1>1. IInv => SuspendedCanWake
  BY DEF IInv, Wake, SuspendedCanWake
<1> QED  BY Inductive, <1>1, PTL

(* Every interrupt of the bus has its branch in uhd_interrupt(). *)
THEOREM Managed == Spec => []AllManaged
<1>1. IInv => AllManaged
  <2> SUFFICES ASSUME IInv, Pending(u), NEW s \in Awake(u) PROVE ~Unmanaged(s)
    BY DEF AllManaged
  <2>1. u.flags \subseteq s.flags /\ s.enabled = u.enabled
    BY AwakeType DEF IInv, TypeOK
  <2>2. PICK i \in u.flags \cap u.enabled : i \in Interrupts
    BY DEF Pending, IInv, TypeOK, Controller
  <2> QED  BY <2>1, <2>2 DEF IInv, Wake, Unmanaged, IsDisconnection, IsConnection, Wakeups, Interrupts
<1> QED  BY Inductive, <1>1, PTL
=============================================================================
