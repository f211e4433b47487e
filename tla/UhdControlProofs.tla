-------------------------- MODULE UhdControlProofs --------------------------
(***************************************************************************)
(* The safety of the control endpoint, for any sizes, timeouts and numbers *)
(* of requests and connections.                                            *)
(*                                                                         *)
(* A request of the queue is either being worked on, with its timeout      *)
(* running, or the main loop is on its way to start it.  While one runs,   *)
(* the transaction that is armed and the answer that is waited for are     *)
(* those of its phase.  Pipe 0 has the address 1 only from the end of an   *)
(* enumeration, so that no delay of the UHC ends while it is in use.       *)
(***************************************************************************)
EXTENDS UhdControlProps, WellFoundedInduction, TLAPS

Assertions == {"ongoing", "setup phase", "in phase", "out phase", "NULL", "wait"}
Status     == {"NOERROR", "STALL", "ERROR", "TIMEOUT", "DISCONNECT"}

State ==
    [queue : Seq(Requests), phase : Phases, timeout : 0 .. CTRL_TIMEOUT, nb_trans : Nat,
     zlp_out_delayed : BOOLEAN, pipes_error : BOOLEAN,
     enabled : BOOLEAN, uhaddr : {0, 1}, size : {EnumPipeSize, PipeSize}, frozen : BOOLEAN,
     token : {"SETUP", "IN", "OUT"}, armed : BOOLEAN, ie : SUBSET Events,
     flags : SUBSET Events, ctn : Nat,
     timer : {"none", "step5", "step9", "step11"}, address : {0, 1, NOT_VALID},
     enum_try : 0 .. ENUM_NB_TRY + 1, installed : BOOLEAN,
     armedFor : Phases \cup {"old"}, answerFor : [Answers -> Phases \cup {"old"}],
     fake : BOOLEAN, misplaced : BOOLEAN, failed : SUBSET Assertions]

(* A disabled pipe does nothing. *)
Off(s) == s.enabled \/ (~s.armed /\ s.ie = {} /\ s.flags = {})

(* The queue when no call of the main loop is about to start a request; when one is *)
Working(s) ==
    /\ s.queue = <<>> => s.timeout = 0 /\ ~s.pipes_error
    /\ s.queue # <<>> => s.timeout > 0
Waiting(s) == s.queue # <<>> /\ s.timeout = 0 /\ ~s.pipes_error

Bounded(s) == s.queue # <<>> => s.nb_trans <= Payload[Head(s.queue).kind]

TokenOf(phase) ==
    IF phase = "SETUP" THEN "SETUP" ELSE IF phase \in {"DATA_IN", "ZLP_IN"} THEN "IN" ELSE "OUT"

(* What is armed, and what was answered, belongs to the phase of the request. *)
Own(s) ==
    /\ s.armed => s.armedFor = s.phase /\ s.token = TokenOf(s.phase)
    /\ s.zlp_out_delayed /\ s.phase = "ZLP_OUT" => s.token = "OUT"
    /\ AnswerTo(TokenOf(s.phase)) \in s.flags =>
         s.answerFor[AnswerTo(TokenOf(s.phase))] = s.phase
    /\ s.phase = "DATA_IN" /\ "in" \in s.flags => ~s.armed

(* The UHC: pipe 0 has address 1 after the delays; the request of step10 is that of
   a device with an address, at the head. *)
Has(s, end) == \E i \in DOMAIN s.queue : s.queue[i].end = end
Delays(s) ==
    /\ s.enabled /\ s.uhaddr = 1 => s.address = 1 /\ s.timer = "none"
    /\ s.uhaddr = 1 => ~Has(s, "step6") /\ ~Has(s, "step10")
    /\ s.timer = "step11" => s.address = 1
    /\ s.timer \in {"step9", "step11"} => s.uhaddr = 0
    /\ \A i \in DOMAIN s.queue : s.queue[i].end = "step10" => i = 1
Addressed(s) == Has(s, "step10") => s.address = 1 \/ ~s.enabled

Starts == {"setup", "refuse", "fill", "timeout"}

(* on: a device is connected; main: where the main loop is *)
Sound(s, on, main) ==
    /\ IF main \in Starts THEN Waiting(s) ELSE Working(s)
    /\ main # "setup" => Bounded(s)
    /\ main \in {"fill", "timeout"} => s.phase = "SETUP"
    /\ Delays(s)
    /\ Has(s, "step10") => main = "idle"
    /\ on \/ s.flags \cap s.ie # {} => Addressed(s)
Core(s, on, main) ==
    /\ s \in State /\ on \in BOOLEAN /\ main \in Starts \cup {"idle", "enable"}
    /\ Off(s)
    /\ s.failed = {} => Sound(s, on, main)
    /\ s.failed = {} /\ ~s.misplaced =>
         ~s.fake /\ (s.timeout > 0 \/ main = "timeout" => Own(s))
IInv == Core(usb, connected, pc)

----------------------------------------------------------------------------
LEMMA Zero ==
    /\ 0 \in 0 .. CTRL_TIMEOUT /\ CTRL_TIMEOUT \in 0 .. CTRL_TIMEOUT /\ CTRL_TIMEOUT > 0
    /\ 0 \in 0 .. ENUM_NB_TRY + 1 /\ 1 \in 0 .. ENUM_NB_TRY + 1 /\ <<>> \in Seq(Requests)
    /\ 0 \in Nat /\ ENUM_NB_TRY \in Nat
BY ControlAssumption DEF ControlAssumption

LEMMA Buffers ==
    /\ Kinds = {"start", "in", "out", "none"}
    /\ \A kind \in Kinds : WLength[kind] \in Nat /\ Payload[kind] \in Nat
    /\ EnumPipeSize \in Nat \ {0} /\ PipeSize \in Nat \ {0}
BY ControlAssumption DEF ControlAssumption, Kinds, WLength, Payload

(* A set of natural numbers has a least one. *)
LEMMA Least ==
    ASSUME NEW T \in SUBSET Nat, T # {}
    PROVE  \E n \in T : \A m \in T : n <= m
<1> DEFINE R == OpToRel(<, Nat)
<1>1. IsWellFoundedOn(R, Nat)
  BY NatLessThanWellFounded
<1>2. PICK n \in T : \A m \in T : ~(<<m, n>> \in R)
  <2> HIDE DEF R
  <2> QED  BY <1>1, WFMin
<1>3. \A m \in T : <<m, n>> \in R <=> m < n
  BY DEF OpToRel
<1> HIDE DEF R
<1>4. \A m \in T : ~(m < n)
  BY <1>2, <1>3, Zenon
<1> QED  BY <1>4

(* The queue has only requests that s has, and that of step10, if any, at the head. *)
HeadOnly(q) == \A i \in DOMAIN q : q[i].end = "step10" => i = 1
Within(q, r) == \A i \in DOMAIN q : \E j \in DOMAIN r : q[i].end = r[j].end

LEMMA Rest ==
    ASSUME NEW q \in Seq(Requests), NEW n \in 0 .. Len(q), NEW r, r = SubSeq(q, n + 1, Len(q))
    PROVE  /\ r \in Seq(Requests) /\ Within(r, q) /\ (HeadOnly(q) => HeadOnly(r))
           /\ n > 0 /\ HeadOnly(q) => \A i \in DOMAIN r : r[i].end # "step10"
           /\ (r = <<>> => n = Len(q)) /\ (n = Len(q) => r = <<>>)
           /\ n = 0 => r = q
           /\ r # <<>> => Head(r) = q[n + 1]
<1>1. /\ r \in Seq(Requests) /\ DOMAIN r = 1 .. Len(q) - n /\ Len(r) = Len(q) - n
      /\ \A i \in 1 .. Len(q) - n : r[i] = q[n + i]
      /\ r # <<>> => Head(r) = r[1]
  OBVIOUS
<1>2. \A i \in DOMAIN r : n + i \in DOMAIN q /\ r[i] = q[n + i]
  BY <1>1
<1>3. Within(r, q)
  BY <1>2 DEF Within
<1>4. HeadOnly(q) => HeadOnly(r)
  BY <1>1, <1>2 DEF HeadOnly
<1>5. n > 0 /\ HeadOnly(q) => \A i \in DOMAIN r : r[i].end # "step10"
  BY <1>1, <1>2 DEF HeadOnly
<1>6. r = <<>> <=> n = Len(q)
  <2>1. Len(q) \in Nat /\ n \in Nat
    OBVIOUS
  <2>2. r = <<>> => Len(r) = 0
    OBVIOUS
  <2>3. Len(r) = 0 => r = <<>>
    BY <1>1
  <2> QED  BY <1>1, <2>1, <2>2, <2>3
<1>7. n = 0 => r = q
  BY <1>1
<1>8. r # <<>> => Head(r) = q[n + 1]
  BY <1>1, <1>6
<1> QED  BY <1>1, <1>3, <1>4, <1>5, <1>6, <1>7, <1>8

LEMMA Put ==
    ASSUME NEW q \in Seq(Requests), NEW x \in Requests, NEW r, r = Append(q, x)
    PROVE  /\ r \in Seq(Requests) /\ r # <<>>
           /\ \A i \in DOMAIN r : r[i] = x \/ \E j \in DOMAIN q : r[i].end = q[j].end
           /\ x.end # "step10" /\ HeadOnly(q) => HeadOnly(r)
           /\ q = <<>> => HeadOnly(r) /\ \A i \in DOMAIN r : r[i] = x
           /\ q # <<>> => Head(r) = Head(q)
<1>1. /\ r \in Seq(Requests) /\ r # <<>> /\ DOMAIN r = 1 .. Len(q) + 1
      /\ r[Len(q) + 1] = x /\ \A i \in 1 .. Len(q) : r[i] = q[i]
      /\ DOMAIN q = 1 .. Len(q) /\ Len(q) \in Nat
      /\ Head(r) = r[1] /\ (q # <<>> => Head(q) = q[1] /\ Len(q) > 0)
      /\ q = <<>> => Len(q) = 0
  OBVIOUS
<1>2. \A i \in DOMAIN r : (i = Len(q) + 1 /\ r[i] = x) \/ (i \in DOMAIN q /\ r[i] = q[i])
  BY <1>1
<1>3. \A i \in DOMAIN r : r[i] = x \/ \E j \in DOMAIN q : r[i].end = q[j].end
  BY <1>2
<1>4. x.end # "step10" /\ HeadOnly(q) => HeadOnly(r)
  BY <1>2 DEF HeadOnly
<1>5. q = <<>> => HeadOnly(r) /\ \A i \in DOMAIN r : r[i] = x
  BY <1>1, <1>2 DEF HeadOnly
<1>6. q # <<>> => Head(r) = Head(q)
  BY <1>1
<1> QED  BY <1>1, <1>3, <1>4, <1>5, <1>6

LEMMA Taking ==
    ASSUME NEW q \in Seq(Requests), q # <<>>
    PROVE  /\ Tail(q) \in Seq(Requests) /\ Within(Tail(q), q)
           /\ Head(q) \in Requests /\ Head(q) = q[1] /\ 1 \in DOMAIN q
           /\ HeadOnly(q) => \A i \in DOMAIN Tail(q) : Tail(q)[i].end # "step10"
           /\ Tail(q) = <<>> <=> Len(q) = 1
<1>1. /\ Len(q) \in Nat \ {0} /\ DOMAIN q = 1 .. Len(q) /\ Head(q) = q[1] /\ Head(q) \in Requests
      /\ Tail(q) = SubSeq(q, 1 + 1, Len(q)) /\ 1 \in 0 .. Len(q)
  OBVIOUS
<1>2. PICK t : t = Tail(q)
  OBVIOUS
<1>3. /\ t \in Seq(Requests) /\ Within(t, q) /\ (t = <<>> <=> 1 = Len(q))
      /\ HeadOnly(q) => \A i \in DOMAIN t : t[i].end # "step10"
  <2>1. PICK n \in 0 .. Len(q) : n = 1
    BY <1>1
  <2>2. t = SubSeq(q, n + 1, Len(q)) /\ n > 0
    BY <1>1, <1>2, <2>1
  <2>3. /\ t \in Seq(Requests) /\ Within(t, q) /\ (t = <<>> <=> n = Len(q))
        /\ n > 0 /\ HeadOnly(q) => \A i \in DOMAIN t : t[i].end # "step10"
    <3>1. t \in Seq(Requests) /\ Within(t, q)
      BY <2>2, Rest
    <3>2. (t = <<>> => n = Len(q)) /\ (n = Len(q) => t = <<>>)
      BY <2>2, Rest
    <3>3. n > 0 /\ HeadOnly(q) => \A i \in DOMAIN t : t[i].end # "step10"
      BY <2>2, Rest
    <3> QED  BY <3>1, <3>2, <3>3
  <2> QED  BY <2>1, <2>2, <2>3
<1>4. 1 \in DOMAIN q
  BY <1>1
<1> QED  BY <1>1, <1>2, <1>3, <1>4

LEMMA InRequests ==
    \A r \in Requests : /\ r.add \in {0, 1, NOT_VALID} /\ r.kind \in Kinds
                        /\ r.end \in {"step6", "step10", "step12", "step13", "main"}
BY DEF Requests, EnumSteps

----------------------------------------------------------------------------
(* Starting requests *)

Same(t, s) ==
    /\ t \in State
    /\ t.uhaddr = s.uhaddr /\ t.failed = s.failed
    /\ (t.fake <=> s.fake) /\ (t.misplaced <=> s.misplaced)
SameUhc(t, s)   == t.timer = s.timer /\ t.address = s.address
SameQueue(t, s) ==
    t.queue = s.queue /\ t.timeout = s.timeout /\ (t.pipes_error <=> s.pipes_error)

LEMMA RefusedIs ==
    ASSUME NEW s \in State
    PROVE  /\ RefusedCount(s) \in 0 .. Len(s.queue)
           /\ \A i \in 1 .. RefusedCount(s) : ~Accepts(s, s.queue[i])
           /\ RefusedCount(s) < Len(s.queue) => Accepts(s, s.queue[RefusedCount(s) + 1])
<1>1. s.queue \in Seq(Requests) /\ Len(s.queue) \in Nat
  <2>1. s.queue \in Seq(Requests)
    BY DEF State
  <2> QED  BY <2>1
<1> DEFINE Up(n) == /\ \A i \in 1 .. n : ~Accepts(s, s.queue[i])
                    /\ n < Len(s.queue) => Accepts(s, s.queue[n + 1])
           T == {n \in 0 .. Len(s.queue) : n < Len(s.queue) => Accepts(s, s.queue[n + 1])}
<1>2. PICK n \in T : \A m \in T : n <= m
  <2>1. T \in SUBSET Nat /\ Len(s.queue) \in T
    BY <1>1
  <2> HIDE DEF T
  <2> QED  BY <2>1, Least
<1>3. Up(n)
  <2>1. \A i \in 1 .. n : i - 1 \in 0 .. Len(s.queue) /\ i - 1 < n /\ i - 1 < Len(s.queue)
                          /\ (i - 1) + 1 = i
    BY <1>1
  <2>2. \A i \in 1 .. n : ~(i - 1 \in T)
    BY <1>1, <1>2, <2>1
  <2> QED  BY <2>1, <2>2
<1>4. n \in 0 .. Len(s.queue)
  OBVIOUS
<1> DEFINE k == CHOOSE k \in 0 .. Len(s.queue) : Up(k)
<1>5. k \in 0 .. Len(s.queue) /\ Up(k)
  <2> HIDE DEF Up
  <2> QED  BY <1>3, <1>4
<1>6. RefusedCount(s) = k
  BY DEF RefusedCount
<1> HIDE DEF k
<1> QED  BY <1>5, <1>6

(* What is left of the queue is started, with nothing of the requests before. *)
LEMMA StartIs ==
    ASSUME NEW s \in State, Off(s), s.queue # <<>>, NEW t, t = Start(s)
    PROVE  /\ Same(t, s) /\ SameUhc(t, s) /\ Off(t) /\ (t.enabled <=> s.enabled)
           /\ Working(t) /\ Bounded(t) /\ t.phase = "SETUP" /\ (t.timeout > 0 => Own(t))
           /\ Within(t.queue, s.queue) /\ (HeadOnly(s.queue) => HeadOnly(t.queue))
           /\ ~s.enabled => t.queue = <<>>
<1>1. PICK n \in 0 .. Len(s.queue) :
        /\ n = RefusedCount(s)
        /\ n < Len(s.queue) => Accepts(s, s.queue[n + 1])
  BY RefusedIs
<1>2. s.queue \in Seq(Requests) /\ Len(s.queue) \in Nat
  <2>1. s.queue \in Seq(Requests)
    BY DEF State
  <2> QED  BY <2>1
<1>3. PICK q : q = SubSeq(s.queue, n + 1, Len(s.queue))
  OBVIOUS
<1>4. /\ q \in Seq(Requests) /\ Within(q, s.queue) /\ (HeadOnly(s.queue) => HeadOnly(q))
      /\ (q = <<>> => n = Len(s.queue)) /\ (n = 0 => q = s.queue)
      /\ n = Len(s.queue) => q = <<>>
  <2>1. q \in Seq(Requests) /\ Within(q, s.queue) /\ (HeadOnly(s.queue) => HeadOnly(q))
    BY <1>2, <1>3, Rest
  <2>2. (q = <<>> => n = Len(s.queue)) /\ (n = Len(s.queue) => q = <<>>)
    BY <1>2, <1>3, Rest
  <2>3. n = 0 => q = s.queue
    BY <1>2, <1>3, Rest
  <2> QED  BY <2>1, <2>2, <2>3
<1>5. n \in Nat /\ (q = <<>> => n > 0) /\ (q # <<>> => s.enabled)
  <2>1. n \in Nat
    BY <1>2
  <2>2. q = <<>> => n > 0
    BY <1>4, <2>1
  <2>3. q # <<>> => n < Len(s.queue)
    BY <1>2, <1>4, <2>1
  <2> QED  BY <1>1, <2>1, <2>2, <2>3 DEF Accepts
<1>6. PICK err \in BOOLEAN : err = (IF n > 0 THEN FALSE ELSE s.pipes_error)
  <2>1. s.pipes_error \in BOOLEAN
    BY DEF State
  <2> QED  BY <2>1
<1>7. PICK time \in 0 .. CTRL_TIMEOUT : time = IF n > 0 THEN 0 ELSE s.timeout
  <2>1. s.timeout \in 0 .. CTRL_TIMEOUT
    BY DEF State
  <2> QED  BY <2>1, Zero
<1>8. PICK try \in 0 .. ENUM_NB_TRY + 1 :
        try = IF \E i \in 1 .. n : s.queue[i].end \in EnumSteps THEN 0 ELSE s.enum_try
  <2>1. s.enum_try \in 0 .. ENUM_NB_TRY + 1
    BY DEF State
  <2> QED  BY <2>1, Zero
<1>9. PICK k : k = [s EXCEPT !.phase = "SETUP", !.nb_trans = 0, !.queue = q, !.pipes_error = err,
                             !.timeout = time, !.enum_try = try]
  OBVIOUS
<1>10. k \in State
  BY <1>4, <1>9, Zero DEF State, Phases
<1>11. /\ k.uhaddr = s.uhaddr /\ k.failed = s.failed /\ SameUhc(k, s)
       /\ k.queue = q /\ k.timeout = time /\ k.phase = "SETUP" /\ k.nb_trans = 0
       /\ k.flags = s.flags /\ k.ie = s.ie
  BY <1>9 DEF State, SameUhc
<1>12. /\ (k.fake <=> s.fake) /\ (k.misplaced <=> s.misplaced) /\ (k.enabled <=> s.enabled)
       /\ (k.armed <=> s.armed) /\ (k.pipes_error <=> err)
  BY <1>9 DEF State
<1>13. t = IF q = <<>> THEN k ELSE EnableSetup(SetTimeout(FillPipe(k)))
  BY <1>1, <1>3, <1>6, <1>7, <1>8, <1>9, <1>11 DEF Start
<1>14. CASE q = <<>>
  <2>1. t = k /\ ~err /\ time = 0
    BY <1>5, <1>6, <1>7, <1>13, <1>14
  <2> QED  BY <1>4, <1>10, <1>11, <1>12, <1>14, <2>1 DEF Same, Off, Working, Bounded
<1>15. CASE q # <<>>
  <2>1. k.enabled
    BY <1>5, <1>12, <1>15
  <2>2. PICK f : f = [k EXCEPT !.token = "SETUP", !.flags = k.flags \ {"setup"},
                               !.frozen = FALSE, !.armed = TRUE, !.armedFor = "SETUP"]
    OBVIOUS
  <2>3. f = FillPipe(k)
    BY <1>10, <1>11, <2>1, <2>2 DEF FillPipe, Unfreeze, State
  <2>4. f \in State
    BY <1>10, <2>2, ZenonT(60) DEF State, Phases
  <2>5. PICK g : g = [f EXCEPT !.timeout = CTRL_TIMEOUT, !.ie = f.ie \cup {"setup"}]
    OBVIOUS
  <2>6. f.enabled
    BY <1>10, <2>1, <2>2 DEF State
  <2>7. t = g
    BY <1>13, <1>15, <2>3, <2>4, <2>5, <2>6 DEF EnableSetup, SetTimeout, State
  <2>8. g \in State
    BY <2>4, <2>5, Zero DEF State, Events, Answers
  <2>9. /\ f.uhaddr = k.uhaddr /\ f.failed = k.failed /\ SameUhc(f, k)
        /\ f.queue = q /\ f.phase = "SETUP" /\ f.nb_trans = 0 /\ f.token = "SETUP"
        /\ f.armedFor = "SETUP" /\ f.flags = k.flags \ {"setup"}
    BY <1>10, <1>11, <2>2 DEF State, SameUhc
  <2>10. /\ g.uhaddr = f.uhaddr /\ g.failed = f.failed /\ SameUhc(g, f)
         /\ g.queue = f.queue /\ g.phase = f.phase /\ g.nb_trans = f.nb_trans
         /\ g.token = f.token /\ g.timeout = CTRL_TIMEOUT
         /\ g.armedFor = f.armedFor /\ g.flags = f.flags
    BY <2>4, <2>5 DEF State, SameUhc
  <2>11. (f.fake <=> k.fake) /\ (f.misplaced <=> k.misplaced)
    BY <1>10, <2>2 DEF State
  <2>12. (g.fake <=> f.fake) /\ (g.misplaced <=> f.misplaced) /\ (g.enabled <=> f.enabled)
    BY <2>4, <2>5 DEF State
  <2>13. Same(g, s) /\ SameUhc(g, s) /\ Off(g) /\ g.enabled /\ s.enabled
    BY <1>5, <1>11, <1>12, <1>15, <2>6, <2>8, <2>9, <2>10, <2>11, <2>12
       DEF Same, SameUhc, Off
  <2>14. g.queue = q /\ g.phase = "SETUP" /\ Working(g)
    BY <1>15, <2>9, <2>10, Zero DEF Working
  <2>15. Bounded(g)
    <3>1. Head(q) \in Requests
      BY <1>4, <1>15
    <3>2. Payload[Head(q).kind] \in Nat
      BY <3>1, InRequests, Buffers
    <3> QED  BY <2>9, <2>10, <2>14, <3>2 DEF Bounded
  <2>16. Own(g)
    BY <2>9, <2>10 DEF Own, TokenOf, AnswerTo
  <2> QED  BY <1>4, <2>7, <2>13, <2>14, <2>15, <2>16
<1> QED  BY <1>14, <1>15

----------------------------------------------------------------------------
(* Ending requests *)

Ends == EnumSteps \cup {"main"}

LEMMA RemovedIs ==
    ASSUME NEW s \in State, s.queue # <<>>, NEW t, t = Removed(s)
    PROVE  /\ Same(t, s) /\ SameUhc(t, s) /\ (Off(s) => Off(t)) /\ (t.enabled <=> s.enabled)
           /\ t.queue = Tail(s.queue) /\ t.timeout = 0 /\ ~t.pipes_error
<1>1. t = [s EXCEPT !.pipes_error = FALSE, !.timeout = 0, !.queue = Tail(s.queue),
                    !.answerFor = [a \in Answers |-> "old"], !.armedFor = "old"]
  BY DEF Removed, State
<1>2. s.queue \in Seq(Requests)
  BY DEF State
<1>3. Tail(s.queue) \in Seq(Requests)
  BY <1>2, Taking
<1>4. t \in State
  <2>1. PICK old \in [Answers -> Phases \cup {"old"}] : old = [a \in Answers |-> "old"]
    OBVIOUS
  <2>2. t = [s EXCEPT !.pipes_error = FALSE, !.timeout = 0, !.queue = Tail(s.queue),
                      !.answerFor = old, !.armedFor = "old"]
    BY <1>1, <2>1
  <2> QED  BY <1>3, <2>2, Zero, ZenonT(60) DEF State
<1>5. /\ t.uhaddr = s.uhaddr /\ t.failed = s.failed /\ SameUhc(t, s) /\ t.ie = s.ie
      /\ t.flags = s.flags /\ t.queue = Tail(s.queue) /\ t.timeout = 0
  BY <1>1 DEF State, SameUhc
<1>6. /\ (t.fake <=> s.fake) /\ (t.misplaced <=> s.misplaced) /\ (t.enabled <=> s.enabled)
      /\ (t.armed <=> s.armed) /\ ~t.pipes_error
  BY <1>1 DEF State
<1> QED  BY <1>4, <1>5, <1>6 DEF Same, Off

LEMMA DisabledIs ==
    ASSUME NEW s \in State, NEW t, t = Disabled(s)
    PROVE  /\ Same(t, s) /\ SameUhc(t, s) /\ SameQueue(t, s) /\ Off(t) /\ ~t.enabled
           /\ ~t.armed /\ t.flags = {} /\ t.phase = s.phase /\ t.nb_trans = s.nb_trans
           /\ (t.zlp_out_delayed <=> s.zlp_out_delayed) /\ t.token = s.token
<1>1. t = [s EXCEPT !.enabled = FALSE, !.frozen = TRUE, !.armed = FALSE, !.ie = {}, !.flags = {}]
  BY DEF Disabled
<1>2. t \in State
  BY <1>1, ZenonT(60) DEF State
<1>3. /\ t.uhaddr = s.uhaddr /\ t.failed = s.failed /\ SameUhc(t, s) /\ t.ie = {}
      /\ t.flags = {} /\ t.queue = s.queue /\ t.timeout = s.timeout /\ t.phase = s.phase
      /\ t.nb_trans = s.nb_trans /\ t.token = s.token
  BY <1>1 DEF State, SameUhc
<1>4. /\ (t.fake <=> s.fake) /\ (t.misplaced <=> s.misplaced) /\ ~t.enabled
      /\ ~t.armed /\ (t.pipes_error <=> s.pipes_error)
      /\ (t.zlp_out_delayed <=> s.zlp_out_delayed)
  BY <1>1 DEF State
<1> QED  BY <1>2, <1>3, <1>4 DEF Same, SameQueue, Off

(* The enumeration is tried again, or given up. *)
Retried(t, s) ==
    /\ t.address = 0 /\ t.timer \in {"step5", "none"}
    /\ t.enabled => s.enabled /\ s.address # s.uhaddr

LEMMA ErrorIs ==
    ASSUME NEW s \in State, Off(s), NEW t, t = EnumerationError(s)
    PROVE  Same(t, s) /\ SameQueue(t, s) /\ Off(t) /\ Retried(t, s)
<1>1. PICK f : f = IF s.address = s.uhaddr THEN Disabled(s) ELSE s
  OBVIOUS
<1>2. /\ Same(f, s) /\ SameUhc(f, s) /\ SameQueue(f, s) /\ Off(f)
      /\ f.enabled => s.enabled /\ s.address # s.uhaddr
  <2>1. CASE s.address = s.uhaddr
    BY <1>1, <2>1, DisabledIs
  <2>2. CASE s.address # s.uhaddr
    BY <1>1, <2>2 DEF Same, SameUhc, SameQueue
  <2> QED  BY <2>1, <2>2
<1>3. PICK timer \in {"step5", "none"} : timer = IF s.enum_try < ENUM_NB_TRY THEN "step5" ELSE "none"
  OBVIOUS
<1>4. PICK try \in 0 .. ENUM_NB_TRY + 1 :
        try = IF s.enum_try < ENUM_NB_TRY THEN s.enum_try + 1 ELSE 0
  <2>1. s.enum_try \in 0 .. ENUM_NB_TRY + 1
    BY DEF State
  <2> QED  BY <2>1, Zero
<1>5. t = [f EXCEPT !.address = 0, !.enum_try = try, !.timer = timer]
  <2>1. f.enum_try = s.enum_try
    <3>1. CASE s.address = s.uhaddr
      BY <1>1, <3>1 DEF Disabled, State
    <3> QED  BY <1>1, <3>1
  <2>2. f \in State
    BY <1>2 DEF Same
  <2> QED  BY <1>1, <1>3, <1>4, <2>1, <2>2 DEF EnumerationError, State
<1>6. f \in State
  BY <1>2 DEF Same
<1>7. t \in State
  BY <1>5, <1>6, ZenonT(60) DEF State
<1>8. /\ t.uhaddr = f.uhaddr /\ t.failed = f.failed /\ t.address = 0 /\ t.timer = timer
      /\ t.ie = f.ie /\ t.flags = f.flags /\ t.queue = f.queue /\ t.timeout = f.timeout
  BY <1>5, <1>6 DEF State
<1>9. /\ (t.fake <=> f.fake) /\ (t.misplaced <=> f.misplaced) /\ (t.enabled <=> f.enabled)
      /\ (t.armed <=> f.armed) /\ (t.pipes_error <=> f.pipes_error)
  BY <1>5, <1>6 DEF State
<1> QED  BY <1>2, <1>7, <1>8, <1>9 DEF Same, SameQueue, Off, Retried

(* What a callback does to the UHC *)
Advanced(t, s, end, status) ==
    \/ SameUhc(t, s) /\ (t.enabled <=> s.enabled)
    \/ Retried(t, s) /\ status # "DISCONNECT"
    \/ /\ status = "NOERROR" /\ t.address = s.address /\ (t.enabled <=> s.enabled)
       /\ (end = "step6" /\ t.timer = "step9") \/ (end = "step10" /\ t.timer = "step11")
Next13(q) == Append(q, [add |-> 1, kind |-> "in", end |-> "step13"])

LEMMA CallbackIs ==
    ASSUME NEW s \in State, Off(s), NEW end \in Ends, NEW status \in Status, NEW valid \in BOOLEAN,
           NEW t, t = Callback(s, end, status, valid)
    PROVE  /\ Same(t, s) /\ Off(t) /\ Advanced(t, s, end, status)
           /\ t.timeout = s.timeout /\ (t.pipes_error <=> s.pipes_error)
           /\ t.queue = s.queue \/ (status = "NOERROR" /\ t.queue = Next13(s.queue))
<1> DEFINE Goal == /\ Same(t, s) /\ Off(t) /\ Advanced(t, s, end, status)
                   /\ t.timeout = s.timeout /\ (t.pipes_error <=> s.pipes_error)
                   /\ t.queue = s.queue \/ (status = "NOERROR" /\ t.queue = Next13(s.queue))
<1>1. CASE end = "main"
  <2>1. t = s
    BY <1>1 DEF Callback
  <2> QED  BY <2>1 DEF Same, SameUhc, Advanced
<1>2. CASE end # "main" /\ status = "DISCONNECT"
  <2>1. t = [s EXCEPT !.enum_try = 0]
    BY <1>2 DEF Callback
  <2>2. t \in State
    BY <2>1, Zero, ZenonT(60) DEF State
  <2>3. /\ t.uhaddr = s.uhaddr /\ t.failed = s.failed /\ SameUhc(t, s) /\ t.ie = s.ie
        /\ t.flags = s.flags /\ t.queue = s.queue /\ t.timeout = s.timeout
    BY <2>1 DEF State, SameUhc
  <2>4. /\ (t.fake <=> s.fake) /\ (t.misplaced <=> s.misplaced) /\ (t.enabled <=> s.enabled)
        /\ (t.armed <=> s.armed) /\ (t.pipes_error <=> s.pipes_error)
    BY <2>1 DEF State
  <2> QED  BY <2>2, <2>3, <2>4 DEF Same, Off, Advanced
<1>3. CASE end # "main" /\ status # "DISCONNECT" /\ (status # "NOERROR" \/ ~valid)
  <2>1. t = EnumerationError(s)
    BY <1>3 DEF Callback
  <2>2. Same(t, s) /\ SameQueue(t, s) /\ Off(t) /\ Retried(t, s)
    BY <2>1, ErrorIs
  <2> QED  BY <1>3, <2>2 DEF SameQueue, Advanced
<1>4. CASE status = "NOERROR" /\ valid /\ end \in {"step6", "step10"}
  <2>1. PICK timer \in {"step9", "step11"} : /\ end = "step6" => timer = "step9"
                                             /\ end = "step10" => timer = "step11"
    OBVIOUS
  <2>2. t = [s EXCEPT !.timer = timer]
    BY <1>4, <2>1 DEF Callback
  <2>3. t \in State
    BY <2>2 DEF State
  <2>4. /\ t.uhaddr = s.uhaddr /\ t.failed = s.failed /\ t.address = s.address /\ t.ie = s.ie
        /\ t.flags = s.flags /\ t.queue = s.queue /\ t.timeout = s.timeout /\ t.timer = timer
    BY <2>2 DEF State
  <2>5. /\ (t.fake <=> s.fake) /\ (t.misplaced <=> s.misplaced) /\ (t.enabled <=> s.enabled)
        /\ (t.armed <=> s.armed) /\ (t.pipes_error <=> s.pipes_error)
    BY <2>2 DEF State
  <2> QED  BY <1>4, <2>1, <2>3, <2>4, <2>5 DEF Same, Off, Advanced
<1>5. CASE status = "NOERROR" /\ valid /\ end = "step12"
  <2>1. t = [s EXCEPT !.queue = Next13(s.queue)]
    BY <1>5 DEF Callback, Next13, State
  <2>2. Next13(s.queue) \in Seq(Requests)
    <3>1. s.queue \in Seq(Requests)
      BY DEF State
    <3>2. [add |-> 1, kind |-> "in", end |-> "step13"] \in Requests
      BY Buffers DEF Requests, EnumSteps
    <3> QED  BY <3>1, <3>2, Put DEF Next13
  <2>3. t \in State
    BY <2>1, <2>2, ZenonT(60) DEF State
  <2>4. /\ t.uhaddr = s.uhaddr /\ t.failed = s.failed /\ SameUhc(t, s) /\ t.ie = s.ie
        /\ t.flags = s.flags /\ t.queue = Next13(s.queue) /\ t.timeout = s.timeout
    BY <2>1 DEF State, SameUhc
  <2>5. /\ (t.fake <=> s.fake) /\ (t.misplaced <=> s.misplaced) /\ (t.enabled <=> s.enabled)
        /\ (t.armed <=> s.armed) /\ (t.pipes_error <=> s.pipes_error)
    BY <2>1 DEF State
  <2> QED  BY <1>5, <2>3, <2>4, <2>5 DEF Same, Off, Advanced
<1>6. CASE status = "NOERROR" /\ valid /\ end = "step13"
  <2>1. t = [s EXCEPT !.installed = TRUE, !.enum_try = 0]
    BY <1>6 DEF Callback
  <2>2. t \in State
    BY <2>1, Zero, ZenonT(60) DEF State
  <2>3. /\ t.uhaddr = s.uhaddr /\ t.failed = s.failed /\ SameUhc(t, s) /\ t.ie = s.ie
        /\ t.flags = s.flags /\ t.queue = s.queue /\ t.timeout = s.timeout
    BY <2>1 DEF State, SameUhc
  <2>4. /\ (t.fake <=> s.fake) /\ (t.misplaced <=> s.misplaced) /\ (t.enabled <=> s.enabled)
        /\ (t.armed <=> s.armed) /\ (t.pipes_error <=> s.pipes_error)
    BY <2>1 DEF State
  <2> QED  BY <2>2, <2>3, <2>4 DEF Same, Off, Advanced
<1> QED  BY <1>1, <1>2, <1>3, <1>4, <1>5, <1>6 DEF Ends, EnumSteps

(* A request ends, and the next that pipe 0 can take is started. *)
LEMMA EndIs ==
    ASSUME NEW s \in State, Off(s), s.queue # <<>>, NEW status \in Status, NEW valid \in BOOLEAN,
           NEW t, t = RequestEnd(s, status, valid)
    PROVE  /\ Same(t, s) /\ Off(t) /\ Working(t) /\ Bounded(t) /\ (t.timeout > 0 => Own(t))
           /\ t.enabled => s.enabled
           /\ ~s.enabled => t.queue = <<>>
           /\ status = "DISCONNECT" => SameUhc(t, s) /\ (t.enabled <=> s.enabled)
           /\ Delays(s) /\ (status = "NOERROR" => s.enabled /\ Addressed(s)) =>
                Delays(t) /\ ~Has(t, "step10")
<1>1. s.queue \in Seq(Requests)
  BY DEF State
<1>2. PICK end : end = Head(s.queue).end
  OBVIOUS
<1>3. end \in Ends /\ (\A e : end = e => Has(s, e))
  <2>1. Head(s.queue) \in Requests /\ Head(s.queue) = s.queue[1] /\ 1 \in DOMAIN s.queue
    BY <1>1, Taking
  <2> QED  BY <1>2, <2>1, InRequests DEF Ends, EnumSteps, Has
<1>4. PICK r : r = Removed(s)
  OBVIOUS
<1>5. /\ Same(r, s) /\ SameUhc(r, s) /\ Off(r) /\ (r.enabled <=> s.enabled)
      /\ r.queue = Tail(s.queue) /\ r.timeout = 0 /\ ~r.pipes_error
  BY <1>4, RemovedIs
<1>6. PICK c : c = Callback(r, end, status, valid)
  OBVIOUS
<1>7. r \in State
  BY <1>5 DEF Same
<1>8. /\ Same(c, r) /\ Off(c) /\ Advanced(c, r, end, status)
      /\ c.timeout = 0 /\ ~c.pipes_error
      /\ c.queue = r.queue \/ (status = "NOERROR" /\ c.queue = Next13(r.queue))
  BY <1>3, <1>5, <1>6, <1>7, CallbackIs
<1>9. c.enabled => s.enabled
  BY <1>5, <1>8 DEF Advanced, Retried
<1>10. t = IF c.queue = <<>> THEN c ELSE Start(c)
  BY <1>2, <1>4, <1>6 DEF RequestEnd
<1>11. /\ Same(t, c) /\ SameUhc(t, c) /\ Off(t) /\ (t.enabled <=> c.enabled)
       /\ Working(t) /\ Bounded(t) /\ (t.timeout > 0 => Own(t))
       /\ Within(t.queue, c.queue) /\ (HeadOnly(c.queue) => HeadOnly(t.queue))
       /\ ~c.enabled => t.queue = <<>>
  <2>1. CASE c.queue = <<>>
    <3>1. t = c
      BY <1>10, <2>1
    <3>2. Same(t, c) /\ SameUhc(t, c) /\ Off(t)
      BY <1>8, <3>1 DEF Same, SameUhc
    <3>3. Working(t) /\ Bounded(t) /\ ~(t.timeout > 0)
      BY <1>8, <2>1, <3>1 DEF Working, Bounded
    <3>4. Within(t.queue, c.queue)
      BY <3>1 DEF Within
    <3> QED  BY <2>1, <3>1, <3>2, <3>3, <3>4
  <2>2. CASE c.queue # <<>>
    <3>1. c \in State
      BY <1>8 DEF Same
    <3> QED  BY <1>8, <1>10, <2>2, <3>1, StartIs
  <2> QED  BY <2>1, <2>2
<1>12. Same(t, s)
  BY <1>5, <1>8, <1>11 DEF Same
<1>13. t.enabled => s.enabled
  BY <1>9, <1>11
<1>14. ~s.enabled => t.queue = <<>>
  BY <1>9, <1>11
<1>15. status = "DISCONNECT" => SameUhc(t, s) /\ (t.enabled <=> s.enabled)
  BY <1>5, <1>8, <1>11 DEF Advanced, SameUhc
<1>16. ASSUME Delays(s), status = "NOERROR" => s.enabled /\ Addressed(s)
       PROVE  Delays(t) /\ ~Has(t, "step10")
  <2>1. HeadOnly(s.queue) /\ s.uhaddr \in {0, 1}
    BY <1>16 DEF Delays, HeadOnly, State
  <2>2. /\ \A i \in DOMAIN r.queue : r.queue[i].end # "step10"
        /\ Within(r.queue, s.queue) /\ r.queue \in Seq(Requests)
    BY <1>1, <1>5, <2>1, Taking
  <2>3. \A i \in DOMAIN c.queue : c.queue[i].end = "step13"
                                  \/ \E j \in DOMAIN r.queue : c.queue[i].end = r.queue[j].end
    <3>1. CASE c.queue = r.queue
      BY <3>1
    <3>2. CASE c.queue = Next13(r.queue)
      <4>1. PICK x : x = [add |-> 1, kind |-> "in", end |-> "step13"]
        OBVIOUS
      <4>2. x \in Requests /\ x.end = "step13"
        BY <4>1, Buffers DEF Requests, EnumSteps
      <4>3. c.queue = Append(r.queue, x)
        BY <3>2, <4>1 DEF Next13
      <4>4. \A i \in DOMAIN c.queue : c.queue[i] = x
                                      \/ \E j \in DOMAIN r.queue : c.queue[i].end = r.queue[j].end
        BY <2>2, <4>2, <4>3, Put
      <4> QED  BY <4>2, <4>4
    <3> QED  BY <1>8, <3>1, <3>2
  <2>4. \A i \in DOMAIN t.queue : \E j \in DOMAIN c.queue : t.queue[i].end = c.queue[j].end
    BY <1>11 DEF Within
  <2>5. \A i \in DOMAIN t.queue : t.queue[i].end # "step10"
    BY <2>2, <2>3, <2>4
  <2>6. Has(t, "step6") => Has(s, "step6")
    BY <2>2, <2>3, <2>4 DEF Has, Within
  <2>7. t.uhaddr = 1 => ~Has(t, "step6") /\ ~Has(t, "step10")
    BY <1>12, <1>16, <2>5, <2>6 DEF Same, Delays, Has
  <2>8. t.timer = c.timer /\ t.address = c.address /\ t.uhaddr = s.uhaddr /\ (t.enabled <=> c.enabled)
    BY <1>11, <1>12 DEF SameUhc, Same
  <2>9. /\ t.enabled /\ t.uhaddr = 1 => t.address = 1 /\ t.timer = "none"
        /\ t.timer = "step11" => t.address = 1
        /\ t.timer \in {"step9", "step11"} => t.uhaddr = 0
    <3>1. CASE SameUhc(c, r) /\ (c.enabled <=> r.enabled)
      BY <1>5, <1>16, <2>8, <3>1 DEF SameUhc, Delays
    <3>2. CASE Retried(c, r)
      <4>1. t.address = 0 /\ t.timer \in {"step5", "none"}
        BY <2>8, <3>2 DEF Retried
      <4>2. t.enabled => s.enabled /\ s.address # s.uhaddr
        BY <1>5, <2>8, <3>2 DEF Retried, Same, SameUhc
      <4> QED  BY <1>16, <2>8, <4>1, <4>2 DEF Delays
    <3>3. CASE /\ status = "NOERROR" /\ c.address = r.address /\ (c.enabled <=> r.enabled)
               /\ (end = "step6" /\ c.timer = "step9") \/ (end = "step10" /\ c.timer = "step11")
      <4>1. s.enabled /\ Addressed(s) /\ c.address = s.address
        BY <1>5, <1>16, <3>3 DEF SameUhc
      <4>2. Has(s, "step6") \/ Has(s, "step10")
        BY <1>3, <3>3
      <4>3. s.uhaddr = 0
        BY <1>16, <2>1, <4>2 DEF Delays
      <4>4. c.timer = "step11" => c.address = 1
        BY <1>3, <3>3, <4>1 DEF Addressed
      <4> QED  BY <2>8, <4>3, <4>4
    <3> QED  BY <1>8, <3>1, <3>2, <3>3 DEF Advanced
  <2> QED  BY <2>5, <2>7, <2>9 DEF Delays, Has
<1> QED  BY <1>11, <1>12, <1>13, <1>14, <1>15, <1>16

----------------------------------------------------------------------------
(* The phases of a request *)

(* t is s with its request in another phase, or further in its phase. *)
Moves(t, s) == Same(t, s) /\ SameUhc(t, s) /\ SameQueue(t, s) /\ t.enabled

LEMMA StartPhaseIs ==
    ASSUME NEW s \in State, s.enabled, NEW phase \in {"DATA_IN", "DATA_OUT", "ZLP_IN"},
           NEW token, token = TokenOf(phase), NEW event, event = AnswerTo(token),
           NEW t, t = StartPhase(s, phase, token, event)
    PROVE  Moves(t, s) /\ Own(t) /\ t.nb_trans = s.nb_trans
<1>1. PICK x : x = [s EXCEPT !.phase = phase, !.token = token, !.flags = s.flags \ {event},
                             !.ie = s.ie \cup {event}]
  OBVIOUS
<1>2. phase \in Phases /\ token \in {"IN", "OUT"} /\ event \in {"in", "out"}
  BY DEF Phases, TokenOf, AnswerTo
<1>3. x \in State
  <2>1. PICK flags \in SUBSET Events : flags = s.flags \ {event}
    BY DEF State
  <2>2. PICK ie \in SUBSET Events : ie = s.ie \cup {event}
    BY <1>2 DEF State, Events, Answers
  <2>3. PICK y : y = [s EXCEPT !.phase = phase, !.token = token]
    OBVIOUS
  <2>4. y \in State
    BY <1>2, <2>3 DEF State
  <2>5. x = [y EXCEPT !.flags = flags, !.ie = ie]
    BY <1>1, <2>1, <2>2, <2>3 DEF State
  <2> QED  BY <2>4, <2>5 DEF State
<1>4. x.enabled
  BY <1>1 DEF State
<1>5. x.phase = phase
  BY <1>1 DEF State
<1>6. t = [x EXCEPT !.frozen = FALSE, !.armed = TRUE, !.armedFor = phase]
  <2>1. t = Unfreeze(x)
    BY <1>1 DEF StartPhase, State
  <2> QED  BY <1>4, <1>5, <2>1 DEF Unfreeze
<1>7. t \in State
  <2>1. PICK y : y = [x EXCEPT !.frozen = FALSE, !.armed = TRUE]
    OBVIOUS
  <2>2. y \in State
    BY <1>3, <2>1 DEF State
  <2>3. t = [y EXCEPT !.armedFor = phase]
    BY <1>3, <1>6, <2>1 DEF State
  <2> QED  BY <1>2, <2>2, <2>3, ZenonT(60) DEF State
<1>8. /\ x.uhaddr = s.uhaddr /\ x.failed = s.failed /\ SameUhc(x, s)
      /\ x.flags = s.flags \ {event} /\ x.queue = s.queue /\ x.timeout = s.timeout
      /\ x.nb_trans = s.nb_trans /\ x.token = token
  BY <1>1 DEF State, SameUhc
<1>9. /\ t.uhaddr = x.uhaddr /\ t.failed = x.failed /\ SameUhc(t, x)
      /\ t.flags = x.flags /\ t.queue = x.queue /\ t.timeout = x.timeout
      /\ t.nb_trans = x.nb_trans /\ t.token = x.token /\ t.phase = x.phase
      /\ t.armedFor = phase
  BY <1>3, <1>6 DEF State, SameUhc
<1>10. (x.fake <=> s.fake) /\ (x.misplaced <=> s.misplaced) /\ (x.pipes_error <=> s.pipes_error)
  BY <1>1 DEF State
<1>11. /\ (t.fake <=> x.fake) /\ (t.misplaced <=> x.misplaced) /\ (t.enabled <=> x.enabled)
       /\ (t.pipes_error <=> x.pipes_error)
  BY <1>3, <1>6 DEF State
<1>12. Own(t)
  <2>1. t.phase = phase /\ t.token = TokenOf(phase) /\ t.armedFor = phase
        /\ AnswerTo(TokenOf(phase)) \notin t.flags
    BY <1>5, <1>8, <1>9
  <2>2. phase = "DATA_IN" => "in" \notin t.flags
    BY <2>1 DEF AnswerTo, TokenOf
  <2>3. phase # "ZLP_OUT"
    OBVIOUS
  <2> QED  BY <2>1, <2>2, <2>3 DEF Own
<1>13. Moves(t, s)
  BY <1>4, <1>7, <1>8, <1>9, <1>10, <1>11 DEF Moves, Same, SameUhc, SameQueue
<1> QED  BY <1>8, <1>9, <1>12, <1>13

LEMMA ZlpOutIs ==
    ASSUME NEW s \in State, s.enabled, NEW t, t = ZlpOut(s)
    PROVE  Moves(t, s) /\ (~s.armed => Own(t)) /\ t.nb_trans = s.nb_trans
<1>1. t = [s EXCEPT !.phase = "ZLP_OUT", !.token = "OUT", !.flags = s.flags \ {"out"},
                    !.zlp_out_delayed = TRUE]
  BY DEF ZlpOut, State
<1>2. t \in State
  <2>1. PICK f \in SUBSET Events : f = s.flags \ {"out"}
    BY DEF State
  <2>2. PICK y : y = [s EXCEPT !.phase = "ZLP_OUT", !.token = "OUT", !.flags = f]
    OBVIOUS
  <2>3. y \in State
    BY <2>2 DEF State, Phases
  <2>4. t = [y EXCEPT !.zlp_out_delayed = TRUE]
    BY <1>1, <2>1, <2>2 DEF State
  <2> QED  BY <2>3, <2>4, ZenonT(60) DEF State
<1>3. /\ t.uhaddr = s.uhaddr /\ t.failed = s.failed /\ SameUhc(t, s)
      /\ t.flags = s.flags \ {"out"} /\ t.queue = s.queue /\ t.timeout = s.timeout
      /\ t.nb_trans = s.nb_trans /\ t.token = "OUT" /\ t.phase = "ZLP_OUT"
  BY <1>1 DEF State, SameUhc
<1>4. /\ (t.fake <=> s.fake) /\ (t.misplaced <=> s.misplaced) /\ (t.enabled <=> s.enabled)
      /\ (t.pipes_error <=> s.pipes_error) /\ (t.armed <=> s.armed)
  BY <1>1 DEF State
<1> QED  BY <1>2, <1>3, <1>4 DEF Moves, Same, SameQueue, Own, TokenOf, AnswerTo

LEMMA CountedIs ==
    ASSUME NEW s \in State, s.enabled, NEW n \in Nat, NEW t, t = [s EXCEPT !.nb_trans = n]
    PROVE  /\ Moves(t, s) /\ t.nb_trans = n /\ t.phase = s.phase
           /\ (t.armed <=> s.armed) /\ t.size = s.size /\ t.ctn = s.ctn
<1>1. t \in State
  BY DEF State
<1>2. /\ t.uhaddr = s.uhaddr /\ t.failed = s.failed /\ SameUhc(t, s)
      /\ t.queue = s.queue /\ t.timeout = s.timeout
      /\ t.nb_trans = n /\ t.phase = s.phase /\ t.size = s.size /\ t.ctn = s.ctn
  BY DEF State, SameUhc
<1>3. /\ (t.fake <=> s.fake) /\ (t.misplaced <=> s.misplaced) /\ (t.enabled <=> s.enabled)
      /\ (t.pipes_error <=> s.pipes_error) /\ (t.armed <=> s.armed)
  BY DEF State
<1> QED  BY <1>1, <1>2, <1>3 DEF Moves, Same, SameQueue

LEMMA MovesOn ==
    ASSUME NEW s, NEW t, NEW x, Moves(x, s), Moves(t, x)
    PROVE  Moves(t, s)
BY DEF Moves, Same, SameUhc, SameQueue

LEMMA HeadBuffer ==
    ASSUME NEW s \in State, s.queue # <<>>
    PROVE  /\ HeadKind(s) \in Kinds /\ Payload[HeadKind(s)] \in Nat /\ WLength[HeadKind(s)] \in Nat
           /\ Left(s) = Payload[HeadKind(s)] - s.nb_trans /\ s.nb_trans \in Nat
           /\ Head(s.queue).kind = HeadKind(s)
<1>1. s.queue \in Seq(Requests) /\ s.nb_trans \in Nat
  BY DEF State
<1>2. Head(s.queue) \in Requests
  BY <1>1, Taking
<1> QED  BY <1>1, <1>2, InRequests, Buffers DEF HeadKind, Left

LEMMA DataInIs ==
    ASSUME NEW s \in State, s.enabled, s.queue # <<>>, NEW t, t = DataIn(s)
    PROVE  Moves(t, s) /\ Bounded(t) /\ (~s.armed => Own(t))
<1>1. PICK copied : copied = IF s.ctn < Left(s) THEN s.ctn ELSE Left(s)
  OBVIOUS
<1>2. PICK n : n = s.nb_trans + copied
  OBVIOUS
<1>3. n \in Nat /\ n <= Payload[HeadKind(s)]
  <2>1. s.ctn \in Nat
    BY DEF State
  <2> QED  BY <1>1, <1>2, <2>1, HeadBuffer
<1>4. PICK got : got = [s EXCEPT !.nb_trans = n]
  OBVIOUS
<1>5. Moves(got, s) /\ got.nb_trans = n /\ (got.armed <=> s.armed)
  BY <1>3, <1>4, CountedIs
<1>6. t = ZlpOut(got) \/ t = StartPhase(got, "DATA_IN", "IN", "in")
  BY <1>1, <1>2, <1>4 DEF DataIn
<1>7. got \in State /\ got.enabled
  BY <1>5 DEF Moves, Same
<1>8. Moves(t, got) /\ (~got.armed => Own(t)) /\ t.nb_trans = n
  <2>1. CASE t = ZlpOut(got)
    BY <1>5, <1>7, <2>1, ZlpOutIs
  <2>2. CASE t = StartPhase(got, "DATA_IN", "IN", "in")
    <3>1. "IN" = TokenOf("DATA_IN") /\ "in" = AnswerTo("IN")
      BY DEF TokenOf, AnswerTo
    <3> QED  BY <1>5, <1>7, <2>2, <3>1, StartPhaseIs
  <2> QED  BY <1>6, <2>1, <2>2
<1>9. Moves(t, s)
  BY <1>5, <1>8, MovesOn
<1>10. Bounded(t)
  <2>1. t.queue = s.queue
    BY <1>9 DEF Moves, SameQueue
  <2> QED  BY <1>3, <1>8, <2>1, HeadBuffer DEF Bounded
<1> QED  BY <1>5, <1>8, <1>9, <1>10

LEMMA DataOutIs ==
    ASSUME NEW s \in State, s.enabled, s.queue # <<>>, NEW t, t = DataOut(s)
    PROVE  Moves(t, s) /\ (Bounded(s) => Bounded(t)) /\ Own(t)
<1>1. CASE s.nb_trans = WLength[HeadKind(s)] \/ Left(s) = 0
  <2>1. PICK x : x = [s EXCEPT !.phase = "DATA_OUT"]
    OBVIOUS
  <2>2. x \in State
    BY <2>1 DEF State, Phases
  <2>3. /\ x.uhaddr = s.uhaddr /\ x.failed = s.failed /\ SameUhc(x, s)
        /\ x.queue = s.queue /\ x.timeout = s.timeout /\ x.nb_trans = s.nb_trans
    BY <2>1 DEF State, SameUhc
  <2>4. /\ (x.fake <=> s.fake) /\ (x.misplaced <=> s.misplaced) /\ (x.enabled <=> s.enabled)
        /\ (x.pipes_error <=> s.pipes_error)
    BY <2>1 DEF State
  <2>5. Moves(x, s)
    BY <2>2, <2>3, <2>4 DEF Moves, Same, SameQueue
  <2>6. t = StartPhase(x, "ZLP_IN", "IN", "in")
    BY <1>1, <2>1 DEF DataOut, ZlpIn
  <2>7. "IN" = TokenOf("ZLP_IN") /\ "in" = AnswerTo("IN")
    BY DEF TokenOf, AnswerTo
  <2>8. Moves(t, x) /\ Own(t) /\ t.nb_trans = x.nb_trans
    BY <2>2, <2>4, <2>6, <2>7, StartPhaseIs
  <2>9. Moves(t, s)
    BY <2>5, <2>8, MovesOn
  <2>10. t.queue = s.queue /\ t.nb_trans = s.nb_trans
    BY <2>3, <2>8, <2>9 DEF Moves, SameQueue
  <2> QED  BY <2>8, <2>9, <2>10 DEF Bounded
<1>2. CASE ~(s.nb_trans = WLength[HeadKind(s)] \/ Left(s) = 0)
  <2>1. PICK n : n = IF Left(s) < s.size THEN Left(s) ELSE s.size
    OBVIOUS
  <2>2. PICK m : m = s.nb_trans + n
    OBVIOUS
  <2>3. m \in Nat /\ m <= Payload[HeadKind(s)]
    <3>1. s.size \in Nat
      BY Buffers DEF State
    <3> QED  BY <2>1, <2>2, <3>1, HeadBuffer
  <2>4. PICK x : x = [s EXCEPT !.nb_trans = m]
    OBVIOUS
  <2>5. Moves(x, s) /\ x.nb_trans = m
    BY <2>3, <2>4, CountedIs
  <2>6. t = StartPhase(x, "DATA_OUT", "OUT", "out")
    <3>1. x = [s EXCEPT !.nb_trans = @ + n]
      BY <2>2, <2>4 DEF State
    <3> QED  BY <1>2, <2>1, <3>1 DEF DataOut
  <2>7. "OUT" = TokenOf("DATA_OUT") /\ "out" = AnswerTo("OUT")
    BY DEF TokenOf, AnswerTo
  <2>8. x \in State /\ x.enabled
    BY <2>5 DEF Moves, Same
  <2>9. Moves(t, x) /\ Own(t) /\ t.nb_trans = x.nb_trans
    BY <2>6, <2>7, <2>8, StartPhaseIs
  <2>10. Moves(t, s)
    BY <2>5, <2>9, MovesOn
  <2>11. t.queue = s.queue
    BY <2>10 DEF Moves, SameQueue
  <2> QED  BY <2>3, <2>5, <2>9, <2>10, <2>11, HeadBuffer DEF Bounded
<1> QED  BY <1>1, <1>2

----------------------------------------------------------------------------
(* The interrupt of pipe 0 *)

(* t is what an interrupt makes of s. *)
Kept(s) == Working(s) /\ Bounded(s) /\ Delays(s) /\ Addressed(s)
Serves(t, s) ==
    /\ t \in State /\ Off(t) /\ (t.failed = {} => s.failed = {} /\ (t.misplaced <=> s.misplaced))
    /\ t.failed = {} /\ s.timeout > 0 /\ Kept(s) => Kept(t) /\ (Has(t, "step10") => Has(s, "step10"))
    /\ t.failed = {} /\ s.timeout > 0 /\ Own(s) /\ ~s.fake =>
         ~t.fake /\ (t.timeout > 0 => Own(t))

LEMMA SameDelays ==
    ASSUME NEW s, NEW t, SameUhc(t, s), t.uhaddr = s.uhaddr, t.queue = s.queue,
           t.enabled <=> s.enabled
    PROVE  /\ Delays(s) => Delays(t)
           /\ Addressed(s) => Addressed(t)
           /\ Has(t, "step10") <=> Has(s, "step10")
BY DEF SameUhc, Delays, Addressed, Has

LEMMA FailedIs ==
    ASSUME NEW s \in State, Off(s), NEW a \in Assertions, NEW t, t = Failed(s, a)
    PROVE  /\ t \in State /\ Off(t) /\ t.failed # {}
           /\ t.queue = s.queue /\ t.phase = s.phase /\ (t.enabled <=> s.enabled)
           /\ (t.misplaced <=> s.misplaced) /\ t.flags = s.flags
<1>1. t = [s EXCEPT !.failed = s.failed \cup {a}]
  BY DEF Failed, State
<1>2. t \in State
  BY <1>1 DEF State
<1>3. /\ t.failed = s.failed \cup {a} /\ t.queue = s.queue /\ t.phase = s.phase
      /\ t.flags = s.flags /\ t.ie = s.ie
  BY <1>1 DEF State
<1>4. (t.enabled <=> s.enabled) /\ (t.misplaced <=> s.misplaced) /\ (t.armed <=> s.armed)
  BY <1>1 DEF State
<1> QED  BY <1>2, <1>3, <1>4 DEF Off

LEMMA FailedServes ==
    ASSUME NEW s, NEW t, t \in State, Off(t), t.failed # {}
    PROVE  Serves(t, s)
BY DEF Serves

LEMMA JudgedIs ==
    ASSUME NEW s \in State, s.enabled, s.flags # {}, NEW j, j = Judged(s)
    PROVE  /\ j \in State /\ j.enabled /\ Off(j)
           /\ SameUhc(j, s) /\ j.uhaddr = s.uhaddr /\ j.failed = s.failed
           /\ (j.misplaced <=> s.misplaced)
           /\ j.queue = s.queue /\ j.timeout = s.timeout /\ ~j.pipes_error
           /\ j.phase = s.phase /\ j.nb_trans = s.nb_trans /\ (j.armed <=> s.armed)
           /\ j.fake => s.fake \/ (Expected(s) /\ s.answerFor[Event(s)] # s.phase)
<1>1. Event(s) \in s.flags /\ Event(s) \in Events
  BY DEF State, Event, Events, Answers
<1>2. PICK answers \in [Answers -> Phases \cup {"old"}] :
        answers = [a \in Answers |-> IF a = Event(s) THEN "old" ELSE s.answerFor[a]]
  <2>1. s.answerFor \in [Answers -> Phases \cup {"old"}]
    BY DEF State
  <2> QED  BY <2>1
<1>3. PICK frozen \in BOOLEAN : frozen = (s.frozen \/ Event(s) \in {"setup", "out"})
  OBVIOUS
<1>4. PICK fake \in BOOLEAN : fake = (s.fake \/ (Expected(s) /\ s.answerFor[Event(s)] # s.phase))
  OBVIOUS
<1>5. PICK x : x = [s EXCEPT !.ie = s.ie \ Answers, !.flags = s.flags \ {Event(s)},
                             !.answerFor = answers]
  OBVIOUS
<1>6. x \in State
  BY <1>5 DEF State
<1>7. PICK y : y = [x EXCEPT !.pipes_error = FALSE, !.frozen = frozen]
  OBVIOUS
<1>8. y \in State
  BY <1>6, <1>7 DEF State
<1>9. y = Taken(s)
  BY <1>2, <1>3, <1>5, <1>7 DEF Taken, State
<1>10. j = [y EXCEPT !.fake = fake]
  <2>1. (y.fake <=> s.fake)
    BY <1>5, <1>6, <1>7 DEF State
  <2>2. y.fake = s.fake
    BY <1>5, <1>7 DEF State
  <2> QED  BY <1>4, <1>9, <2>2 DEF Judged
<1>11. j \in State
  BY <1>8, <1>10, ZenonT(60) DEF State
<1>12. /\ x.uhaddr = s.uhaddr /\ x.failed = s.failed /\ SameUhc(x, s)
       /\ x.queue = s.queue /\ x.timeout = s.timeout
       /\ x.nb_trans = s.nb_trans /\ x.phase = s.phase
  BY <1>5 DEF State, SameUhc
<1>13. /\ y.uhaddr = x.uhaddr /\ y.failed = x.failed /\ SameUhc(y, x)
       /\ y.queue = x.queue /\ y.timeout = x.timeout
       /\ y.nb_trans = x.nb_trans /\ y.phase = x.phase
  BY <1>6, <1>7 DEF State, SameUhc
<1>14. /\ j.uhaddr = y.uhaddr /\ j.failed = y.failed /\ SameUhc(j, y)
       /\ j.queue = y.queue /\ j.timeout = y.timeout
       /\ j.nb_trans = y.nb_trans /\ j.phase = y.phase
  BY <1>8, <1>10 DEF State, SameUhc
<1>15. (x.misplaced <=> s.misplaced) /\ (x.armed <=> s.armed) /\ (x.enabled <=> s.enabled)
  BY <1>5 DEF State
<1>16. (y.misplaced <=> x.misplaced) /\ (y.armed <=> x.armed) /\ (y.enabled <=> x.enabled) /\ ~y.pipes_error
  BY <1>6, <1>7 DEF State
<1>17. /\ (j.misplaced <=> y.misplaced) /\ (j.armed <=> y.armed) /\ (j.enabled <=> y.enabled)
       /\ (j.pipes_error <=> y.pipes_error) /\ (j.fake <=> fake)
  BY <1>8, <1>10 DEF State
<1> QED  BY <1>4, <1>11, <1>12, <1>13, <1>14, <1>15, <1>16, <1>17 DEF SameUhc, Off

(* The request of s goes on; j is s with the event taken. *)
LEMMA MovesServes ==
    ASSUME NEW s \in State, s.enabled, s.flags # {}, NEW j, j = Judged(s),
           NEW t, Moves(t, j), Bounded(s) => Bounded(t),
           Own(s) => Own(t) /\ (Expected(s) => s.answerFor[Event(s)] = s.phase)
    PROVE  Serves(t, s)
<1>1. /\ t \in State /\ t.enabled /\ SameUhc(t, s) /\ t.uhaddr = s.uhaddr /\ t.failed = s.failed
      /\ (t.misplaced <=> s.misplaced) /\ t.queue = s.queue /\ t.timeout = s.timeout
      /\ (t.fake <=> j.fake)
      /\ j.fake => s.fake \/ (Expected(s) /\ s.answerFor[Event(s)] # s.phase)
  BY JudgedIs DEF Moves, Same, SameUhc, SameQueue
<1>2. s.timeout > 0 /\ Kept(s) => Kept(t) /\ (Has(t, "step10") => Has(s, "step10"))
  <2>1. /\ Delays(s) => Delays(t)
        /\ Addressed(s) => Addressed(t)
        /\ Has(t, "step10") <=> Has(s, "step10")
    BY <1>1, SameDelays
  <2>2. Working(s) /\ s.timeout > 0 => Working(t)
    <3>1. s.timeout > 0 => s.timeout # 0
      OBVIOUS
    <3> QED  BY <1>1, <3>1 DEF Working
  <2> QED  BY <2>1, <2>2 DEF Kept
<1>3. Own(s) /\ ~s.fake => ~t.fake /\ Own(t)
  BY <1>1
<1> QED  BY <1>1, <1>2, <1>3 DEF Serves, Off

LEMMA EndServes ==
    ASSUME NEW s \in State, s.enabled, s.flags # {}, NEW j, j = Judged(s),
           NEW status \in Status, NEW valid \in BOOLEAN, NEW t, t = RequestEnd(j, status, valid),
           Own(s) => (Expected(s) => s.answerFor[Event(s)] = s.phase)
    PROVE  Serves(t, s)
<1>1. /\ j \in State /\ j.enabled /\ Off(j)
      /\ SameUhc(j, s) /\ j.uhaddr = s.uhaddr /\ j.failed = s.failed
      /\ (j.misplaced <=> s.misplaced) /\ j.queue = s.queue
      /\ j.fake => s.fake \/ (Expected(s) /\ s.answerFor[Event(s)] # s.phase)
  BY JudgedIs
<1>2. CASE j.queue = <<>>
  <2>1. t = Failed(j, "NULL")
    BY <1>2 DEF RequestEnd, NoHead
  <2>2. t \in State /\ Off(t) /\ t.failed # {}
    BY <1>1, <2>1, FailedIs DEF Assertions
  <2> QED  BY <2>2, FailedServes
<1>3. CASE j.queue # <<>>
  <2>1. /\ Same(t, j) /\ Off(t) /\ Working(t) /\ Bounded(t) /\ (t.timeout > 0 => Own(t))
        /\ Delays(j) /\ (status = "NOERROR" => j.enabled /\ Addressed(j)) =>
             Delays(t) /\ ~Has(t, "step10")
    BY <1>1, <1>3, EndIs
  <2>2. t \in State /\ t.failed = s.failed /\ (t.misplaced <=> s.misplaced) /\ (t.fake <=> j.fake)
    BY <1>1, <2>1 DEF Same
  <2>3. s.timeout > 0 /\ Kept(s) => Kept(t) /\ (Has(t, "step10") => Has(s, "step10"))
    <3>1. (Delays(s) => Delays(j)) /\ (Addressed(s) => Addressed(j))
      BY <1>1, SameDelays
    <3> QED  BY <1>1, <2>1, <3>1 DEF Kept, Addressed
  <2>4. Own(s) /\ ~s.fake => ~t.fake /\ (t.timeout > 0 => Own(t))
    BY <1>1, <2>1, <2>2
  <2> QED  BY <2>1, <2>2, <2>3, <2>4 DEF Serves
<1> QED  BY <1>2, <1>3

(* What follows the assertion that a request is on-going *)
Handled(s, valid) ==
    IF ErrorFreezes(s)
    THEN [s EXCEPT !.frozen = TRUE, !.flags = @ \ {"error"}, !.pipes_error = TRUE]
    ELSE IF WaitsForEver(s) THEN Failed(s, "wait")
    ELSE IF s.queue = <<>> /\ UsesHead(s) THEN NoHead(s)
    ELSE CASE Event(s) = "setup" -> HandledSetup(Judged(s))
           [] Event(s) = "in"    -> HandledIn(Judged(s), valid)
           [] Event(s) = "out"   -> HandledOut(Judged(s), valid)
           [] Event(s) = "stall" -> RequestEnd(Judged(s), "STALL", valid)
           [] OTHER              -> RequestEnd(Judged(s), "ERROR", valid)

LEMMA HandledServes ==
    ASSUME NEW s \in State, Off(s), s.enabled, s.flags # {}, NEW valid \in BOOLEAN,
           NEW t, t = Handled(s, valid)
    PROVE  Serves(t, s)
<1>1. t = IF ErrorFreezes(s)
          THEN [s EXCEPT !.frozen = TRUE, !.flags = @ \ {"error"}, !.pipes_error = TRUE]
          ELSE IF WaitsForEver(s) THEN Failed(s, "wait")
          ELSE IF s.queue = <<>> /\ UsesHead(s) THEN NoHead(s)
          ELSE CASE Event(s) = "setup" -> HandledSetup(Judged(s))
                 [] Event(s) = "in"    -> HandledIn(Judged(s), valid)
                 [] Event(s) = "out"   -> HandledOut(Judged(s), valid)
                 [] Event(s) = "stall" -> RequestEnd(Judged(s), "STALL", valid)
                 [] OTHER              -> RequestEnd(Judged(s), "ERROR", valid)
  BY DEF Handled
<1>2. CASE ErrorFreezes(s)
  <2>1. PICK x : x = [s EXCEPT !.flags = s.flags \ {"error"}]
    OBVIOUS
  <2>2. x \in State
    BY <2>1 DEF State
  <2>3. t = [x EXCEPT !.frozen = TRUE, !.pipes_error = TRUE]
    BY <1>1, <1>2, <2>1 DEF State
  <2>4. t \in State
    BY <2>2, <2>3, ZenonT(60) DEF State
  <2>5. /\ x.uhaddr = s.uhaddr /\ x.failed = s.failed /\ SameUhc(x, s)
        /\ x.queue = s.queue /\ x.timeout = s.timeout /\ x.flags \subseteq s.flags
        /\ x.nb_trans = s.nb_trans /\ x.phase = s.phase /\ x.token = s.token
        /\ x.armedFor = s.armedFor /\ x.answerFor = s.answerFor
    BY <2>1 DEF State, SameUhc
  <2>6. /\ t.uhaddr = x.uhaddr /\ t.failed = x.failed /\ SameUhc(t, x)
        /\ t.queue = x.queue /\ t.timeout = x.timeout /\ t.flags = x.flags
        /\ t.nb_trans = x.nb_trans /\ t.phase = x.phase /\ t.token = x.token
        /\ t.armedFor = x.armedFor /\ t.answerFor = x.answerFor
    BY <2>2, <2>3 DEF State, SameUhc
  <2>7. /\ (x.misplaced <=> s.misplaced) /\ (x.armed <=> s.armed) /\ (x.enabled <=> s.enabled)
        /\ (x.fake <=> s.fake) /\ (x.zlp_out_delayed <=> s.zlp_out_delayed)
    BY <2>1 DEF State
  <2>8. /\ (t.misplaced <=> x.misplaced) /\ (t.armed <=> x.armed) /\ (t.enabled <=> x.enabled)
        /\ (t.fake <=> x.fake) /\ (t.zlp_out_delayed <=> x.zlp_out_delayed)
    BY <2>2, <2>3 DEF State
  <2>9. s.timeout > 0 /\ Kept(s) => Kept(t) /\ (Has(t, "step10") => Has(s, "step10"))
    <3>1. /\ Delays(s) => Delays(t)
          /\ Addressed(s) => Addressed(t)
          /\ Has(t, "step10") <=> Has(s, "step10")
      <4>1. SameUhc(t, s) /\ t.uhaddr = s.uhaddr /\ t.queue = s.queue /\ (t.enabled <=> s.enabled)
        BY <2>5, <2>6, <2>7, <2>8 DEF SameUhc
      <4> QED  BY <4>1, SameDelays
    <3>2. Working(s) /\ s.timeout > 0 => Working(t)
      <4>1. s.timeout > 0 => s.timeout # 0
        OBVIOUS
      <4> QED  BY <2>5, <2>6, <4>1 DEF Working
    <3>3. Bounded(s) => Bounded(t)
      BY <2>5, <2>6 DEF Bounded
    <3> QED  BY <3>1, <3>2, <3>3 DEF Kept
  <2>10. Own(s) => Own(t)
    BY <2>5, <2>6, <2>7, <2>8 DEF Own
  <2> QED  BY <2>4, <2>5, <2>6, <2>7, <2>8, <2>9, <2>10 DEF Serves, Off
<1>0. CASE ~ErrorFreezes(s) /\ WaitsForEver(s)
  <2>1. t = Failed(s, "wait")
    BY <1>1, <1>0
  <2>2. t \in State /\ Off(t) /\ t.failed # {}
    BY <2>1, FailedIs DEF Assertions
  <2> QED  BY <2>2, FailedServes
<1>3. CASE ~ErrorFreezes(s) /\ ~WaitsForEver(s) /\ s.queue = <<>> /\ UsesHead(s)
  <2>1. t = Failed(s, "NULL")
    BY <1>1, <1>3 DEF NoHead
  <2>2. t \in State /\ Off(t) /\ t.failed # {}
    BY <2>1, FailedIs DEF Assertions
  <2> QED  BY <2>2, FailedServes
<1>4. CASE ~ErrorFreezes(s) /\ ~WaitsForEver(s) /\ ~(s.queue = <<>> /\ UsesHead(s))
  <2>1. PICK j : j = Judged(s)
    OBVIOUS
  <2>2. /\ j \in State /\ j.enabled /\ Off(j) /\ j.queue = s.queue /\ j.phase = s.phase
        /\ j.nb_trans = s.nb_trans /\ (j.armed <=> s.armed)
    BY <2>1, JudgedIs
  <2>3. Event(s) \in s.flags /\ Event(s) \in {"setup", "in", "out", "stall", "error"}
    BY DEF State, Event, Events, Answers
  <2>4. s.phase \in {"SETUP", "DATA_IN", "DATA_OUT", "ZLP_IN", "ZLP_OUT"}
    BY DEF State, Phases
  <2>5. Own(s) => (Expected(s) => s.answerFor[Event(s)] = s.phase)
    <3>1. Expected(s) => Event(s) = AnswerTo(TokenOf(s.phase))
      BY <2>4 DEF Expected, AnswerTo, TokenOf
    <3> QED  BY <2>3, <3>1 DEF Own
  <2>6. Bounded(s) => Bounded(j)
    BY <2>2 DEF Bounded
  <2>7. CASE Event(s) = "setup"
    <3>1. t = HandledSetup(j) /\ s.queue # <<>>
      BY <1>1, <1>4, <2>1, <2>7 DEF UsesHead
    <3>2. CASE j.phase = "SETUP"
      <4>1. Moves(t, j) /\ (Bounded(j) => Bounded(t)) /\ Own(t)
        <5>1. CASE Dir(HeadKind(j)) = "IN"
          <6>1. t = StartPhase(j, "DATA_IN", "IN", "in")
            BY <3>1, <3>2, <5>1 DEF HandledSetup, DataInStart
          <6>2. "IN" = TokenOf("DATA_IN") /\ "in" = AnswerTo("IN")
            BY DEF TokenOf, AnswerTo
          <6>3. Moves(t, j) /\ Own(t) /\ t.nb_trans = j.nb_trans
            BY <2>2, <6>1, <6>2, StartPhaseIs
          <6> QED  BY <6>3 DEF Moves, SameQueue, Bounded
        <5>2. CASE Dir(HeadKind(j)) # "IN" /\ WLength[HeadKind(j)] > 0
          <6>1. t = DataOut(j)
            BY <3>1, <3>2, <5>2 DEF HandledSetup
          <6> QED  BY <2>2, <3>1, <6>1, DataOutIs
        <5>3. CASE Dir(HeadKind(j)) # "IN" /\ ~(WLength[HeadKind(j)] > 0)
          <6>1. t = StartPhase(j, "ZLP_IN", "IN", "in")
            BY <3>1, <3>2, <5>3 DEF HandledSetup, ZlpIn
          <6>2. "IN" = TokenOf("ZLP_IN") /\ "in" = AnswerTo("IN")
            BY DEF TokenOf, AnswerTo
          <6>3. Moves(t, j) /\ Own(t) /\ t.nb_trans = j.nb_trans
            BY <2>2, <6>1, <6>2, StartPhaseIs
          <6> QED  BY <6>3 DEF Moves, SameQueue, Bounded
        <5> QED  BY <5>1, <5>2, <5>3
      <4> QED  BY <2>1, <2>5, <2>6, <4>1, MovesServes
    <3>3. CASE j.phase # "SETUP"
      <4>1. PICK f : f = Failed(j, "setup phase")
        OBVIOUS
      <4>2. f \in State /\ f.failed # {} /\ f.enabled /\ f.queue # <<>>
        <5>1. "setup phase" \in Assertions
          BY DEF Assertions
        <5>2. f \in State /\ f.failed # {} /\ f.queue = j.queue /\ (f.enabled <=> j.enabled)
          BY <2>2, <4>1, <5>1, FailedIs
        <5> QED  BY <2>2, <3>1, <5>2
      <4>3. Moves(t, f)
        <5>1. CASE Dir(HeadKind(j)) = "IN"
          <6>1. t = StartPhase(f, "DATA_IN", "IN", "in")
            BY <3>1, <3>3, <4>1, <5>1 DEF HandledSetup, DataInStart
          <6>2. "IN" = TokenOf("DATA_IN") /\ "in" = AnswerTo("IN")
            BY DEF TokenOf, AnswerTo
          <6> QED  BY <4>2, <6>1, <6>2, StartPhaseIs
        <5>2. CASE Dir(HeadKind(j)) # "IN" /\ WLength[HeadKind(j)] > 0
          <6>1. t = DataOut(f)
            BY <3>1, <3>3, <4>1, <5>2 DEF HandledSetup
          <6> QED  BY <4>2, <6>1, DataOutIs
        <5>3. CASE Dir(HeadKind(j)) # "IN" /\ ~(WLength[HeadKind(j)] > 0)
          <6>1. t = StartPhase(f, "ZLP_IN", "IN", "in")
            BY <3>1, <3>3, <4>1, <5>3 DEF HandledSetup, ZlpIn
          <6>2. "IN" = TokenOf("ZLP_IN") /\ "in" = AnswerTo("IN")
            BY DEF TokenOf, AnswerTo
          <6> QED  BY <4>2, <6>1, <6>2, StartPhaseIs
        <5> QED  BY <5>1, <5>2, <5>3
      <4>4. t \in State /\ Off(t) /\ t.failed # {}
        BY <4>2, <4>3 DEF Moves, Same, Off
      <4> QED  BY <4>4, FailedServes
    <3> QED  BY <3>2, <3>3
  <2>8. CASE Event(s) = "in"
    <3>1. t = HandledIn(j, valid)
      BY <1>1, <1>4, <2>1, <2>8
    <3>2. CASE s.phase = "DATA_IN"
      <4>1. t = DataIn(j)
        BY <2>2, <3>1, <3>2 DEF HandledIn
      <4>2. s.queue # <<>>
        BY <1>4, <2>8, <3>2 DEF UsesHead, Expected
      <4>3. Moves(t, j) /\ Bounded(t) /\ (~j.armed => Own(t))
        BY <2>2, <4>1, <4>2, DataInIs
      <4>4. Own(s) => ~j.armed
        BY <2>2, <2>3, <2>8, <3>2 DEF Own
      <4> QED  BY <2>1, <2>5, <4>3, <4>4, MovesServes
    <3>3. CASE s.phase = "ZLP_IN"
      <4>1. t = RequestEnd(j, "NOERROR", valid)
        BY <2>2, <3>1, <3>3 DEF HandledIn
      <4> QED  BY <2>1, <2>5, <4>1, EndServes DEF Status
    <3>4. CASE s.phase \notin {"DATA_IN", "ZLP_IN"}
      <4>1. t = Failed(j, "in phase")
        BY <2>2, <3>1, <3>4 DEF HandledIn
      <4>2. t \in State /\ Off(t) /\ t.failed # {}
        BY <2>2, <4>1, FailedIs DEF Assertions
      <4> QED  BY <4>2, FailedServes
    <3> QED  BY <3>2, <3>3, <3>4
  <2>9. CASE Event(s) = "out"
    <3>1. t = HandledOut(j, valid)
      BY <1>1, <1>4, <2>1, <2>9
    <3>2. CASE s.phase = "DATA_OUT"
      <4>1. t = DataOut(j)
        BY <2>2, <3>1, <3>2 DEF HandledOut
      <4>2. s.queue # <<>>
        BY <1>4, <2>9, <3>2 DEF UsesHead, Expected
      <4>3. Moves(t, j) /\ (Bounded(j) => Bounded(t)) /\ Own(t)
        BY <2>2, <4>1, <4>2, DataOutIs
      <4> QED  BY <2>1, <2>5, <2>6, <4>3, MovesServes
    <3>3. CASE s.phase = "ZLP_OUT"
      <4>1. t = RequestEnd(j, "NOERROR", valid)
        BY <2>2, <3>1, <3>3 DEF HandledOut
      <4> QED  BY <2>1, <2>5, <4>1, EndServes DEF Status
    <3>4. CASE s.phase \notin {"DATA_OUT", "ZLP_OUT"}
      <4>1. t = Failed(j, "out phase")
        BY <2>2, <3>1, <3>4 DEF HandledOut
      <4>2. t \in State /\ Off(t) /\ t.failed # {}
        BY <2>2, <4>1, FailedIs DEF Assertions
      <4> QED  BY <4>2, FailedServes
    <3> QED  BY <3>2, <3>3, <3>4
  <2>10. CASE Event(s) \in {"stall", "error"}
    <3>1. t = RequestEnd(j, "STALL", valid) \/ t = RequestEnd(j, "ERROR", valid)
      BY <1>1, <1>4, <2>1, <2>10
    <3> QED  BY <2>1, <2>5, <3>1, EndServes DEF Status
  <2> QED  BY <2>3, <2>7, <2>8, <2>9, <2>10
<1> QED  BY <1>0, <1>2, <1>3, <1>4

(* With no request on-going, the assertion fails. *)
LEMMA InterruptServes ==
    ASSUME NEW s \in State, Off(s), s.enabled, s.flags # {}, NEW valid \in BOOLEAN,
           NEW t, t = CtrlInterrupt(s, valid)
    PROVE  Serves(t, s) /\ (t.failed = {} => s.timeout > 0)
<1>1. CASE s.timeout > 0
  <2>1. t = Handled(s, valid)
    BY <1>1 DEF CtrlInterrupt, Handled
  <2> QED  BY <1>1, <2>1, HandledServes
<1>2. CASE ~(s.timeout > 0)
  <2>1. PICK u : u = Failed(s, "ongoing")
    OBVIOUS
  <2>2. "ongoing" \in Assertions
    BY DEF Assertions
  <2>3. /\ u \in State /\ Off(u) /\ u.failed # {} /\ u.flags = s.flags
        /\ (u.enabled <=> s.enabled)
    BY <2>1, <2>2, FailedIs
  <2>4. t = Handled(u, valid)
    BY <1>2, <2>1 DEF CtrlInterrupt, Handled
  <2>5. u.enabled
    BY <2>3
  <2>6. Serves(t, u)
    BY <2>3, <2>4, <2>5, HandledServes
  <2>7. t \in State /\ Off(t) /\ t.failed # {}
    BY <2>3, <2>6 DEF Serves
  <2> QED  BY <2>7, FailedServes
<1> QED  BY <1>1, <1>2

----------------------------------------------------------------------------
(* SOF *)

(* t is what a SOF, or a part of its handler, makes of s. *)
Ticks(t, s) ==
    /\ t \in State /\ Off(t) /\ (t.failed = {} => s.failed = {})
    /\ t.failed = {} /\ ~t.misplaced => ~s.misplaced
    /\ t.failed = {} /\ Kept(s) => Kept(t)
    /\ t.failed = {} /\ Kept(s) /\ ~t.misplaced /\ ~s.fake /\ (s.timeout > 0 => Own(s)) =>
         ~t.fake /\ (t.timeout > 0 => Own(t))

LEMMA TicksOn ==
    ASSUME NEW s, NEW x, NEW t, Ticks(x, s), Ticks(t, x)
    PROVE  Ticks(t, s)
BY DEF Ticks

LEMMA FailedTicks ==
    ASSUME NEW s, NEW t, t \in State, Off(t), t.failed # {}
    PROVE  Ticks(t, s)
BY DEF Ticks

LEMMA CountDownIs ==
    ASSUME NEW s \in State, Off(s), NEW t, t = CountDown(s)
    PROVE  /\ Ticks(t, s) /\ (t.failed = {} /\ Delays(s) /\ Has(t, "step10") => Has(s, "step10"))
           /\ s.timeout = 0 => t = s
<1>1. CASE s.timeout = 0
  <2>1. t = s
    BY <1>1 DEF CountDown
  <2> QED  BY <2>1 DEF Ticks
<1>2. CASE s.timeout > 1
  <2>1. t = [s EXCEPT !.timeout = s.timeout - 1]
    BY <1>2 DEF CountDown, State
  <2>2. PICK n \in 0 .. CTRL_TIMEOUT : n = s.timeout - 1 /\ n > 0 /\ n # 0
    <3>1. s.timeout \in 0 .. CTRL_TIMEOUT /\ CTRL_TIMEOUT \in Nat
      BY Zero DEF State
    <3> QED  BY <1>2, <3>1
  <2>3. t \in State
    BY <2>1, <2>2, ZenonT(60) DEF State
  <2>4. /\ t.uhaddr = s.uhaddr /\ t.failed = s.failed /\ SameUhc(t, s)
        /\ t.queue = s.queue /\ t.timeout > 0 /\ t.timeout # 0 /\ t.flags = s.flags
        /\ t.nb_trans = s.nb_trans /\ t.phase = s.phase /\ t.token = s.token
        /\ t.armedFor = s.armedFor /\ t.answerFor = s.answerFor /\ t.ie = s.ie
    BY <2>1, <2>2 DEF State, SameUhc
  <2>5. /\ (t.misplaced <=> s.misplaced) /\ (t.armed <=> s.armed) /\ (t.enabled <=> s.enabled)
        /\ (t.fake <=> s.fake) /\ (t.zlp_out_delayed <=> s.zlp_out_delayed)
        /\ (t.pipes_error <=> s.pipes_error)
    BY <2>1 DEF State
  <2>6. /\ Delays(s) => Delays(t)
        /\ Addressed(s) => Addressed(t)
        /\ Has(t, "step10") <=> Has(s, "step10")
    BY <2>4, <2>5, SameDelays
  <2>7. Working(s) => Working(t)
    <3>1. s.timeout # 0 /\ s.timeout > 0
      <4>1. s.timeout \in 0 .. CTRL_TIMEOUT /\ CTRL_TIMEOUT \in Nat
        BY Zero DEF State
      <4> QED  BY <1>2, <4>1
    <3> QED  BY <2>4, <2>5, <3>1 DEF Working
  <2>8. Bounded(s) => Bounded(t)
    BY <2>4 DEF Bounded
  <2>9. s.timeout > 0 /\ (Own(s) => Own(t))
    <3>1. s.timeout > 0
      <4>1. s.timeout \in 0 .. CTRL_TIMEOUT /\ CTRL_TIMEOUT \in Nat
        BY Zero DEF State
      <4> QED  BY <1>2, <4>1
    <3> QED  BY <2>4, <2>5, <3>1 DEF Own
  <2>10. Off(t)
    BY <2>4, <2>5 DEF Off
  <2> QED  BY <1>2, <2>3, <2>4, <2>5, <2>6, <2>7, <2>8, <2>9, <2>10 DEF Ticks, Kept
<1>3. CASE s.timeout = 1
  <2>1. PICK x : x = [s EXCEPT !.frozen = TRUE]
    OBVIOUS
  <2>2. t = RequestEnd(x, "TIMEOUT", TRUE)
    BY <1>3, <2>1 DEF CountDown
  <2>3. x \in State
    BY <2>1 DEF State
  <2>4. /\ x.uhaddr = s.uhaddr /\ x.failed = s.failed /\ SameUhc(x, s)
        /\ x.queue = s.queue /\ x.flags = s.flags /\ x.ie = s.ie
    BY <2>1 DEF State, SameUhc
  <2>5. /\ (x.misplaced <=> s.misplaced) /\ (x.armed <=> s.armed) /\ (x.enabled <=> s.enabled)
        /\ (x.fake <=> s.fake)
    BY <2>1 DEF State
  <2>6. Off(x)
    BY <2>4, <2>5 DEF Off
  <2>7. CASE x.queue = <<>>
    <3>1. t = Failed(x, "NULL")
      BY <2>2, <2>7 DEF RequestEnd, NoHead
    <3>2. t \in State /\ Off(t) /\ t.failed # {}
      BY <2>3, <2>6, <3>1, FailedIs DEF Assertions
    <3> QED  BY <1>3, <3>2, FailedTicks
  <2>8. CASE x.queue # <<>>
    <3>1. "TIMEOUT" \in Status /\ "TIMEOUT" # "NOERROR" /\ TRUE \in BOOLEAN
      BY DEF Status
    <3>2. /\ Same(t, x) /\ Off(t) /\ Working(t) /\ Bounded(t) /\ (t.timeout > 0 => Own(t))
          /\ Delays(x) => Delays(t) /\ ~Has(t, "step10")
      BY <2>2, <2>3, <2>6, <2>8, <3>1, EndIs
    <3>3. Delays(s) => Delays(x)
      BY <2>4, <2>5, SameDelays
    <3>4. t \in State /\ t.failed = s.failed /\ (t.misplaced <=> s.misplaced) /\ (t.fake <=> s.fake)
      BY <2>4, <2>5, <3>2 DEF Same
    <3>5. Delays(s) => Delays(t) /\ Addressed(t) /\ ~Has(t, "step10")
      BY <3>2, <3>3 DEF Addressed
    <3>6. Ticks(t, s)
      BY <3>2, <3>4, <3>5 DEF Ticks, Kept
    <3> QED  BY <1>3, <3>5, <3>6
  <2> QED  BY <2>7, <2>8
<1>4. s.timeout = 0 \/ s.timeout = 1 \/ s.timeout > 1
  <2>1. s.timeout \in 0 .. CTRL_TIMEOUT /\ CTRL_TIMEOUT \in Nat
    BY Zero DEF State
  <2> QED  BY <2>1
<1> QED  BY <1>1, <1>2, <1>3, <1>4

(* What does not concern the request but how it is on the pipe *)
Beside(t, s) ==
    /\ t \in State /\ Off(t) /\ SameUhc(t, s) /\ SameQueue(t, s)
    /\ t.uhaddr = s.uhaddr /\ t.failed = s.failed /\ t.nb_trans = s.nb_trans
    /\ t.phase = s.phase /\ (t.enabled <=> s.enabled) /\ (t.fake <=> s.fake)
    /\ ~t.misplaced => ~s.misplaced /\ (Own(s) => Own(t))

LEMMA BesideTicks ==
    ASSUME NEW s, NEW t, Beside(t, s)
    PROVE  /\ Ticks(t, s) /\ (Has(t, "step10") => Has(s, "step10"))
           /\ (Delays(s) => Delays(t)) /\ (Addressed(s) => Addressed(t))
           /\ (Bounded(s) => Bounded(t)) /\ (Working(s) => Working(t)) /\ (Waiting(s) => Waiting(t))
<1>1. /\ Delays(s) => Delays(t)
      /\ Addressed(s) => Addressed(t)
      /\ Has(t, "step10") <=> Has(s, "step10")
  BY SameDelays DEF Beside, SameQueue
<1>2. Working(s) => Working(t)
  BY DEF Beside, SameQueue, Working
<1>3. Bounded(s) => Bounded(t)
  BY DEF Beside, SameQueue, Bounded
<1>4. Waiting(s) => Waiting(t)
  BY DEF Beside, SameQueue, Waiting
<1>5. Ticks(t, s)
  BY <1>1, <1>2, <1>3 DEF Ticks, Kept, Beside, SameQueue
<1> QED  BY <1>1, <1>2, <1>3, <1>4, <1>5

LEMMA BesideOn ==
    ASSUME NEW s, NEW x, NEW t, Beside(x, s), Beside(t, x)
    PROVE  Beside(t, s)
BY DEF Beside, SameUhc, SameQueue

LEMMA DelayedZlpIs ==
    ASSUME NEW s \in State, Off(s), NEW t, t = DelayedZlp(s)
    PROVE  Beside(t, s) /\ ~t.zlp_out_delayed
<1>1. CASE ~s.zlp_out_delayed
  <2>1. t = s
    BY <1>1 DEF DelayedZlp
  <2> QED  BY <1>1, <2>1 DEF Beside, SameUhc, SameQueue
<1>2. CASE s.zlp_out_delayed
  <2>1. PICK odd \in BOOLEAN : odd = (s.misplaced \/ s.phase # "ZLP_OUT")
    OBVIOUS
  <2>2. PICK ie \in SUBSET Events : /\ ie = IF s.enabled THEN s.ie \cup {"out"} ELSE s.ie
                                    /\ ~s.enabled => ie = s.ie
    <3>1. s.ie \in SUBSET Events
      BY DEF State
    <3> QED  BY <3>1 DEF Events, Answers
  <2>3. PICK x : x = [s EXCEPT !.zlp_out_delayed = FALSE, !.misplaced = odd]
    OBVIOUS
  <2>4. x \in State
    BY <2>3 DEF State
  <2>5. PICK y : y = [x EXCEPT !.ie = ie]
    OBVIOUS
  <2>6. y \in State
    BY <2>4, <2>5 DEF State
  <2>7. t = Unfreeze(y)
    <3>1. y = [s EXCEPT !.zlp_out_delayed = FALSE, !.misplaced = odd, !.ie = ie]
      BY <2>3, <2>5 DEF State
    <3> QED  BY <1>2, <2>1, <2>2, <3>1 DEF DelayedZlp
  <2>8. /\ x.uhaddr = s.uhaddr /\ x.failed = s.failed /\ SameUhc(x, s)
        /\ x.queue = s.queue /\ x.flags = s.flags /\ x.timeout = s.timeout
        /\ x.nb_trans = s.nb_trans /\ x.phase = s.phase /\ x.token = s.token
        /\ x.armedFor = s.armedFor /\ x.answerFor = s.answerFor /\ x.ie = s.ie
    BY <2>3 DEF State, SameUhc
  <2>9. /\ y.uhaddr = x.uhaddr /\ y.failed = x.failed /\ SameUhc(y, x)
        /\ y.queue = x.queue /\ y.flags = x.flags /\ y.timeout = x.timeout
        /\ y.nb_trans = x.nb_trans /\ y.phase = x.phase /\ y.token = x.token
        /\ y.armedFor = x.armedFor /\ y.answerFor = x.answerFor /\ y.ie = ie
    BY <2>4, <2>5 DEF State, SameUhc
  <2>10. /\ (x.misplaced <=> odd) /\ (x.armed <=> s.armed) /\ (x.enabled <=> s.enabled)
         /\ (x.fake <=> s.fake) /\ ~x.zlp_out_delayed
         /\ (x.pipes_error <=> s.pipes_error)
    BY <2>3 DEF State
  <2>11. /\ (y.misplaced <=> x.misplaced) /\ (y.armed <=> x.armed) /\ (y.enabled <=> x.enabled)
         /\ (y.fake <=> x.fake) /\ (y.zlp_out_delayed <=> x.zlp_out_delayed)
         /\ (y.pipes_error <=> x.pipes_error)
    BY <2>4, <2>5 DEF State
  <2>12. (y.misplaced <=> odd) /\ (~odd => ~s.misplaced /\ s.phase = "ZLP_OUT")
    BY <2>1, <2>10, <2>11
  <2>13. CASE ~s.enabled
    <3>1. t = y
      BY <2>7, <2>10, <2>11, <2>13 DEF Unfreeze
    <3>2. ~s.armed /\ s.ie = {} /\ s.flags = {}
      BY <2>13 DEF Off
    <3>3. ~t.armed /\ t.ie = {} /\ t.flags = {} /\ ~t.enabled
      BY <2>2, <2>8, <2>9, <2>10, <2>11, <2>13, <3>1, <3>2
    <3>4. Own(t)
      BY <2>10, <2>11, <3>1, <3>3 DEF Own
    <3> QED  BY <2>6, <2>8, <2>9, <2>10, <2>11, <2>12, <3>1, <3>3, <3>4
             DEF Beside, SameUhc, SameQueue, Off
  <2>14. CASE s.enabled
    <3>1. y.enabled
      BY <2>10, <2>11, <2>14
    <3>2. PICK z : z = [y EXCEPT !.frozen = FALSE, !.armed = TRUE]
      OBVIOUS
    <3>3. z \in State
      BY <2>6, <3>2 DEF State
    <3>4. t = [z EXCEPT !.armedFor = y.phase]
      BY <2>6, <2>7, <3>1, <3>2 DEF Unfreeze, State
    <3>5. t \in State
      BY <2>6, <3>3, <3>4 DEF State
    <3>6. /\ z.uhaddr = y.uhaddr /\ z.failed = y.failed /\ SameUhc(z, y)
          /\ z.queue = y.queue /\ z.flags = y.flags /\ z.timeout = y.timeout
          /\ z.nb_trans = y.nb_trans /\ z.phase = y.phase /\ z.token = y.token
          /\ z.answerFor = y.answerFor
      BY <2>6, <3>2 DEF State, SameUhc
    <3>7. /\ t.uhaddr = z.uhaddr /\ t.failed = z.failed /\ SameUhc(t, z)
          /\ t.queue = z.queue /\ t.flags = z.flags /\ t.timeout = z.timeout
          /\ t.nb_trans = z.nb_trans /\ t.phase = z.phase /\ t.token = z.token
          /\ t.answerFor = z.answerFor /\ t.armedFor = y.phase
      BY <3>3, <3>4 DEF State, SameUhc
    <3>8. /\ (z.misplaced <=> y.misplaced) /\ z.armed /\ (z.enabled <=> y.enabled)
          /\ (z.fake <=> y.fake) /\ (z.zlp_out_delayed <=> y.zlp_out_delayed)
          /\ (z.pipes_error <=> y.pipes_error)
      BY <2>6, <3>2 DEF State
    <3>9. /\ (t.misplaced <=> z.misplaced) /\ t.armed /\ (t.enabled <=> z.enabled)
          /\ (t.fake <=> z.fake) /\ (t.zlp_out_delayed <=> z.zlp_out_delayed)
          /\ (t.pipes_error <=> z.pipes_error)
      BY <3>3, <3>4, <3>8 DEF State
    <3>10. ~odd /\ Own(s) => Own(t)
      <4>1. /\ t.phase = s.phase /\ t.token = s.token /\ t.armedFor = s.phase
            /\ t.flags = s.flags /\ t.answerFor = s.answerFor /\ ~t.zlp_out_delayed
        BY <2>8, <2>9, <2>10, <2>11, <3>6, <3>7, <3>8, <3>9
      <4>2. ~odd /\ Own(s) => s.phase = "ZLP_OUT" /\ s.token = "OUT" /\ TokenOf("ZLP_OUT") = "OUT"
        BY <1>2, <2>12 DEF Own, TokenOf
      <4> QED  BY <4>1, <4>2 DEF Own
    <3>11. SameUhc(t, s) /\ SameQueue(t, s) /\ t.uhaddr = s.uhaddr /\ t.failed = s.failed
           /\ t.nb_trans = s.nb_trans /\ t.phase = s.phase
      BY <2>8, <2>9, <2>10, <2>11, <3>6, <3>7, <3>8, <3>9 DEF SameUhc, SameQueue
    <3> QED  BY <2>10, <2>11, <2>12, <2>14, <3>1, <3>5, <3>8, <3>9, <3>10, <3>11 DEF Beside, Off
  <2> QED  BY <2>13, <2>14
<1> QED  BY <1>1, <1>2

LEMMA RaiseErrorIs ==
    ASSUME NEW s \in State, Off(s), NEW t, t = RaiseError(s)
    PROVE  Beside(t, s) /\ (t.zlp_out_delayed <=> s.zlp_out_delayed)
<1>1. CASE ~(s.pipes_error /\ s.enabled)
  <2>1. t = s
    BY <1>1 DEF RaiseError
  <2> QED  BY <2>1 DEF Beside, SameUhc, SameQueue
<1>2. CASE s.pipes_error /\ s.enabled
  <2>1. PICK flags \in SUBSET Events : flags = s.flags \cup {"error"}
    BY DEF State, Events
  <2>2. t = [s EXCEPT !.flags = flags]
    BY <1>2, <2>1 DEF RaiseError, State
  <2>3. t \in State
    BY <2>2 DEF State
  <2>4. /\ t.uhaddr = s.uhaddr /\ t.failed = s.failed /\ SameUhc(t, s)
        /\ t.queue = s.queue /\ t.flags = flags /\ t.timeout = s.timeout
        /\ t.nb_trans = s.nb_trans /\ t.phase = s.phase /\ t.token = s.token
        /\ t.armedFor = s.armedFor /\ t.answerFor = s.answerFor
    BY <2>2 DEF State, SameUhc
  <2>5. /\ (t.misplaced <=> s.misplaced) /\ (t.armed <=> s.armed) /\ (t.enabled <=> s.enabled)
        /\ (t.fake <=> s.fake) /\ (t.zlp_out_delayed <=> s.zlp_out_delayed)
        /\ (t.pipes_error <=> s.pipes_error)
    BY <2>2 DEF State
  <2>6. Own(s) => Own(t)
    <3>1. AnswerTo(TokenOf(s.phase)) # "error"
      BY DEF AnswerTo
    <3>2. \A e : e # "error" /\ e \in t.flags => e \in s.flags
      BY <2>1, <2>4
    <3> QED  BY <2>4, <2>5, <3>1, <3>2 DEF Own
  <2> QED  BY <1>2, <2>3, <2>4, <2>5, <2>6 DEF Beside, SameQueue, Off
<1> QED  BY <1>1, <1>2

----------------------------------------------------------------------------
(* The steps of the UHC *)

(* The pipe is freed: its requests are called back. *)
LEMMA EpFreeIs ==
    ASSUME NEW s \in State, Off(s), NEW t, t = EpFree(s, s.uhaddr)
    PROVE  /\ t \in State /\ Off(t) /\ ~t.enabled /\ t.uhaddr = s.uhaddr
           /\ (t.failed = {} => s.failed = {} /\ SameUhc(t, s))
           /\ (t.fake <=> s.fake) /\ (t.misplaced <=> s.misplaced)
           /\ Delays(s) /\ t.failed = {} => Delays(t)
           /\ Working(s) => Working(t) /\ t.queue = <<>>
           /\ Waiting(s) => t = Disabled(s)
<1>1. PICK d : d = Disabled(s)
  OBVIOUS
<1>2. /\ Same(d, s) /\ SameUhc(d, s) /\ SameQueue(d, s) /\ Off(d) /\ ~d.enabled
  BY <1>1, DisabledIs
<1>3. d \in State /\ d.uhaddr = s.uhaddr /\ d.failed = s.failed
  BY <1>2 DEF Same
<1>4. Delays(s) => Delays(d)
  BY <1>2, <1>3 DEF Delays, SameUhc, SameQueue, Has
<1>5. CASE ~(s.timeout > 0 \/ s.pipes_error)
  <2>1. t = d
    BY <1>1, <1>5 DEF EpFree
  <2>2. Working(s) => s.queue = <<>>
    BY <1>5 DEF Working
  <2>3. Working(s) => Working(t) /\ t.queue = <<>>
    BY <1>2, <2>1, <2>2 DEF SameQueue, Working
  <2> QED  BY <1>1, <1>2, <1>3, <1>4, <2>1, <2>3 DEF Same
<1>6. CASE s.timeout > 0 \/ s.pipes_error
  <2>1. t = RequestEnd(d, "DISCONNECT", TRUE)
    BY <1>1, <1>6 DEF EpFree
  <2>2. ~Waiting(s)
    <3>1. s.timeout > 0 => s.timeout # 0
      OBVIOUS
    <3> QED  BY <1>6, <3>1 DEF Waiting
  <2>3. Working(s) => s.queue # <<>>
    <3>1. s.timeout > 0 => s.timeout # 0
      OBVIOUS
    <3> QED  BY <1>6, <3>1 DEF Working
  <2>4. CASE d.queue = <<>>
    <3>1. t = Failed(d, "NULL")
      BY <2>1, <2>4 DEF RequestEnd, NoHead
    <3>2. t \in State /\ Off(t) /\ t.failed # {} /\ (t.enabled <=> d.enabled)
          /\ (t.misplaced <=> d.misplaced)
      <4>1. d \in State /\ Off(d) /\ "NULL" \in Assertions
        BY <1>2, <1>3 DEF Assertions
      <4> QED  BY <3>1, <4>1, FailedIs, Zenon
    <3>3. (t.fake <=> d.fake) /\ t.uhaddr = d.uhaddr
      BY <1>3, <3>1 DEF Failed, State
    <3>4. ~Working(s)
      BY <1>2, <2>3, <2>4 DEF SameQueue
    <3> QED  BY <1>2, <1>3, <2>2, <3>2, <3>3, <3>4 DEF Same
  <2>5. CASE d.queue # <<>>
    <3>1. "DISCONNECT" \in Status /\ "DISCONNECT" # "NOERROR" /\ TRUE \in BOOLEAN
      BY DEF Status
    <3>2. /\ Same(t, d) /\ Off(t) /\ Working(t)
          /\ t.enabled => d.enabled
          /\ ~d.enabled => t.queue = <<>>
          /\ SameUhc(t, d)
          /\ Delays(d) => Delays(t)
      BY <1>2, <1>3, <2>1, <2>5, <3>1, EndIs
    <3>3. SameUhc(t, s) /\ ~t.enabled /\ t.queue = <<>>
      BY <1>2, <3>2 DEF SameUhc
    <3> QED  BY <1>2, <1>3, <1>4, <2>2, <3>2, <3>3 DEF Same
  <2> QED  BY <2>4, <2>5
<1> QED  BY <1>5, <1>6

LEMMA AllocIs ==
    ASSUME NEW s \in State, NEW add \in {0, 1}, NEW size \in {EnumPipeSize, PipeSize},
           NEW t, t = uhd_ep0_alloc(s, add, size)
    PROVE  /\ t \in State /\ SameUhc(t, s) /\ SameQueue(t, s) /\ Off(t) /\ t.enabled
           /\ t.uhaddr = add /\ t.failed = s.failed
           /\ (t.fake <=> s.fake) /\ (t.misplaced <=> s.misplaced)
           /\ t.nb_trans = s.nb_trans /\ (t.armed <=> s.armed) /\ t.flags = s.flags
           /\ (t.zlp_out_delayed <=> s.zlp_out_delayed)
<1>1. PICK ie \in SUBSET Events : ie = s.ie \cup {"stall", "error"}
  BY DEF State, Events
<1>2. PICK x : x = [s EXCEPT !.uhaddr = add, !.size = size, !.token = "SETUP", !.ie = ie]
  OBVIOUS
<1>3. x \in State
  BY <1>2 DEF State
<1>4. t = [x EXCEPT !.enabled = TRUE]
  BY <1>1, <1>2 DEF uhd_ep0_alloc, State
<1>5. t \in State
  BY <1>3, <1>4 DEF State
<1>6. /\ x.uhaddr = add /\ x.failed = s.failed /\ SameUhc(x, s) /\ x.queue = s.queue
      /\ x.timeout = s.timeout /\ x.nb_trans = s.nb_trans /\ x.flags = s.flags
  BY <1>2 DEF State, SameUhc
<1>7. /\ t.uhaddr = x.uhaddr /\ t.failed = x.failed /\ SameUhc(t, x) /\ t.queue = x.queue
      /\ t.timeout = x.timeout /\ t.nb_trans = x.nb_trans /\ t.flags = x.flags
  BY <1>3, <1>4 DEF State, SameUhc
<1>8. /\ (x.fake <=> s.fake) /\ (x.misplaced <=> s.misplaced) /\ (x.armed <=> s.armed)
      /\ (x.zlp_out_delayed <=> s.zlp_out_delayed) /\ (x.pipes_error <=> s.pipes_error)
  BY <1>2 DEF State
<1>9. /\ (t.fake <=> x.fake) /\ (t.misplaced <=> x.misplaced) /\ (t.armed <=> x.armed)
      /\ (t.zlp_out_delayed <=> x.zlp_out_delayed) /\ (t.pipes_error <=> x.pipes_error)
      /\ t.enabled
  BY <1>3, <1>4 DEF State
<1> QED  BY <1>5, <1>6, <1>7, <1>8, <1>9 DEF SameUhc, SameQueue, Off

(* A request joins the queue, and is started if it was empty. *)
LEMMA SetupRequestIs ==
    ASSUME NEW s \in State, Off(s), NEW r \in Requests, NEW t, t = SetupRequest(s, r)
    PROVE  /\ Same(t, s) /\ SameUhc(t, s) /\ Off(t) /\ (t.enabled <=> s.enabled)
           /\ Working(s) => Working(t)
           /\ Bounded(s) => Bounded(t)
           /\ s.queue = <<>> => /\ t.timeout > 0 => Own(t)
                                /\ HeadOnly(t.queue)
                                /\ \A i \in DOMAIN t.queue : t.queue[i].end = r.end
           /\ s.queue # <<>> => /\ t.queue = Append(s.queue, r)
                                /\ Own(s) => Own(t)
<1>1. PICK q : q = Append(s.queue, r)
  OBVIOUS
<1>2. s.queue \in Seq(Requests)
  BY DEF State
<1>3. /\ q \in Seq(Requests) /\ q # <<>>
      /\ s.queue = <<>> => HeadOnly(q) /\ \A i \in DOMAIN q : q[i] = r
      /\ s.queue # <<>> => Head(q) = Head(s.queue)
  <2>1. q \in Seq(Requests) /\ q # <<>>
    BY <1>1, <1>2, Put
  <2>2. ASSUME s.queue = <<>>
        PROVE  HeadOnly(q) /\ \A i \in DOMAIN q : q[i] = r
    <3>1. q = <<r>>
      BY <1>1, <2>2
    <3>2. DOMAIN q = {1} /\ q[1] = r
      BY <3>1
    <3> QED  BY <3>2 DEF HeadOnly
  <2>3. s.queue # <<>> => Head(q) = Head(s.queue)
    BY <1>1, <1>2, Put
  <2> QED  BY <2>1, <2>2, <2>3
<1>4. PICK x : x = [s EXCEPT !.queue = q]
  OBVIOUS
<1>5. x \in State
  BY <1>3, <1>4 DEF State
<1>6. /\ x.uhaddr = s.uhaddr /\ x.failed = s.failed /\ SameUhc(x, s)
      /\ x.queue = q /\ x.flags = s.flags /\ x.timeout = s.timeout
      /\ x.nb_trans = s.nb_trans /\ x.phase = s.phase /\ x.token = s.token
      /\ x.armedFor = s.armedFor /\ x.answerFor = s.answerFor /\ x.ie = s.ie
  BY <1>4 DEF State, SameUhc
<1>7. /\ (x.fake <=> s.fake) /\ (x.misplaced <=> s.misplaced) /\ (x.armed <=> s.armed)
      /\ (x.zlp_out_delayed <=> s.zlp_out_delayed) /\ (x.pipes_error <=> s.pipes_error)
      /\ (x.enabled <=> s.enabled)
  BY <1>4 DEF State
<1>8. Same(x, s) /\ Off(x)
  BY <1>5, <1>6, <1>7 DEF Same, Off
<1>9. t = IF s.queue = <<>> THEN Start(x) ELSE x
  <2>1. x = [s EXCEPT !.queue = Append(@, r)]
    BY <1>1, <1>4 DEF State
  <2> QED  BY <2>1 DEF SetupRequest
<1>10. CASE s.queue = <<>>
  <2>1. t = Start(x)
    BY <1>9, <1>10
  <2>2. /\ Same(t, x) /\ SameUhc(t, x) /\ Off(t) /\ (t.enabled <=> x.enabled)
        /\ Working(t) /\ Bounded(t) /\ (t.timeout > 0 => Own(t))
        /\ Within(t.queue, x.queue) /\ (HeadOnly(x.queue) => HeadOnly(t.queue))
    BY <1>3, <1>5, <1>6, <1>8, <2>1, StartIs
  <2>3. Same(t, s) /\ SameUhc(t, s) /\ (t.enabled <=> s.enabled)
    BY <1>6, <1>7, <1>8, <2>2 DEF Same, SameUhc
  <2>4. HeadOnly(t.queue) /\ \A i \in DOMAIN t.queue : t.queue[i].end = r.end
    BY <1>3, <1>6, <1>10, <2>2 DEF Within
  <2> QED  BY <1>10, <2>2, <2>3, <2>4
<1>11. CASE s.queue # <<>>
  <2>1. t = x
    BY <1>9, <1>11
  <2>2. Working(s) => Working(t)
    BY <1>3, <1>6, <1>11, <2>1 DEF Working
  <2>3. Bounded(s) => Bounded(t)
    BY <1>3, <1>6, <1>11, <2>1 DEF Bounded
  <2>4. Own(s) => Own(t)
    BY <1>6, <1>7, <2>1 DEF Own
  <2> QED  BY <1>1, <1>6, <1>7, <1>8, <1>11, <2>1, <2>2, <2>3, <2>4
<1> QED  BY <1>10, <1>11

Timed(s, timer, address) == [s EXCEPT !.timer = timer, !.address = address]

LEMMA TimedIs ==
    ASSUME NEW s \in State, Off(s), NEW address \in {0, 1, NOT_VALID},
           NEW timer \in {"none", "step5", "step9", "step11"},
           NEW t, t = Timed(s, timer, address)
    PROVE  /\ Same(t, s) /\ SameQueue(t, s) /\ Off(t) /\ (t.enabled <=> s.enabled)
           /\ t.timer = timer /\ t.address = address /\ t.nb_trans = s.nb_trans
           /\ (t.zlp_out_delayed <=> s.zlp_out_delayed)
           /\ (t.armed <=> s.armed) /\ t.flags = s.flags /\ t.phase = s.phase
<1>1. t \in State
  BY DEF State, Timed
<1>2. /\ t.uhaddr = s.uhaddr /\ t.failed = s.failed /\ t.timer = timer /\ t.address = address
      /\ t.queue = s.queue /\ t.flags = s.flags /\ t.timeout = s.timeout
      /\ t.nb_trans = s.nb_trans /\ t.phase = s.phase /\ t.ie = s.ie
  BY DEF State, Timed
<1>3. /\ (t.fake <=> s.fake) /\ (t.misplaced <=> s.misplaced) /\ (t.armed <=> s.armed)
      /\ (t.zlp_out_delayed <=> s.zlp_out_delayed) /\ (t.pipes_error <=> s.pipes_error)
      /\ (t.enabled <=> s.enabled)
  BY DEF State, Timed
<1> QED  BY <1>1, <1>2, <1>3 DEF Same, SameQueue, Off

LEMMA EnumRequestIs ==
    ASSUME NEW f \in State, Off(f), f.queue = <<>>, Working(f), f.timer = "none",
           NEW add \in {0, 1}, NEW size \in {EnumPipeSize, PipeSize}, NEW r \in Requests,
           add = 1 => f.address = 1 /\ r.end \notin {"step6", "step10"},
           r.end = "step10" => f.address = 1,
           NEW t, t = SetupRequest(uhd_ep0_alloc(f, add, size), r)
    PROVE  Kept(t) /\ (t.timeout > 0 => Own(t))
<1>1. PICK a : a = uhd_ep0_alloc(f, add, size)
  OBVIOUS
<1>2. /\ a \in State /\ SameUhc(a, f) /\ SameQueue(a, f) /\ Off(a) /\ a.uhaddr = add
  BY <1>1, AllocIs
<1>3. a.queue = <<>> /\ Working(a) /\ Bounded(a)
  BY <1>2 DEF SameQueue, Working, Bounded
<1>4. /\ Same(t, a) /\ SameUhc(t, a) /\ Working(t) /\ Bounded(t) /\ (t.timeout > 0 => Own(t))
      /\ HeadOnly(t.queue) /\ \A i \in DOMAIN t.queue : t.queue[i].end = r.end
  BY <1>1, <1>2, <1>3, SetupRequestIs
<1>5. t.uhaddr = add /\ t.timer = "none" /\ t.address = f.address
  BY <1>2, <1>4 DEF Same, SameUhc
<1>6. Addressed(t)
  BY <1>4, <1>5 DEF Addressed, Has
<1>7. Delays(t)
  <2>1. t.uhaddr = 1 => ~Has(t, "step6") /\ ~Has(t, "step10")
    BY <1>4, <1>5 DEF Has
  <2> QED  BY <1>4, <1>5, <2>1 DEF Delays, HeadOnly
<1> QED  BY <1>4, <1>6, <1>7 DEF Kept

LEMMA EnumStepIs ==
    ASSUME NEW s \in State, Off(s), ~s.zlp_out_delayed, NEW t, t = EnumStep(s)
    PROVE  Ticks(t, s)
<1>1. CASE s.timer = "none"
  <2>1. t = s
    BY <1>1 DEF EnumStep
  <2> QED  BY <2>1 DEF Ticks
<1>2. CASE s.timer \in {"step5", "step9", "step11"}
  <2>1. PICK address \in {0, 1, NOT_VALID} : /\ s.timer = "step9" => address = 1
                                             /\ s.timer # "step9" => address = s.address
    BY DEF State
  <2>2. PICK y : y = [s EXCEPT !.timer = "none", !.address = address]
    OBVIOUS
  <2>3. /\ Same(y, s) /\ SameQueue(y, s) /\ Off(y) /\ (y.enabled <=> s.enabled)
        /\ y.timer = "none" /\ y.address = address /\ y.nb_trans = s.nb_trans
        /\ (y.zlp_out_delayed <=> s.zlp_out_delayed)
        /\ (y.armed <=> s.armed) /\ y.flags = s.flags /\ y.phase = s.phase
    <3>1. y = Timed(s, "none", address)
      BY <2>2 DEF Timed
    <3> QED  BY <3>1, TimedIs
  <2>4. y \in State /\ y.uhaddr = s.uhaddr /\ y.failed = s.failed /\ s.uhaddr \in {0, 1}
    BY <2>3 DEF Same, State
  <2>5. PICK f : f = EpFree(y, 0)
    OBVIOUS
  <2>6. f = y \/ (y.uhaddr = 0 /\ f = EpFree(y, y.uhaddr))
    BY <2>4, <2>5 DEF EpFree
  <2>7. /\ f \in State /\ Off(f) /\ (f.failed = {} => s.failed = {})
        /\ (f.fake <=> s.fake) /\ (f.misplaced <=> s.misplaced)
    <3>1. CASE f = y
      BY <2>3, <3>1 DEF Same
    <3>2. CASE f = EpFree(y, y.uhaddr)
      <4>1. /\ f \in State /\ Off(f) /\ (f.failed = {} => y.failed = {})
            /\ (f.fake <=> y.fake) /\ (f.misplaced <=> y.misplaced)
        BY <2>3, <2>4, <3>2, EpFreeIs
      <4> QED  BY <2>3, <4>1 DEF Same
    <3> QED  BY <2>6, <3>1, <3>2
  <2>8. PICK add \in {0, 1}, size \in {EnumPipeSize, PipeSize}, r \in Requests :
          /\ t = SetupRequest(uhd_ep0_alloc(f, add, size), r)
          /\ s.timer = "step5" => add = 0 /\ r.end = "step6"
          /\ s.timer = "step9" => add = 0 /\ r.end = "step10"
          /\ s.timer = "step11" => add = 1 /\ r.end = "step12"
    <3>1. y = IF s.timer = "step9" THEN [[s EXCEPT !.timer = "none"] EXCEPT !.address = 1]
              ELSE [s EXCEPT !.timer = "none"]
      BY <2>1, <2>2 DEF State
    <3>2. /\ [add |-> 0, kind |-> "start", end |-> "step6"] \in Requests
          /\ [add |-> 0, kind |-> "none", end |-> "step10"] \in Requests
          /\ [add |-> 1, kind |-> "in", end |-> "step12"] \in Requests
      BY Buffers DEF Requests, EnumSteps
    <3>3. CASE s.timer = "step5"
      <4>1. t = SetupRequest(uhd_ep0_alloc(f, 0, EnumPipeSize),
                             [add |-> 0, kind |-> "start", end |-> "step6"])
        BY <2>5, <3>1, <3>3 DEF EnumStep
      <4> QED  BY <3>2, <3>3, <4>1
    <3>4. CASE s.timer = "step9"
      <4>1. t = SetupRequest(uhd_ep0_alloc(f, 0, PipeSize),
                             [add |-> 0, kind |-> "none", end |-> "step10"])
        BY <2>5, <3>1, <3>4 DEF EnumStep
      <4> QED  BY <3>2, <3>4, <4>1
    <3>5. CASE s.timer = "step11"
      <4>1. t = SetupRequest(uhd_ep0_alloc(f, 1, PipeSize),
                             [add |-> 1, kind |-> "in", end |-> "step12"])
        BY <2>5, <3>1, <3>5 DEF EnumStep
      <4> QED  BY <3>2, <3>5, <4>1
    <3> QED  BY <1>2, <3>3, <3>4, <3>5
  <2>9. PICK a : a = uhd_ep0_alloc(f, add, size)
    OBVIOUS
  <2>10. /\ a \in State /\ SameUhc(a, f) /\ SameQueue(a, f) /\ Off(a)
         /\ a.uhaddr = add /\ a.failed = f.failed
         /\ (a.fake <=> f.fake) /\ (a.misplaced <=> f.misplaced)
         /\ a.nb_trans = f.nb_trans /\ (a.armed <=> f.armed) /\ a.flags = f.flags
         /\ (a.zlp_out_delayed <=> f.zlp_out_delayed)
    BY <2>7, <2>9, AllocIs
  <2>11. /\ Same(t, a) /\ SameUhc(t, a) /\ Off(t)
         /\ Working(a) => Working(t)
         /\ Bounded(a) => Bounded(t)
         /\ a.queue # <<>> => /\ t.queue = Append(a.queue, r)
                              /\ Own(a) => Own(t)
    BY <2>8, <2>9, <2>10, SetupRequestIs
  <2>12. /\ t \in State /\ t.failed = f.failed
         /\ (t.fake <=> s.fake) /\ (t.misplaced <=> s.misplaced)
    BY <2>7, <2>10, <2>11 DEF Same
  <2>13. ASSUME t.failed = {}, Kept(s)
         PROVE  Kept(t) /\ (t.timeout > 0 => Own(t))
    <3>1. Working(y) /\ Bounded(y) /\ Delays(s)
      BY <2>3, <2>13 DEF Kept, SameQueue, Working, Bounded
    <3>2. s.timer = "step11" => s.address = 1 /\ s.uhaddr = 0
      BY <3>1 DEF Delays
    <3>3. CASE f.queue = <<>> /\ Working(f) /\ f.timer = "none" /\ f.address = address
      <4>1. add = 1 => f.address = 1 /\ r.end \notin {"step6", "step10"}
        BY <1>2, <2>1, <2>8, <3>2, <3>3
      <4>2. r.end = "step10" => f.address = 1
        BY <1>2, <2>1, <2>8, <3>3
      <4> QED  BY <2>7, <2>8, <3>3, <4>1, <4>2, EnumRequestIs
    <3>4. CASE s.uhaddr = 0
      <4>1. f = EpFree(y, y.uhaddr)
        BY <2>4, <2>5, <3>4
      <4>2. f.failed = {}
        BY <2>12, <2>13
      <4>3. f.queue = <<>> /\ Working(f) /\ SameUhc(f, y)
        BY <2>3, <2>4, <3>1, <4>1, <4>2, EpFreeIs
      <4>4. f.timer = "none" /\ f.address = address
        BY <2>3, <4>3 DEF SameUhc
      <4> QED  BY <3>3, <4>3, <4>4
    <3>5. CASE s.uhaddr = 1
      <4>1. f = y /\ s.timer = "step5" /\ ~s.enabled
        BY <1>2, <2>4, <2>6, <3>1, <3>5 DEF Delays
      <4>2. CASE f.queue = <<>>
        BY <2>3, <3>1, <3>3, <4>1, <4>2
      <4>3. CASE f.queue # <<>>
        <5>1. a.queue = s.queue /\ a.queue # <<>> /\ s.queue \in Seq(Requests)
          BY <2>3, <2>10, <4>1, <4>3 DEF SameQueue, State
        <5>2. Own(a)
          <6>1. ~s.armed /\ s.flags = {}
            BY <4>1 DEF Off
          <6>2. ~a.armed /\ a.flags = {} /\ ~a.zlp_out_delayed
            BY <2>3, <2>10, <4>1, <6>1
          <6> QED  BY <6>2 DEF Own
        <5>3. Working(a) /\ Bounded(a)
          BY <2>10, <3>1, <4>1 DEF SameQueue, Working, Bounded
        <5>4. Working(t) /\ Bounded(t) /\ Own(t) /\ t.queue = Append(s.queue, r)
          BY <2>11, <5>1, <5>2, <5>3
        <5>5. r.end = "step6" /\ add = 0
          BY <2>8, <4>1
        <5>6. t.uhaddr = 0 /\ t.timer = "none"
          BY <2>3, <2>10, <2>11, <4>1, <5>5 DEF Same, SameUhc
        <5>7. ~Has(s, "step10") /\ HeadOnly(s.queue)
          BY <3>1, <3>5 DEF Delays, HeadOnly
        <5>8. HeadOnly(t.queue) /\ ~Has(t, "step10")
          <6>1. r.end # "step10"
            BY <5>5
          <6>2. HeadOnly(t.queue)
            BY <5>1, <5>4, <5>7, <6>1, Put
          <6>3. \A i \in DOMAIN t.queue :
                  t.queue[i] = r \/ \E j \in DOMAIN s.queue : t.queue[i].end = s.queue[j].end
            BY <5>1, <5>4, Put
          <6> QED  BY <5>7, <6>1, <6>2, <6>3 DEF Has
        <5>9. Delays(t) /\ Addressed(t)
          BY <5>6, <5>8 DEF Delays, Addressed, HeadOnly
        <5> QED  BY <5>4, <5>9 DEF Kept
      <4> QED  BY <4>2, <4>3
    <3> QED  BY <2>4, <3>4, <3>5
  <2> QED  BY <2>7, <2>11, <2>12, <2>13 DEF Ticks
<1> QED  BY <1>1, <1>2 DEF State

LEMMA SofIs ==
    ASSUME NEW s \in State, Off(s), NEW due \in BOOLEAN, NEW t, t = SofInterrupt(s, due)
    PROVE  /\ Ticks(t, s)
           /\ ~due /\ t.failed = {} /\ Delays(s) /\ Has(t, "step10") => Has(s, "step10")
           /\ ~due /\ s.timeout = 0 => Beside(t, s)
<1>1. PICK x : x = CountDown(s)
  OBVIOUS
<1>2. /\ Ticks(x, s) /\ (x.failed = {} /\ Delays(s) /\ Has(x, "step10") => Has(s, "step10"))
      /\ s.timeout = 0 => x = s
  BY <1>1, CountDownIs
<1>3. PICK y : y = DelayedZlp(x)
  OBVIOUS
<1>4. x \in State /\ Off(x)
  BY <1>2 DEF Ticks
<1>5. Beside(y, x) /\ ~y.zlp_out_delayed
  BY <1>3, <1>4, DelayedZlpIs
<1>6. PICK z : z = RaiseError(y)
  OBVIOUS
<1>7. Beside(z, y) /\ ~z.zlp_out_delayed
  <2>1. y \in State /\ Off(y)
    BY <1>5 DEF Beside
  <2> QED  BY <1>5, <1>6, <2>1, RaiseErrorIs
<1>8. Beside(z, x)
  BY <1>5, <1>7, BesideOn
<1>9. Ticks(z, x) /\ (Has(z, "step10") => Has(x, "step10")) /\ z.failed = x.failed
  BY <1>8, BesideTicks DEF Beside
<1>10. Ticks(z, s)
  BY <1>2, <1>9, TicksOn
<1>11. t = IF due /\ "NULL" \notin z.failed THEN EnumStep(z) ELSE z
  BY <1>1, <1>3, <1>6 DEF SofInterrupt
<1>12. CASE due /\ "NULL" \notin z.failed
  <2>1. z \in State /\ Off(z)
    BY <1>8 DEF Beside
  <2>2. t = EnumStep(z)
    BY <1>11, <1>12
  <2>3. Ticks(t, z)
    BY <1>7, <2>1, <2>2, EnumStepIs
  <2> QED  BY <1>10, <1>12, <2>3, TicksOn
<1>13. CASE ~(due /\ "NULL" \notin z.failed)
  <2>1. t = z
    BY <1>11, <1>13
  <2> QED  BY <1>2, <1>8, <1>9, <1>10, <2>1
<1> QED  BY <1>12, <1>13

----------------------------------------------------------------------------
(* The actions *)

LEMMA BesideStep ==
    ASSUME NEW s, NEW t, NEW on, on, NEW main, Core(s, on, main), Beside(t, s)
    PROVE  Core(t, on, main)
<1>1. /\ Delays(s) => Delays(t)
      /\ Addressed(s) => Addressed(t)
      /\ Bounded(s) => Bounded(t)
      /\ Working(s) => Working(t)
      /\ Waiting(s) => Waiting(t)
      /\ Has(t, "step10") => Has(s, "step10")
  BY BesideTicks
<1>2. t \in State /\ Off(t) /\ t.failed = s.failed /\ t.phase = s.phase /\ t.timeout = s.timeout
  BY DEF Beside, SameQueue
<1>4. /\ t.fake <=> s.fake
      /\ ~t.misplaced => ~s.misplaced /\ (Own(s) => Own(t))
  BY DEF Beside
<1>3. Sound(s, on, main) => Sound(t, on, main)
  BY <1>1, <1>2 DEF Sound
<1> QED  BY <1>2, <1>3, <1>4 DEF Core

LEMMA StuckStep ==
    ASSUME NEW t \in State, NEW on \in BOOLEAN, NEW main \in Starts \cup {"idle", "enable"},
           Off(t), t.failed # {}
    PROVE  Core(t, on, main)
BY DEF Core

LEMMA InitStep == Init => IInv
<1> SUFFICES ASSUME Init PROVE IInv
  OBVIOUS
<1>1. PICK old \in [Answers -> Phases \cup {"old"}] : old = [a \in Answers |-> "old"]
  OBVIOUS
<1>2. PICK u : u = usb
  OBVIOUS
<1>3. /\ u.queue = <<>> /\ u.phase = "SETUP" /\ u.timeout = 0 /\ u.nb_trans = 0
      /\ u.uhaddr = 0 /\ u.size = EnumPipeSize /\ u.token = "SETUP" /\ u.ie = {} /\ u.flags = {}
      /\ u.ctn = 0 /\ u.timer = "none" /\ u.address = NOT_VALID /\ u.enum_try = 0
      /\ u.armedFor = "old" /\ u.failed = {}
  BY <1>2 DEF Init
<1>4. /\ ~u.zlp_out_delayed /\ ~u.pipes_error /\ ~u.enabled /\ ~u.armed /\ ~u.fake
  BY <1>2 DEF Init
<1>5. u \in State
  BY <1>1, <1>2, Zero DEF Init, State, Phases
<1>6. ~Has(u, "step10") /\ ~Has(u, "step6")
  BY <1>3 DEF Has
<1>7. Sound(u, FALSE, "idle") /\ Off(u)
  <2>1. Off(u) /\ Working(u) /\ Bounded(u)
    BY <1>3, <1>4 DEF Off, Working, Bounded
  <2>2. Delays(u)
    BY <1>3, <1>4, <1>6 DEF Delays
  <2> QED  BY <1>3, <1>6, <2>1, <2>2 DEF Sound, Starts
<1>8. Core(u, FALSE, "idle")
  <2>1. ~(u.timeout > 0)
    BY <1>3
  <2> QED  BY <1>3, <1>4, <1>5, <1>7, <2>1, Zenon DEF Core
<1> QED  BY <1>2, <1>8 DEF Init, IInv

LEMMA AnswersStep ==
    ASSUME IInv, DeviceAnswers
    PROVE  IInv'
<1>1. PICK u : u = usb
  OBVIOUS
<1>2. PICK t : t = usb'
  OBVIOUS
<1>3. /\ u \in State /\ Off(u) /\ u.armed /\ u.enabled
  BY <1>1 DEF IInv, Core, DeviceAnswers, Off
<1>4. PICK answer \in Events, n \in Nat :
        t = [u EXCEPT !.flags = @ \cup {answer}, !.ctn = n,
                      !.armed = answer = "error" /\ ~u.frozen,
                      !.frozen = @ \/ answer \in {"in", "stall"},
                      !.armedFor = IF answer = "error" /\ ~u.frozen THEN @ ELSE "old",
                      !.answerFor = [a \in Answers |-> IF a = answer THEN u.armedFor ELSE @[a]]]
  <2>1. u.size \in Nat /\ u.ctn \in Nat
    BY <1>3, Buffers DEF State
  <2>2. AnswerTo(u.token) \in Events
    BY DEF AnswerTo, Events, Answers
  <2>3. PICK answer \in {AnswerTo(usb.token), "error"}
                         \cup IF usb.token = "SETUP" THEN {} ELSE {"stall"} :
         \E n \in IF answer = "in" THEN 0 .. usb.size ELSE {usb.ctn} :
        usb' = [usb EXCEPT
                  !.flags = @ \cup {answer}, !.ctn = n,
                  !.armed = answer = "error" /\ ~usb.frozen,
                  !.frozen = @ \/ answer \in {"in", "stall"},
                  !.armedFor = IF answer = "error" /\ ~usb.frozen THEN @ ELSE "old",
                  !.answerFor = [a \in Answers |->
                                   IF a = answer THEN usb.armedFor ELSE @[a]]]
    BY Zenon DEF DeviceAnswers
  <2>4. answer \in Events
    BY <1>1, <2>2, <2>3 DEF Events
  <2>5. \A n \in IF answer = "in" THEN 0 .. usb.size ELSE {usb.ctn} : n \in Nat
    BY <1>1, <2>1
  <2>6. PICK n \in Nat :
        usb' = [usb EXCEPT
                  !.flags = @ \cup {answer}, !.ctn = n,
                  !.armed = answer = "error" /\ ~usb.frozen,
                  !.frozen = @ \/ answer \in {"in", "stall"},
                  !.armedFor = IF answer = "error" /\ ~usb.frozen THEN @ ELSE "old",
                  !.answerFor = [a \in Answers |->
                                   IF a = answer THEN usb.armedFor ELSE @[a]]]
    BY <2>3, <2>5, Zenon
  <2>7. t = [u EXCEPT !.flags = @ \cup {answer}, !.ctn = n,
                      !.armed = answer = "error" /\ ~u.frozen,
                      !.frozen = @ \/ answer \in {"in", "stall"},
                      !.armedFor = IF answer = "error" /\ ~u.frozen THEN @ ELSE "old",
                      !.answerFor = [a \in Answers |-> IF a = answer THEN u.armedFor ELSE @[a]]]
    BY <1>1, <1>2, <2>6, Zenon
  <2> QED  BY <2>4, <2>7, Zenon
<1>5. PICK armed \in BOOLEAN : armed = (answer = "error" /\ ~u.frozen)
  OBVIOUS
<1>6. PICK frozen \in BOOLEAN : frozen = (u.frozen \/ answer \in {"in", "stall"})
  OBVIOUS
<1>7. PICK armedFor \in Phases \cup {"old"} :
        armedFor = IF answer = "error" /\ ~u.frozen THEN u.armedFor ELSE "old"
  BY <1>3 DEF State
<1>8. PICK answerFor \in [Answers -> Phases \cup {"old"}] :
        answerFor = [a \in Answers |-> IF a = answer THEN u.armedFor ELSE u.answerFor[a]]
  BY <1>3 DEF State
<1>9. t = [u EXCEPT !.flags = u.flags \cup {answer}, !.ctn = n, !.armed = armed,
                    !.frozen = frozen, !.armedFor = armedFor, !.answerFor = answerFor]
  BY <1>3, <1>4, <1>5, <1>6, <1>7, <1>8 DEF State
<1>10. t \in State
  BY <1>3, <1>9, ZenonT(60) DEF State
<1>11. /\ SameUhc(t, u) /\ t.queue = u.queue /\ t.timeout = u.timeout /\ t.uhaddr = u.uhaddr
       /\ t.failed = u.failed /\ t.nb_trans = u.nb_trans /\ t.phase = u.phase
       /\ t.token = u.token /\ t.flags = u.flags \cup {answer}
       /\ t.armedFor = armedFor /\ t.answerFor = answerFor
  BY <1>3, <1>9 DEF State, SameUhc
<1>12. /\ (t.pipes_error <=> u.pipes_error) /\ t.enabled /\ (t.fake <=> u.fake)
       /\ (t.misplaced <=> u.misplaced) /\ (t.armed <=> armed)
       /\ (t.zlp_out_delayed <=> u.zlp_out_delayed)
  BY <1>3, <1>9 DEF State
<1>13. Own(u) => Own(t)
  <2> SUFFICES ASSUME Own(u) PROVE Own(t)
    OBVIOUS
  <2>1. u.armedFor = u.phase /\ u.token = TokenOf(u.phase)
    BY <1>3 DEF Own
  <2>2. t.armed => t.armedFor = t.phase /\ t.token = TokenOf(t.phase)
    BY <1>5, <1>7, <1>11, <1>12, <2>1
  <2>3. t.zlp_out_delayed /\ t.phase = "ZLP_OUT" => t.token = "OUT"
    BY <1>11, <1>12 DEF Own
  <2>4. PICK a : a = AnswerTo(TokenOf(u.phase))
    OBVIOUS
  <2>5. a \in Answers
    BY <2>4 DEF AnswerTo, Answers
  <2>6. a \in t.flags => t.answerFor[a] = t.phase
    <3>1. CASE a = answer
      BY <1>8, <1>11, <2>1, <2>5, <3>1
    <3>2. CASE a # answer
      <4>1. a \in u.flags => u.answerFor[a] = u.phase
        BY <2>4 DEF Own
      <4> QED  BY <1>8, <1>11, <2>5, <3>2, <4>1
    <3> QED  BY <3>1, <3>2
  <2>7. t.phase = "DATA_IN" /\ "in" \in t.flags => ~t.armed
    <3>1. u.phase = "DATA_IN" => "in" \notin u.flags
      BY <1>3 DEF Own
    <3> QED  BY <1>5, <1>11, <1>12, <3>1
  <2> QED  BY <1>11, <2>2, <2>3, <2>4, <2>6, <2>7 DEF Own
<1>14. Beside(t, u)
  BY <1>3, <1>10, <1>11, <1>12, <1>13 DEF Beside, SameQueue, Off
<1>15. connected /\ Core(u, connected, pc) /\ connected' = connected /\ pc' = pc
  BY <1>1 DEF DeviceAnswers, IInv
<1>16. Core(t, connected, pc)
  BY <1>14, <1>15, BesideStep
<1> QED  BY <1>2, <1>15, <1>16 DEF IInv

LEMMA InterruptStep ==
    ASSUME IInv, PipeInterrupt
    PROVE  IInv'
<1>1. PICK u : u = usb
  OBVIOUS
<1>2. PICK t : t = usb'
  OBVIOUS
<1>3. /\ u \in State /\ Off(u) /\ Core(u, connected, pc) /\ u.flags \cap u.ie # {}
      /\ connected' = connected /\ pc' = pc /\ connected \in BOOLEAN
      /\ pc \in Starts \cup {"idle", "enable"}
  BY <1>1 DEF IInv, Core, PipeInterrupt
<1>4. u.enabled /\ u.flags # {}
  BY <1>3 DEF Off
<1>5. PICK valid \in BOOLEAN : t = CtrlInterrupt(u, valid)
  BY <1>1, <1>2 DEF PipeInterrupt
<1>6. Serves(t, u) /\ (t.failed = {} => u.timeout > 0)
  BY <1>3, <1>4, <1>5, InterruptServes
<1>7. t \in State /\ Off(t) /\ (t.failed = {} => u.failed = {} /\ (t.misplaced <=> u.misplaced))
  BY <1>6 DEF Serves
<1>8. CASE t.failed # {}
  <2>1. Core(t, connected, pc)
    BY <1>3, <1>7, <1>8, StuckStep
  <2> QED  BY <1>2, <1>3, <2>1 DEF IInv
<1>9. CASE t.failed = {}
  <2>1. u.failed = {} /\ u.timeout > 0 /\ u.timeout # 0 /\ Sound(u, connected, pc)
    BY <1>3, <1>6, <1>7, <1>9 DEF Core
  <2>2. pc \notin Starts /\ pc # "timeout" /\ pc # "setup" /\ pc # "fill"
    BY <2>1 DEF Sound, Waiting, Starts
  <2>3. Kept(u)
    BY <1>3, <2>1, <2>2 DEF Sound, Kept
  <2>4. Kept(t) /\ (Has(t, "step10") => Has(u, "step10"))
    BY <1>6, <1>9, <2>1, <2>3 DEF Serves
  <2>5. Sound(t, connected, pc)
    BY <2>1, <2>2, <2>4 DEF Sound, Kept
  <2>6. ~t.misplaced => ~t.fake /\ (t.timeout > 0 => Own(t))
    BY <1>3, <1>6, <1>7, <1>9, <2>1 DEF Core, Serves
  <2>7. Core(t, connected, pc)
    BY <1>3, <1>7, <2>2, <2>5, <2>6 DEF Core
  <2> QED  BY <1>2, <1>3, <2>7 DEF IInv
<1> QED  BY <1>8, <1>9

LEMMA SofStep ==
    ASSUME IInv, Sof
    PROVE  IInv'
<1>1. PICK u : u = usb
  OBVIOUS
<1>2. PICK t : t = usb'
  OBVIOUS
<1>3. /\ u \in State /\ Off(u) /\ Core(u, connected, pc) /\ connected /\ connected \in BOOLEAN
      /\ connected' = connected /\ pc' = pc /\ pc \in Starts \cup {"idle", "enable"}
  BY <1>1 DEF IInv, Core, Sof
<1>4. PICK due \in BOOLEAN : (due => pc = "idle") /\ t = SofInterrupt(u, due)
  BY <1>1, <1>2 DEF Sof
<1>5. /\ Ticks(t, u)
      /\ ~due /\ t.failed = {} /\ Delays(u) /\ Has(t, "step10") => Has(u, "step10")
      /\ ~due /\ u.timeout = 0 => Beside(t, u)
  BY <1>3, <1>4, SofIs
<1>6. t \in State /\ Off(t) /\ (t.failed = {} => u.failed = {})
  BY <1>5 DEF Ticks
<1>7. CASE t.failed # {}
  <2>1. Core(t, connected, pc)
    BY <1>3, <1>6, <1>7, StuckStep
  <2> QED  BY <1>2, <1>3, <2>1 DEF IInv
<1>8. CASE t.failed = {} /\ pc \in Starts
  <2>1. u.timeout = 0
    BY <1>3, <1>6, <1>8 DEF Core, Sound, Waiting
  <2>2. ~due
    BY <1>4, <1>8 DEF Starts
  <2>3. Core(t, connected, pc)
    BY <1>3, <1>5, <2>1, <2>2, BesideStep
  <2> QED  BY <1>2, <1>3, <2>3 DEF IInv
<1>9. CASE t.failed = {} /\ pc \notin Starts
  <2>1. u.failed = {} /\ Sound(u, connected, pc)
    BY <1>3, <1>6, <1>9 DEF Core
  <2>2. pc # "timeout" /\ pc # "setup" /\ pc # "fill"
    BY <1>9 DEF Starts
  <2>3. Kept(u)
    BY <1>3, <1>9, <2>1, <2>2 DEF Sound, Kept
  <2>4. Kept(t)
    BY <1>5, <1>9, <2>3 DEF Ticks
  <2>5. Has(t, "step10") => pc = "idle"
    BY <1>4, <1>5, <1>9, <2>1, <2>3 DEF Sound, Kept
  <2>6. Sound(t, connected, pc)
    BY <1>9, <2>2, <2>4, <2>5 DEF Sound, Kept
  <2>7. ~t.misplaced => ~t.fake /\ (t.timeout > 0 => Own(t))
    <3>1. ~u.misplaced => ~u.fake /\ (u.timeout > 0 => Own(u))
      BY <1>3, <2>1 DEF Core
    <3>2. ~t.misplaced => ~u.misplaced
      BY <1>5, <1>9 DEF Ticks
    <3> QED  BY <1>5, <1>9, <2>3, <3>1, <3>2 DEF Ticks
  <2>8. Core(t, connected, pc)
    BY <1>3, <1>6, <2>2, <2>6, <2>7 DEF Core
  <2> QED  BY <1>2, <1>3, <2>8 DEF IInv
<1> QED  BY <1>7, <1>8, <1>9

(* A disabled pipe keeps the queue and its request as they are. *)
Emptied(t, s) ==
    /\ t \in State /\ SameQueue(t, s) /\ t.uhaddr = s.uhaddr /\ t.failed = s.failed
    /\ t.nb_trans = s.nb_trans /\ t.phase = s.phase /\ t.token = s.token
    /\ (t.fake <=> s.fake) /\ (t.misplaced <=> s.misplaced)
    /\ (t.zlp_out_delayed <=> s.zlp_out_delayed)
    /\ ~t.enabled /\ ~t.armed /\ t.flags = {}

LEMMA EmptiedStep ==
    ASSUME NEW s, NEW t, NEW on \in BOOLEAN, NEW on2 \in BOOLEAN, NEW main,
           Core(s, on, main), Emptied(t, s), Off(t), t.timer \in {"none", "step5"}
    PROVE  Core(t, on2, main)
<1>1. /\ t \in State /\ t.queue = s.queue /\ t.timeout = s.timeout /\ t.uhaddr = s.uhaddr
      /\ t.failed = s.failed /\ t.nb_trans = s.nb_trans /\ t.phase = s.phase
      /\ t.token = s.token /\ t.flags = {}
  BY DEF Emptied, SameQueue
<1>2. (t.fake <=> s.fake) /\ (t.misplaced <=> s.misplaced) /\ ~t.enabled /\ ~t.armed
  BY DEF Emptied
<1>3. /\ Working(s) => Working(t)
      /\ Waiting(s) => Waiting(t)
      /\ Bounded(s) => Bounded(t)
  BY DEF Emptied, SameQueue, Working, Waiting, Bounded
<1>4. (Delays(s) => Delays(t)) /\ Addressed(t) /\ (Has(t, "step10") => Has(s, "step10"))
  BY <1>1, <1>2 DEF Delays, Addressed, Has
<1>5. Sound(s, on, main) => Sound(t, on2, main)
  BY <1>1, <1>3, <1>4 DEF Sound
<1>6. Own(s) => Own(t)
  <2>1. t.zlp_out_delayed <=> s.zlp_out_delayed
    BY DEF Emptied
  <2> QED  BY <1>1, <1>2, <2>1 DEF Own
<1> QED  BY <1>1, <1>2, <1>5, <1>6 DEF Core

Plugged(s) == [Disabled(s) EXCEPT !.enum_try = 1, !.address = 0, !.timer = "step5"]

LEMMA PluggedIs ==
    ASSUME NEW s \in State, NEW t, t = Plugged(s)
    PROVE  Emptied(t, s) /\ Off(t) /\ t.timer = "step5"
<1>1. PICK d : d = Disabled(s)
  OBVIOUS
<1>2. /\ Same(d, s) /\ SameQueue(d, s) /\ Off(d) /\ ~d.enabled
      /\ ~d.armed /\ d.flags = {} /\ d.phase = s.phase /\ d.nb_trans = s.nb_trans
      /\ (d.zlp_out_delayed <=> s.zlp_out_delayed) /\ d.token = s.token
  BY <1>1, DisabledIs
<1>3. d \in State /\ t = [d EXCEPT !.enum_try = 1, !.address = 0, !.timer = "step5"]
  BY <1>1, <1>2 DEF Same, Plugged
<1>4. t \in State
  BY <1>3, Zero DEF State
<1>5. /\ t.queue = d.queue /\ t.timeout = d.timeout /\ t.uhaddr = d.uhaddr
      /\ t.failed = d.failed /\ t.nb_trans = d.nb_trans /\ t.phase = d.phase
      /\ t.token = d.token /\ t.flags = d.flags /\ t.ie = d.ie /\ t.timer = "step5"
  BY <1>3 DEF State
<1>6. /\ (t.fake <=> d.fake) /\ (t.misplaced <=> d.misplaced) /\ (t.pipes_error <=> d.pipes_error)
      /\ (t.zlp_out_delayed <=> d.zlp_out_delayed) /\ (t.enabled <=> d.enabled)
      /\ (t.armed <=> d.armed)
  BY <1>3 DEF State
<1> QED  BY <1>2, <1>4, <1>5, <1>6 DEF Emptied, Same, SameQueue, Off

LEMMA ConnectStep ==
    ASSUME IInv, Connect
    PROVE  IInv'
<1>1. PICK u : u = usb
  OBVIOUS
<1>2. PICK t : t = usb'
  OBVIOUS
<1>3. /\ u \in State /\ Core(u, connected, pc) /\ connected \in BOOLEAN
      /\ connected' = TRUE /\ pc' = pc /\ t = Plugged(u)
  BY <1>1, <1>2 DEF IInv, Core, Connect, Plugged
<1>4. Emptied(t, u) /\ Off(t) /\ t.timer \in {"none", "step5"}
  BY <1>3, PluggedIs
<1>5. PICK on \in BOOLEAN : on = connected'
  BY <1>3
<1>6. Core(t, on, pc)
  BY <1>3, <1>4, <1>5, EmptiedStep
<1> QED  BY <1>2, <1>3, <1>5, <1>6 DEF IInv

Gone(s) == [s EXCEPT !.installed = FALSE, !.address = NOT_VALID]

LEMMA GoneIs ==
    ASSUME NEW s \in State, NEW t, t = Gone(s)
    PROVE  /\ Same(t, s) /\ SameQueue(t, s) /\ (Off(s) => Off(t)) /\ (t.enabled <=> s.enabled)
           /\ t.timer = s.timer /\ t.nb_trans = s.nb_trans /\ t.phase = s.phase
           /\ t.token = s.token /\ t.flags = s.flags /\ t.ie = s.ie /\ (t.armed <=> s.armed)
           /\ (t.zlp_out_delayed <=> s.zlp_out_delayed) /\ (Own(s) => Own(t))
<1>1. t \in State
  BY DEF Gone, State
<1>2. /\ t.uhaddr = s.uhaddr /\ t.failed = s.failed /\ t.queue = s.queue
      /\ t.timeout = s.timeout /\ t.timer = s.timer /\ t.nb_trans = s.nb_trans
      /\ t.phase = s.phase /\ t.token = s.token /\ t.flags = s.flags /\ t.ie = s.ie
      /\ t.armedFor = s.armedFor /\ t.answerFor = s.answerFor
  BY DEF Gone, State
<1>3. /\ (t.fake <=> s.fake) /\ (t.misplaced <=> s.misplaced) /\ (t.enabled <=> s.enabled)
      /\ (t.armed <=> s.armed) /\ (t.pipes_error <=> s.pipes_error)
      /\ (t.zlp_out_delayed <=> s.zlp_out_delayed)
  BY DEF Gone, State
<1>4. Own(s) => Own(t)
  BY <1>2, <1>3 DEF Own
<1> QED  BY <1>1, <1>2, <1>3, <1>4 DEF Same, SameQueue, Off

(* The pipe has another address than the device: it is left as it is. *)
LEMMA LeftStep ==
    ASSUME NEW s, NEW t, NEW on \in BOOLEAN, NEW main, Core(s, on, main),
           s.flags \cap s.ie = {}, s.address # s.uhaddr,
           t = Gone([s EXCEPT !.timer = "none"])
    PROVE  Core(t, FALSE, main)
<1>1. PICK x : x = [s EXCEPT !.timer = "none"]
  OBVIOUS
<1>2. s \in State /\ Off(s)
  BY DEF Core
<1>3. x \in State
  BY <1>1, <1>2 DEF State
<1>4. /\ x.uhaddr = s.uhaddr /\ x.failed = s.failed /\ x.queue = s.queue /\ x.timer = "none"
      /\ x.timeout = s.timeout /\ x.nb_trans = s.nb_trans
      /\ x.phase = s.phase /\ x.token = s.token /\ x.flags = s.flags /\ x.ie = s.ie
      /\ x.armedFor = s.armedFor /\ x.answerFor = s.answerFor
  BY <1>1, <1>2 DEF State
<1>5. /\ (x.fake <=> s.fake) /\ (x.misplaced <=> s.misplaced) /\ (x.enabled <=> s.enabled)
      /\ (x.armed <=> s.armed) /\ (x.pipes_error <=> s.pipes_error)
      /\ (x.zlp_out_delayed <=> s.zlp_out_delayed)
  BY <1>1, <1>2 DEF State
<1>6. (Own(s) => Own(x)) /\ Off(x)
  BY <1>2, <1>4, <1>5 DEF Own, Off
<1>7. /\ Same(t, x) /\ SameQueue(t, x) /\ Off(t) /\ (t.enabled <=> x.enabled)
      /\ t.timer = "none" /\ t.nb_trans = s.nb_trans /\ t.phase = s.phase
      /\ t.flags = s.flags /\ t.ie = s.ie
      /\ Own(s) => Own(t)
  <2>1. t = Gone(x)
    BY <1>1
  <2>2. /\ Same(t, x) /\ SameQueue(t, x) /\ (Off(x) => Off(t)) /\ (t.enabled <=> x.enabled)
        /\ t.timer = x.timer /\ t.nb_trans = x.nb_trans /\ t.phase = x.phase
        /\ t.flags = x.flags /\ t.ie = x.ie /\ (Own(x) => Own(t))
    BY <1>3, <2>1, GoneIs
  <2> QED  BY <1>4, <1>6, <2>2
<1>8. /\ t \in State /\ t.uhaddr = s.uhaddr /\ t.failed = s.failed /\ t.queue = s.queue
      /\ t.timeout = s.timeout
  BY <1>4, <1>7 DEF Same, SameQueue
<1>9. /\ (t.pipes_error <=> s.pipes_error) /\ (t.enabled <=> s.enabled)
      /\ (t.fake <=> s.fake) /\ (t.misplaced <=> s.misplaced)
  BY <1>5, <1>7 DEF Same, SameQueue
<1>10. Sound(s, on, main) => Sound(t, FALSE, main)
  <2> SUFFICES ASSUME Sound(s, on, main) PROVE Sound(t, FALSE, main)
    OBVIOUS
  <2>1. Delays(t)
    <3>1. Delays(s)
      BY DEF Sound
    <3>2. ~(t.enabled /\ t.uhaddr = 1)
      BY <1>8, <1>9, <3>1 DEF Delays
    <3> QED  BY <1>7, <1>8, <3>1, <3>2 DEF Delays, Has
  <2>2. /\ Working(s) => Working(t)
        /\ Waiting(s) => Waiting(t)
        /\ Bounded(s) => Bounded(t)
    BY <1>7, <1>8, <1>9 DEF Working, Waiting, Bounded
  <2>3. (Has(t, "step10") => Has(s, "step10")) /\ t.flags \cap t.ie = {}
    BY <1>7, <1>8 DEF Has
  <2> QED  BY <1>7, <2>1, <2>2, <2>3 DEF Sound
<1>11. FALSE \in BOOLEAN
  OBVIOUS
<1> QED  BY <1>7, <1>8, <1>9, <1>10, <1>11 DEF Core

(* The pipe has the address of the device: it is freed, with what runs on it. *)
LEMMA FreedStep ==
    ASSUME NEW s, NEW t, NEW on \in BOOLEAN, NEW main, Core(s, on, main),
           s.flags \cap s.ie = {}, s.address = s.uhaddr,
           t = Gone(EpFree([s EXCEPT !.timer = "none"], s.uhaddr))
    PROVE  Core(t, FALSE, main)
<1>1. PICK x : x = Timed(s, "none", s.address)
  OBVIOUS
<1>2. s \in State /\ Off(s) /\ main \in Starts \cup {"idle", "enable"} /\ FALSE \in BOOLEAN
  BY DEF Core
<1>3. /\ Same(x, s) /\ SameQueue(x, s) /\ Off(x) /\ (x.enabled <=> s.enabled)
      /\ x.timer = "none" /\ x.nb_trans = s.nb_trans
      /\ (x.zlp_out_delayed <=> s.zlp_out_delayed)
      /\ x.phase = s.phase
  <2>1. s.address \in {0, 1, NOT_VALID}
    BY <1>2 DEF State
  <2> QED  BY <1>1, <1>2, <2>1, TimedIs
<1>4. x \in State /\ x.uhaddr = s.uhaddr /\ x.failed = s.failed /\ x.token = s.token
  BY <1>1, <1>2, <1>3 DEF Same, State, Timed
<1>5. PICK e : e = EpFree(x, x.uhaddr)
  OBVIOUS
<1>6. t = Gone(e)
  <2>1. x = [s EXCEPT !.timer = "none"]
    BY <1>1, <1>2 DEF State, Timed
  <2> QED  BY <1>4, <1>5, <2>1
<1>7. /\ e \in State /\ Off(e) /\ ~e.enabled /\ e.uhaddr = x.uhaddr
      /\ (e.failed = {} => x.failed = {} /\ SameUhc(e, x))
      /\ (e.fake <=> x.fake) /\ (e.misplaced <=> x.misplaced)
      /\ Working(x) => Working(e) /\ e.queue = <<>>
      /\ Waiting(x) => e = Disabled(x)
  BY <1>3, <1>4, <1>5, EpFreeIs
<1>8. /\ Same(t, e) /\ SameQueue(t, e) /\ Off(t) /\ ~t.enabled
      /\ t.timer = e.timer /\ t.nb_trans = e.nb_trans /\ t.phase = e.phase
      /\ t.token = e.token /\ t.flags = e.flags /\ (t.armed <=> e.armed)
      /\ (t.zlp_out_delayed <=> e.zlp_out_delayed)
  BY <1>6, <1>7, GoneIs
<1>9. t \in State /\ t.failed = e.failed
  BY <1>8 DEF Same
<1>10. CASE t.failed # {}
  BY <1>2, <1>8, <1>9, <1>10, StuckStep
<1>11. CASE t.failed = {}
  <2>1. s.failed = {} /\ Sound(s, on, main) /\ t.timer = "none"
    BY <1>3, <1>4, <1>7, <1>8, <1>9, <1>11 DEF Core, SameUhc
  <2>2. CASE main \in Starts
    <3>1. Waiting(x)
      BY <1>3, <2>1, <2>2 DEF Sound, Waiting, SameQueue
    <3>2. e = Disabled(x)
      BY <1>7, <3>1
    <3>3. /\ Same(e, x) /\ SameQueue(e, x) /\ ~e.enabled
          /\ ~e.armed /\ e.flags = {} /\ e.phase = x.phase /\ e.nb_trans = x.nb_trans
          /\ (e.zlp_out_delayed <=> x.zlp_out_delayed) /\ e.token = x.token
      BY <1>4, <3>2, DisabledIs
    <3>4. /\ t \in State /\ SameQueue(t, s) /\ t.uhaddr = s.uhaddr /\ t.failed = s.failed
          /\ t.nb_trans = s.nb_trans /\ t.phase = s.phase /\ t.token = s.token
          /\ t.flags = {}
      BY <1>3, <1>4, <1>8, <3>3 DEF Same, SameQueue
    <3>5. /\ (t.fake <=> s.fake) /\ (t.misplaced <=> s.misplaced)
          /\ (t.zlp_out_delayed <=> s.zlp_out_delayed)
          /\ ~t.enabled /\ ~t.armed
      BY <1>3, <1>8, <3>3 DEF Same
    <3>6. Emptied(t, s)
      BY <3>4, <3>5 DEF Emptied
    <3>7. PICK on2 \in BOOLEAN : on2 = FALSE
      BY <1>2
    <3>8. Core(t, on2, main)
      BY <1>8, <2>1, <3>6, EmptiedStep
    <3> QED  BY <3>7, <3>8
  <2>3. CASE main \notin Starts
    <3>1. Working(x)
      BY <1>3, <2>1, <2>3 DEF Sound, Working, SameQueue
    <3>2. Working(t) /\ t.queue = <<>>
      BY <1>7, <1>8, <3>1 DEF SameQueue, Working
    <3>3. t.timeout = 0 /\ ~(t.timeout > 0)
      BY <3>2 DEF Working
    <3>4. Delays(t) /\ Bounded(t) /\ ~Has(t, "step10")
      BY <1>8, <2>1, <3>2 DEF Delays, Bounded, Has
    <3>5. Sound(t, FALSE, main)
      BY <1>8, <2>3, <3>2, <3>4 DEF Sound, Starts, Addressed
    <3>6. ~t.misplaced => ~t.fake
      BY <1>3, <1>7, <1>8, <2>1 DEF Core, Same
    <3>7. main # "timeout"
      BY <2>3 DEF Starts
    <3> QED  BY <1>2, <1>8, <1>9, <3>3, <3>5, <3>6, <3>7 DEF Core
  <2> QED  BY <2>2, <2>3
<1> QED  BY <1>10, <1>11

LEMMA DisconnectStep ==
    ASSUME IInv, Disconnect
    PROVE  IInv'
<1>1. PICK u : u = usb
  OBVIOUS
<1>2. PICK t : t = usb'
  OBVIOUS
<1>3. /\ u \in State /\ Core(u, connected, pc) /\ connected \in BOOLEAN /\ u.flags \cap u.ie = {}
      /\ connected' = FALSE /\ pc' = pc
  BY <1>1 DEF IInv, Core, Disconnect, BusInterrupt
<1>4. t = Gone(EpFree([u EXCEPT !.timer = "none"], u.address))
  BY <1>1, <1>2 DEF Disconnect, Gone
<1>5. CASE u.address = u.uhaddr
  <2>1. t = Gone(EpFree([u EXCEPT !.timer = "none"], u.uhaddr))
    BY <1>4, <1>5
  <2>2. Core(t, FALSE, pc)
    BY <1>3, <1>5, <2>1, FreedStep
  <2> QED  BY <1>2, <1>3, <2>2 DEF IInv
<1>6. CASE u.address # u.uhaddr
  <2>1. t = Gone([u EXCEPT !.timer = "none"])
    BY <1>3, <1>4, <1>6 DEF EpFree, State
  <2>2. Core(t, FALSE, pc)
    BY <1>3, <1>6, <2>1, LeftStep
  <2> QED  BY <1>2, <1>3, <2>2 DEF IInv
<1> QED  BY <1>5, <1>6

----------------------------------------------------------------------------
(* uhd_setup_request() in the main loop *)

LEMMA QueuedIs ==
    ASSUME NEW s \in State, NEW r \in Requests, NEW t, t = [s EXCEPT !.queue = Append(@, r)]
    PROVE  /\ t \in State /\ t.queue = Append(s.queue, r) /\ t.timeout = s.timeout
           /\ t.phase = s.phase /\ t.nb_trans = s.nb_trans /\ t.failed = s.failed
           /\ SameUhc(t, s) /\ t.uhaddr = s.uhaddr /\ t.flags = s.flags /\ t.ie = s.ie
           /\ (t.pipes_error <=> s.pipes_error) /\ (t.enabled <=> s.enabled)
           /\ (t.fake <=> s.fake) /\ (t.misplaced <=> s.misplaced) /\ (Off(s) => Off(t))
           /\ Own(s) => Own(t)
<1>1. PICK q : q = Append(s.queue, r)
  OBVIOUS
<1>2. s.queue \in Seq(Requests)
  BY DEF State
<1>3. q \in Seq(Requests)
  BY <1>1, <1>2
<1>4. t = [s EXCEPT !.queue = q]
  BY <1>1
<1>5. t \in State
  BY <1>3, <1>4 DEF State
<1>6. /\ t.queue = q /\ t.timeout = s.timeout
      /\ t.phase = s.phase /\ t.nb_trans = s.nb_trans /\ t.failed = s.failed
      /\ SameUhc(t, s) /\ t.uhaddr = s.uhaddr /\ t.flags = s.flags /\ t.ie = s.ie
      /\ t.token = s.token /\ t.armedFor = s.armedFor /\ t.answerFor = s.answerFor
  BY <1>4 DEF State, SameUhc
<1>7. /\ (t.pipes_error <=> s.pipes_error) /\ (t.enabled <=> s.enabled)
      /\ (t.fake <=> s.fake) /\ (t.misplaced <=> s.misplaced) /\ (t.armed <=> s.armed)
      /\ (t.zlp_out_delayed <=> s.zlp_out_delayed)
  BY <1>4 DEF State
<1>8. (Off(s) => Off(t)) /\ (Own(s) => Own(t))
  BY <1>6, <1>7 DEF Off, Own
<1> QED  BY <1>1, <1>5, <1>6, <1>7, <1>8

LEMMA QueueStep ==
    ASSUME IInv, MainQueue
    PROVE  IInv'
<1>1. PICK u : u = usb
  OBVIOUS
<1>2. PICK t : t = usb'
  OBVIOUS
<1>3. /\ u \in State /\ Off(u) /\ Core(u, connected, pc) /\ connected \in BOOLEAN
      /\ connected' = connected /\ pc = "idle"
      /\ u.queue = <<>> => pc' = "setup"
      /\ u.queue # <<>> => pc' = "idle"
  BY <1>1 DEF IInv, Core, MainQueue, Main
<1>4. PICK r \in Requests : r.end = "main" /\ t = [u EXCEPT !.queue = Append(@, r)]
  <2>1. PICK kind \in MainKinds :
          t = [u EXCEPT !.queue = Append(@, [add |-> u.address, kind |-> kind, end |-> "main"])]
    BY <1>1, <1>2 DEF MainQueue
  <2>2. u.address \in {0, 1, NOT_VALID} /\ kind \in Kinds
    BY <1>3, ControlAssumption DEF State, ControlAssumption
  <2>3. [add |-> u.address, kind |-> kind, end |-> "main"] \in Requests
    BY <2>2 DEF Requests
  <2> QED  BY <2>1, <2>3
<1>5. /\ t \in State /\ t.queue = Append(u.queue, r) /\ t.timeout = u.timeout
      /\ t.phase = u.phase /\ t.nb_trans = u.nb_trans /\ t.failed = u.failed
      /\ SameUhc(t, u) /\ t.uhaddr = u.uhaddr /\ t.flags = u.flags /\ t.ie = u.ie
      /\ (t.pipes_error <=> u.pipes_error) /\ (t.enabled <=> u.enabled)
      /\ (t.fake <=> u.fake) /\ (t.misplaced <=> u.misplaced) /\ Off(t)
      /\ Own(u) => Own(t)
  BY <1>3, <1>4, QueuedIs
<1>6. ASSUME u.failed = {}
      PROVE  Sound(t, connected', pc')
  <2>1. Sound(u, connected, pc) /\ Working(u) /\ Bounded(u) /\ Delays(u) /\ pc \notin Starts
    BY <1>3, <1>6 DEF Core, Sound, Starts
  <2>2. u.queue \in Seq(Requests)
    BY <1>3 DEF State
  <2>3. /\ t.queue # <<>>
        /\ \A i \in DOMAIN t.queue :
              t.queue[i] = r \/ \E j \in DOMAIN u.queue : t.queue[i].end = u.queue[j].end
    <3>1. t.queue # <<>>
      BY <1>4, <1>5, <2>2, Put
    <3>2. \A i \in DOMAIN t.queue :
            t.queue[i] = r \/ \E j \in DOMAIN u.queue : t.queue[i].end = u.queue[j].end
      BY <1>4, <1>5, <2>2, Put
    <3> QED  BY <3>1, <3>2
  <2>4. HeadOnly(t.queue)
    <3>1. HeadOnly(u.queue) /\ r.end # "step10"
      BY <1>4, <2>1 DEF Delays, HeadOnly
    <3> QED  BY <1>5, <2>2, <3>1, Put
  <2>5. u.queue # <<>> => Head(t.queue) = Head(u.queue)
    BY <1>5, <2>2, Put
  <2>6. (Has(t, "step10") => Has(u, "step10")) /\ (Has(t, "step6") => Has(u, "step6"))
    BY <1>4, <2>3 DEF Has
  <2>7. Delays(t)
    BY <1>5, <2>1, <2>4, <2>6 DEF Delays, SameUhc, HeadOnly
  <2>8. Addressed(u) => Addressed(t)
    BY <1>5, <2>6 DEF Addressed, SameUhc
  <2>9. connected \/ t.flags \cap t.ie # {} => Addressed(t)
    BY <1>5, <2>1, <2>8 DEF Sound
  <2>10. CASE u.queue = <<>>
    <3>1. Waiting(t) /\ ~Has(t, "step10") /\ pc' = "setup"
      BY <1>3, <1>5, <2>1, <2>3, <2>6, <2>10 DEF Working, Waiting, Has
    <3>2. pc' \in Starts /\ pc' # "fill" /\ pc' # "timeout"
      BY <3>1 DEF Starts
    <3>3. connected' \/ t.flags \cap t.ie # {} => Addressed(t)
      BY <1>3, <2>9
    <3> QED  BY <2>7, <3>1, <3>2, <3>3, Zenon DEF Sound
  <2>11. CASE u.queue # <<>>
    <3>1. Working(t) /\ Bounded(t)
      BY <1>5, <2>1, <2>3, <2>5, <2>11 DEF Working, Bounded
    <3>2. pc' = "idle" /\ pc' \notin Starts
      BY <1>3, <2>11 DEF Starts
    <3>3. connected' \/ t.flags \cap t.ie # {} => Addressed(t)
      BY <1>3, <2>9
    <3> QED  BY <2>7, <3>1, <3>2, <3>3 DEF Sound
  <2> QED  BY <2>10, <2>11
<1>7. pc' \in Starts \cup {"idle", "enable"} /\ pc' # "timeout" /\ connected' \in BOOLEAN
  BY <1>3 DEF Starts
<1>8. t.failed = {} /\ ~t.misplaced => ~t.fake /\ (t.timeout > 0 => Own(t))
  BY <1>3, <1>5 DEF Core
<1>9. Core(t, connected', pc')
  BY <1>5, <1>6, <1>7, <1>8 DEF Core
<1> QED  BY <1>2, <1>9 DEF IInv

LEMMA CheckedIs ==
    ASSUME NEW s \in State, NEW t, t = [s EXCEPT !.phase = "SETUP", !.nb_trans = 0]
    PROVE  /\ Same(t, s) /\ SameQueue(t, s) /\ SameUhc(t, s) /\ (Off(s) => Off(t))
           /\ (t.enabled <=> s.enabled) /\ t.flags = s.flags /\ t.ie = s.ie
           /\ t.phase = "SETUP" /\ t.nb_trans = 0
<1>1. t \in State
  BY Zero DEF State, Phases
<1>2. /\ t.uhaddr = s.uhaddr /\ t.failed = s.failed /\ t.queue = s.queue
      /\ t.timeout = s.timeout /\ SameUhc(t, s) /\ t.nb_trans = 0
      /\ t.phase = "SETUP" /\ t.flags = s.flags /\ t.ie = s.ie
  BY DEF State, SameUhc
<1>3. /\ (t.fake <=> s.fake) /\ (t.misplaced <=> s.misplaced) /\ (t.enabled <=> s.enabled)
      /\ (t.armed <=> s.armed) /\ (t.pipes_error <=> s.pipes_error)
  BY DEF State
<1> QED  BY <1>1, <1>2, <1>3 DEF Same, SameQueue, Off

LEMMA CheckStep ==
    ASSUME IInv, MainCheck
    PROVE  IInv'
<1>1. PICK u : u = usb
  OBVIOUS
<1>2. PICK t : t = usb'
  OBVIOUS
<1>3. /\ u \in State /\ Off(u) /\ Core(u, connected, "setup") /\ connected \in BOOLEAN
      /\ connected' = connected /\ pc' \in {"fill", "refuse"}
      /\ t = [u EXCEPT !.phase = "SETUP", !.nb_trans = 0]
  BY <1>1, <1>2 DEF IInv, Core, MainCheck, Main
<1>4. /\ Same(t, u) /\ SameQueue(t, u) /\ SameUhc(t, u) /\ Off(t)
      /\ (t.enabled <=> u.enabled) /\ t.flags = u.flags /\ t.ie = u.ie
      /\ t.phase = "SETUP" /\ t.nb_trans = 0
  BY <1>3, CheckedIs, ZenonT(60)
<1>5. t \in State /\ t.uhaddr = u.uhaddr /\ t.queue = u.queue /\ t.failed = u.failed
  BY <1>4 DEF Same, SameQueue
<1>6. ASSUME u.failed = {}
      PROVE  Sound(t, connected, pc') /\ t.timeout = 0
  <2>1. Sound(u, connected, "setup")
    BY <1>3, <1>6 DEF Core
  <2>2. Waiting(u) /\ Delays(u) /\ ~Has(u, "step10")
    BY <2>1 DEF Sound, Starts
  <2>3. /\ Delays(u) => Delays(t)
        /\ Addressed(u) => Addressed(t)
        /\ Has(t, "step10") <=> Has(u, "step10")
    BY <1>4, <1>5, SameDelays
  <2>4. Waiting(t) /\ t.timeout = 0
    BY <1>4, <2>2 DEF Waiting, SameQueue
  <2>5. Bounded(t)
    <3>1. t.queue \in Seq(Requests)
      BY <1>5 DEF State
    <3>2. t.queue # <<>> => Head(t.queue).kind \in Kinds
      BY <3>1, Taking, InRequests
    <3> QED  BY <1>4, <3>2, Buffers DEF Bounded
  <2>6. connected \/ t.flags \cap t.ie # {} => Addressed(t)
    BY <1>4, <2>1, <2>3 DEF Sound
  <2> QED  BY <1>3, <1>4, <2>2, <2>3, <2>4, <2>5, <2>6 DEF Sound, Starts
<1>7. pc' \in Starts \cup {"idle", "enable"} /\ pc' # "timeout"
  BY <1>3 DEF Starts
<1>8. t.failed = {} /\ ~t.misplaced => ~t.fake /\ ~(t.timeout > 0)
  <2>1. t.failed = {} /\ ~t.misplaced => ~t.fake
    BY <1>3, <1>4 DEF Core, Same
  <2> QED  BY <1>5, <1>6, <2>1
<1>9. Core(t, connected, pc')
  BY <1>3, <1>4, <1>5, <1>6, <1>7, <1>8 DEF Core
<1> QED  BY <1>2, <1>3, <1>9 DEF IInv

LEMMA RefuseStep ==
    ASSUME IInv, MainRefuse
    PROVE  IInv'
<1>1. PICK u : u = usb
  OBVIOUS
<1>2. PICK t : t = usb'
  OBVIOUS
<1>3. /\ u \in State /\ Off(u) /\ Core(u, connected, "refuse") /\ connected \in BOOLEAN
      /\ connected' = connected
      /\ pc' = IF Len(u.queue) > 1 THEN "setup" ELSE "idle"
      /\ t = IF u.queue = <<>> THEN NoHead(u)
             ELSE Callback(Removed(u), Head(u.queue).end, "DISCONNECT", TRUE)
  BY <1>1, <1>2 DEF IInv, Core, MainRefuse, Main
<1>4. pc' \in Starts \cup {"idle", "enable"} /\ u.queue \in Seq(Requests)
  BY <1>3 DEF Starts, State
<1>5. CASE u.queue = <<>>
  <2>1. t = Failed(u, "NULL") /\ "NULL" \in Assertions
    BY <1>3, <1>5 DEF NoHead, Assertions
  <2>2. t \in State /\ Off(t) /\ t.failed # {}
    BY <1>3, <2>1, FailedIs
  <2>3. Core(t, connected, pc')
    BY <1>3, <1>4, <2>2, StuckStep
  <2> QED  BY <1>2, <1>3, <2>3 DEF IInv
<1>6. CASE u.queue # <<>>
  <2>1. PICK x : x = Removed(u)
    OBVIOUS
  <2>2. /\ Same(x, u) /\ SameUhc(x, u) /\ Off(x) /\ (x.enabled <=> u.enabled)
        /\ x.queue = Tail(u.queue) /\ x.timeout = 0 /\ ~x.pipes_error
    BY <1>3, <1>6, <2>1, RemovedIs
  <2>3. PICK end \in Ends : end = Head(u.queue).end
    <3>1. Head(u.queue) \in Requests
      BY <1>4, <1>6, Taking
    <3> QED  BY <3>1, InRequests DEF Ends, EnumSteps
  <2>4. PICK status \in Status : status = "DISCONNECT"
    BY DEF Status
  <2>5. PICK valid \in BOOLEAN : t = Callback(x, end, status, valid) /\ x \in State
    BY <1>3, <1>6, <2>1, <2>2, <2>3, <2>4 DEF Same
  <2>6. /\ Same(t, x) /\ Off(t) /\ Advanced(t, x, end, status)
        /\ t.timeout = x.timeout /\ (t.pipes_error <=> x.pipes_error)
        /\ t.queue = x.queue \/ (status = "NOERROR" /\ t.queue = Next13(x.queue))
    BY <2>2, <2>5, CallbackIs
  <2>7. SameUhc(t, x) /\ (t.enabled <=> x.enabled) /\ t.queue = x.queue
    BY <2>4, <2>6 DEF Advanced
  <2>8. /\ t \in State /\ t.queue = Tail(u.queue) /\ t.timeout = 0 /\ ~t.pipes_error
        /\ SameUhc(t, u) /\ t.uhaddr = u.uhaddr /\ t.failed = u.failed
    BY <2>2, <2>6, <2>7 DEF Same, SameUhc
  <2>9. /\ (t.enabled <=> u.enabled) /\ (t.fake <=> u.fake) /\ (t.misplaced <=> u.misplaced)
    BY <2>2, <2>6, <2>7 DEF Same
  <2>10. Within(Tail(u.queue), u.queue)
    BY <1>4, <1>6, Taking
  <2>11. /\ Len(u.queue) > 1 => t.queue # <<>>
         /\ ~(Len(u.queue) > 1) => t.queue = <<>>
    <3>1. PICK q \in Seq(Requests) : q = u.queue
      BY <1>4
    <3>2. PICK n \in Nat \ {0} : n = Len(q)
      BY <1>6, <3>1
    <3>3. Tail(q) = <<>> <=> n = 1
      BY <1>6, <3>1, <3>2, Taking
    <3>4. n > 1 <=> n # 1
      OBVIOUS
    <3>5. t.queue = Tail(q)
      BY <2>8, <3>1
    <3> QED  BY <3>1, <3>2, <3>3, <3>4, <3>5
  <2>12. (Has(t, "step10") => Has(u, "step10")) /\ (Has(t, "step6") => Has(u, "step6"))
    BY <2>8, <2>10 DEF Within, Has
  <2>13. ASSUME u.failed = {}
         PROVE  Sound(t, connected, pc')
    <3>1. Sound(u, connected, "refuse")
      BY <1>3, <2>13 DEF Core
    <3>2. ~Has(u, "step10") /\ Delays(u)
      BY <3>1 DEF Sound
    <3>3. ~Has(t, "step10")
      BY <2>12, <3>2
    <3>4. Delays(t) /\ Addressed(t)
      BY <2>8, <2>9, <2>12, <3>2, <3>3 DEF Delays, Addressed, SameUhc, Has
    <3>5. CASE t.queue = <<>>
      <4>1. pc' = "idle"
        BY <1>3, <2>11, <3>5
      <4>2. Working(t) /\ Bounded(t)
        BY <2>8, <3>5 DEF Working, Bounded
      <4> QED  BY <3>3, <3>4, <4>1, <4>2 DEF Sound, Starts
    <3>6. CASE t.queue # <<>>
      <4>1. pc' = "setup"
        BY <1>3, <2>11, <3>6
      <4>2. Waiting(t)
        BY <2>8, <3>6 DEF Waiting
      <4> QED  BY <3>3, <3>4, <4>1, <4>2 DEF Sound, Starts
    <3> QED  BY <3>5, <3>6
  <2>14. pc' # "timeout" /\ ~(t.timeout > 0)
    <3>1. pc' # "timeout"
      BY <1>3, Zenon
    <3> QED  BY <2>8, <3>1
  <2>15. t.failed = {} /\ ~t.misplaced => ~t.fake
    BY <1>3, <2>8, <2>9 DEF Core
  <2>16. Core(t, connected, pc')
    BY <1>3, <1>4, <2>6, <2>8, <2>13, <2>14, <2>15 DEF Core
  <2> QED  BY <1>2, <1>3, <2>16 DEF IInv
<1> QED  BY <1>5, <1>6

LEMMA FilledIs ==
    ASSUME NEW s \in State, Off(s), s.phase = "SETUP", NEW t, t = FillPipe(s)
    PROVE  /\ Same(t, s) /\ SameQueue(t, s) /\ SameUhc(t, s) /\ Off(t) /\ Own(t)
           /\ (t.enabled <=> s.enabled) /\ t.flags = s.flags \ {"setup"} /\ t.ie = s.ie
           /\ t.phase = "SETUP" /\ t.nb_trans = s.nb_trans
<1>1. PICK x : x = [s EXCEPT !.token = "SETUP", !.flags = s.flags \ {"setup"}]
  OBVIOUS
<1>2. x \in State
  BY <1>1 DEF State
<1>3. /\ x.uhaddr = s.uhaddr /\ x.failed = s.failed /\ x.queue = s.queue
      /\ x.timeout = s.timeout /\ SameUhc(x, s) /\ x.nb_trans = s.nb_trans /\ x.ie = s.ie
      /\ x.phase = "SETUP" /\ x.token = "SETUP" /\ x.flags = s.flags \ {"setup"}
  BY <1>1 DEF State, SameUhc
<1>4. /\ (x.fake <=> s.fake) /\ (x.misplaced <=> s.misplaced) /\ (x.enabled <=> s.enabled)
      /\ (x.armed <=> s.armed) /\ (x.pipes_error <=> s.pipes_error)
  BY <1>1 DEF State
<1>5. t = IF x.enabled THEN [x EXCEPT !.frozen = FALSE, !.armed = TRUE, !.armedFor = "SETUP"]
                       ELSE x
  BY <1>1, <1>3 DEF FillPipe, Unfreeze
<1>6. "setup" \notin s.flags \ {"setup"}
  OBVIOUS
<1>7. CASE ~x.enabled
  <2>1. t = x /\ ~x.armed
    BY <1>4, <1>5, <1>7 DEF Off
  <2>2. Own(x)
    BY <1>3, <1>6, <2>1 DEF Own, TokenOf, AnswerTo
  <2>3. Off(x)
    BY <1>3, <1>4 DEF Off
  <2> QED  BY <1>2, <1>3, <1>4, <2>1, <2>2, <2>3 DEF Same, SameQueue
<1>8. CASE x.enabled
  <2>1. t = [x EXCEPT !.frozen = FALSE, !.armed = TRUE, !.armedFor = "SETUP"]
    BY <1>5, <1>8
  <2>2. t \in State
    BY <1>2, <2>1, ZenonT(60) DEF State, Phases
  <2>3. /\ t.uhaddr = x.uhaddr /\ t.failed = x.failed /\ t.queue = x.queue
        /\ t.timeout = x.timeout /\ SameUhc(t, x) /\ t.nb_trans = x.nb_trans /\ t.ie = x.ie
        /\ t.phase = "SETUP" /\ t.token = "SETUP" /\ t.flags = x.flags /\ t.armedFor = "SETUP"
    BY <1>2, <1>3, <2>1 DEF State, SameUhc
  <2>4. /\ (t.fake <=> x.fake) /\ (t.misplaced <=> x.misplaced) /\ t.enabled
        /\ (t.pipes_error <=> x.pipes_error)
    BY <1>2, <1>8, <2>1 DEF State
  <2>5. Own(t)
    BY <1>3, <1>6, <2>3 DEF Own, TokenOf, AnswerTo
  <2> QED  BY <1>3, <1>4, <1>8, <2>2, <2>3, <2>4, <2>5 DEF Same, SameQueue, SameUhc, Off
<1> QED  BY <1>7, <1>8

LEMMA FillStep ==
    ASSUME IInv, MainFill
    PROVE  IInv'
<1>1. PICK u : u = usb
  OBVIOUS
<1>2. PICK t : t = usb'
  OBVIOUS
<1>3. /\ u \in State /\ Off(u) /\ Core(u, connected, "fill") /\ connected \in BOOLEAN
      /\ connected' = connected /\ pc' = "timeout" /\ t = FillPipe(u)
  BY <1>1, <1>2 DEF IInv, Core, MainFill, Main
<1>4. pc' \in Starts \cup {"idle", "enable"}
  BY <1>3 DEF Starts
<1>5. CASE u.failed # {}
  <2>1. t \in State /\ Off(t) /\ t.failed # {}
    <3>1. PICK x : x = [u EXCEPT !.token = "SETUP", !.flags = u.flags \ {"setup"}]
      OBVIOUS
    <3>2. x \in State /\ x.failed = u.failed /\ x.ie = u.ie /\ x.flags = u.flags \ {"setup"}
      BY <1>3, <3>1 DEF State
    <3>3. (x.enabled <=> u.enabled) /\ (x.armed <=> u.armed)
      BY <1>3, <3>1 DEF State
    <3>4. t = IF x.enabled THEN [x EXCEPT !.frozen = FALSE, !.armed = TRUE, !.armedFor = x.phase]
                           ELSE x
      BY <1>3, <3>1 DEF FillPipe, Unfreeze
    <3>5. CASE x.enabled
      <4>1. t = [x EXCEPT !.frozen = FALSE, !.armed = TRUE, !.armedFor = x.phase]
        BY <3>4, <3>5
      <4>2. t \in State /\ t.failed = x.failed
        BY <3>2, <4>1 DEF State
      <4>3. t.enabled
        BY <3>2, <3>5, <4>1 DEF State
      <4> QED  BY <1>5, <3>2, <4>2, <4>3 DEF Off
    <3>6. CASE ~x.enabled
      BY <1>3, <1>5, <3>2, <3>3, <3>4, <3>6 DEF Off
    <3> QED  BY <3>5, <3>6
  <2>2. Core(t, connected, pc')
    BY <1>3, <1>4, <2>1, StuckStep
  <2> QED  BY <1>2, <1>3, <2>2 DEF IInv
<1>6. CASE u.failed = {}
  <2>1. Sound(u, connected, "fill") /\ (~u.misplaced => ~u.fake)
    BY <1>3, <1>6 DEF Core
  <2>2. u.phase = "SETUP" /\ Waiting(u) /\ Delays(u) /\ Bounded(u) /\ ~Has(u, "step10")
    BY <2>1 DEF Sound, Starts
  <2>3. /\ Same(t, u) /\ SameQueue(t, u) /\ SameUhc(t, u) /\ Off(t) /\ Own(t)
        /\ (t.enabled <=> u.enabled)
        /\ t.phase = "SETUP" /\ t.nb_trans = u.nb_trans
    BY <1>3, <2>2, FilledIs
  <2>4. /\ Delays(u) => Delays(t)
        /\ Has(t, "step10") <=> Has(u, "step10")
    BY <2>3, SameDelays DEF Same, SameQueue
  <2>5. Waiting(t) /\ Bounded(t)
    BY <2>2, <2>3 DEF Waiting, Bounded, SameQueue
  <2>6. Addressed(t)
    BY <2>2, <2>4 DEF Addressed
  <2>7. Sound(t, connected, pc')
    BY <1>3, <2>2, <2>3, <2>4, <2>5, <2>6 DEF Sound, Starts
  <2>8. t \in State /\ (~t.misplaced => ~t.fake)
    BY <2>1, <2>3 DEF Same
  <2>9. Core(t, connected, pc')
    BY <1>3, <1>4, <2>3, <2>7, <2>8 DEF Core
  <2> QED  BY <1>2, <1>3, <2>9 DEF IInv
<1> QED  BY <1>5, <1>6

LEMMA TimeoutStep ==
    ASSUME IInv, MainTimeout
    PROVE  IInv'
<1>1. PICK u : u = usb
  OBVIOUS
<1>2. PICK t : t = usb'
  OBVIOUS
<1>3. /\ u \in State /\ Off(u) /\ Core(u, connected, "timeout") /\ connected \in BOOLEAN
      /\ connected' = connected /\ pc' = "enable" /\ t = [u EXCEPT !.timeout = CTRL_TIMEOUT]
  BY <1>1, <1>2 DEF IInv, Core, MainTimeout, Main, SetTimeout
<1>4. t \in State
  BY <1>3, Zero DEF State
<1>5. /\ t.uhaddr = u.uhaddr /\ t.failed = u.failed /\ t.queue = u.queue
      /\ t.timeout = CTRL_TIMEOUT /\ SameUhc(t, u) /\ t.nb_trans = u.nb_trans
      /\ t.phase = u.phase /\ t.token = u.token /\ t.flags = u.flags /\ t.ie = u.ie
      /\ t.armedFor = u.armedFor /\ t.answerFor = u.answerFor
  BY <1>3 DEF State, SameUhc
<1>6. /\ (t.fake <=> u.fake) /\ (t.misplaced <=> u.misplaced) /\ (t.enabled <=> u.enabled)
      /\ (t.armed <=> u.armed) /\ (t.zlp_out_delayed <=> u.zlp_out_delayed)
  BY <1>3 DEF State
<1>7. Off(t) /\ (Own(u) => Own(t))
  BY <1>3, <1>5, <1>6 DEF Off, Own
<1>8. ASSUME u.failed = {}
      PROVE  Sound(t, connected, "enable")
  <2>1. Sound(u, connected, "timeout")
    BY <1>3, <1>8 DEF Core
  <2>2. Waiting(u) /\ Delays(u) /\ Bounded(u) /\ ~Has(u, "step10")
    BY <2>1 DEF Sound, Starts
  <2>3. /\ Delays(u) => Delays(t)
        /\ Has(t, "step10") <=> Has(u, "step10")
    BY <1>5, <1>6, SameDelays
  <2>4. Working(t) /\ Bounded(t)
    BY <1>5, <2>2, Zero DEF Waiting, Working, Bounded
  <2>5. Addressed(t)
    BY <2>2, <2>3 DEF Addressed
  <2> QED  BY <2>2, <2>3, <2>4, <2>5 DEF Sound, Starts
<1>9. t.failed = {} /\ ~t.misplaced => ~t.fake /\ Own(t)
  BY <1>3, <1>5, <1>6, <1>7 DEF Core
<1>10. Core(t, connected, "enable")
  BY <1>3, <1>4, <1>5, <1>7, <1>8, <1>9 DEF Core
<1> QED  BY <1>2, <1>3, <1>10 DEF IInv

LEMMA EnableStep ==
    ASSUME IInv, MainEnable
    PROVE  IInv'
<1>1. PICK u : u = usb
  OBVIOUS
<1>2. PICK t : t = usb'
  OBVIOUS
<1>3. /\ u \in State /\ Off(u) /\ Core(u, connected, "enable") /\ connected \in BOOLEAN
      /\ connected' = connected /\ pc' = "idle"
  BY <1>1, <1>2 DEF IInv, Core, MainEnable, Main
<1>4. PICK ie \in SUBSET Events : /\ ie = IF u.enabled THEN u.ie \cup {"setup"} ELSE u.ie
                                  /\ t = [u EXCEPT !.ie = ie]
  <2>1. u.ie \cup {"setup"} \in SUBSET Events /\ u.ie \in SUBSET Events
    BY <1>3 DEF State, Events, Answers
  <2> QED  BY <1>1, <1>2, <1>3, <2>1 DEF MainEnable, EnableSetup, State
<1>5. t \in State
  BY <1>3, <1>4 DEF State
<1>6. /\ t.uhaddr = u.uhaddr /\ t.failed = u.failed /\ t.queue = u.queue
      /\ t.timeout = u.timeout /\ SameUhc(t, u) /\ t.nb_trans = u.nb_trans
      /\ t.phase = u.phase /\ t.token = u.token /\ t.flags = u.flags /\ t.ie = ie
      /\ t.armedFor = u.armedFor /\ t.answerFor = u.answerFor
  BY <1>3, <1>4 DEF State, SameUhc
<1>7. /\ (t.fake <=> u.fake) /\ (t.misplaced <=> u.misplaced) /\ (t.enabled <=> u.enabled)
      /\ (t.armed <=> u.armed) /\ (t.zlp_out_delayed <=> u.zlp_out_delayed)
      /\ (t.pipes_error <=> u.pipes_error)
  BY <1>3, <1>4 DEF State
<1>8. Off(t) /\ (Own(u) => Own(t))
  <2>1. Off(t)
    BY <1>3, <1>4, <1>6, <1>7 DEF Off
  <2>2. Own(u) => Own(t)
    BY <1>6, <1>7 DEF Own
  <2> QED  BY <2>1, <2>2
<1>9. ASSUME u.failed = {}
      PROVE  Sound(t, connected, "idle")
  <2>1. Sound(u, connected, "enable")
    BY <1>3, <1>9 DEF Core
  <2>2. Working(u) /\ Delays(u) /\ Bounded(u) /\ ~Has(u, "step10")
    BY <2>1 DEF Sound, Starts
  <2>3. /\ Delays(u) => Delays(t)
        /\ Has(t, "step10") <=> Has(u, "step10")
    BY <1>6, <1>7, SameDelays
  <2>4. Working(t) /\ Bounded(t)
    BY <1>6, <1>7, <2>2 DEF Working, Bounded
  <2>5. Addressed(t)
    BY <2>2, <2>3 DEF Addressed
  <2> QED  BY <2>2, <2>3, <2>4, <2>5 DEF Sound, Starts
<1>10. t.failed = {} /\ ~t.misplaced => ~t.fake /\ (t.timeout > 0 => Own(t))
  BY <1>3, <1>6, <1>7, <1>8 DEF Core
<1>11. Core(t, connected, "idle")
  BY <1>3, <1>5, <1>6, <1>8, <1>9, <1>10 DEF Core
<1> QED  BY <1>2, <1>3, <1>11 DEF IInv

LEMMA NextStep == IInv /\ [Next]_vars => IInv'
<1> SUFFICES ASSUME IInv, [Next]_vars PROVE IInv'
  OBVIOUS
<1>1. CASE DeviceAnswers
  BY <1>1, AnswersStep
<1>2. CASE PipeInterrupt
  BY <1>2, InterruptStep
<1>3. CASE Sof
  BY <1>3, SofStep
<1>4. CASE Connect
  BY <1>4, ConnectStep
<1>5. CASE Disconnect
  BY <1>5, DisconnectStep
<1>6. CASE MainQueue
  BY <1>6, QueueStep
<1>7. CASE MainStep
  BY <1>7, CheckStep, RefuseStep, FillStep, TimeoutStep, EnableStep DEF MainStep
<1>8. CASE UNCHANGED vars
  BY <1>8 DEF vars, IInv
<1> QED  BY <1>1, <1>2, <1>3, <1>4, <1>5, <1>6, <1>7, <1>8 DEF Next

LEMMA Inductive == Spec => []IInv
BY InitStep, NextStep, PTL DEF Spec

----------------------------------------------------------------------------
(* The variables of the control endpoint have their types, and its counters their
   ranges, after any interrupts, connections and requests. *)
THEOREM TypeCorrect == Spec => []TypeOK
<1>1. IInv => TypeOK
  <2> SUFFICES ASSUME IInv PROVE TypeOK
    OBVIOUS
  <2>1. PICK u : u = usb
    OBVIOUS
  <2>2. /\ u \in State /\ connected \in BOOLEAN /\ pc \in Starts \cup {"idle", "enable"}
    BY <2>1 DEF IInv, Core
  <2>3. \A i \in DOMAIN u.queue : u.queue[i] \in Requests
    <3>1. u.queue \in Seq(Requests)
      BY <2>2 DEF State
    <3> QED  BY <3>1
  <2>4. /\ u.phase \in Phases /\ u.timeout \in 0 .. CTRL_TIMEOUT /\ u.nb_trans \in Nat
        /\ u.uhaddr \in {0, 1} /\ u.size \in {EnumPipeSize, PipeSize}
        /\ u.token \in {"SETUP", "IN", "OUT"}
        /\ u.ie \subseteq Events /\ u.flags \subseteq Events
        /\ u.timer \in {"none", "step5", "step9", "step11"}
        /\ u.address \in {0, 1, NOT_VALID} /\ u.enum_try \in 0 .. ENUM_NB_TRY + 1
    BY <2>2 DEF State
  <2>5. /\ u.zlp_out_delayed \in BOOLEAN /\ u.pipes_error \in BOOLEAN /\ u.enabled \in BOOLEAN
        /\ u.frozen \in BOOLEAN /\ u.armed \in BOOLEAN /\ u.installed \in BOOLEAN
        /\ u.fake \in BOOLEAN /\ u.misplaced \in BOOLEAN
    BY <2>2 DEF State
  <2>6. {u.zlp_out_delayed, u.pipes_error, u.enabled, u.frozen, u.armed,
         u.installed, u.fake, u.misplaced, connected} \subseteq BOOLEAN
    BY <2>2, <2>5, Zenon
  <2>7. pc \in {"idle", "setup", "refuse", "fill", "timeout", "enable"}
    BY <2>2 DEF Starts
  <2> QED  BY <2>1, <2>3, <2>4, <2>6, <2>7 DEF TypeOK
<1> QED  BY <1>1, Inductive, PTL

(* While no assertion of the driver has failed, a request in the queue has its timeout
   running or is about to be started by the main loop: it is never left behind. *)
THEOREM NothingForgotten == Spec => []NoneForgotten
<1>1. IInv => NoneForgotten
  <2>1. \A u : Working(u) => u.queue = <<>> \/ u.timeout > 0
    BY DEF Working
  <2> QED  BY <2>1 DEF IInv, Core, Sound, NoneForgotten, Sane, Starts
<1> QED  BY <1>1, Inductive, PTL

(* The data phases of a request never move more than its buffer holds, whatever sizes
   the device's packets have. *)
THEOREM BuffersHold == Spec => []WithinBuffer
<1>1. IInv => WithinBuffer
  BY DEF IInv, Core, Sound, Bounded, WithinBuffer, Sane
<1> QED  BY <1>1, Inductive, PTL

(* No request takes an answer for its own that the device gave to another transaction,
   until a ZLP of an earlier request is started in its place. *)
THEOREM AnswersBelong == Spec => []AnswersAreOwn
<1>1. IInv => AnswersAreOwn
  BY DEF IInv, Core, AnswersAreOwn, Sane
<1> QED  BY <1>1, Inductive, PTL
=============================================================================
