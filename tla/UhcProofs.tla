----------------------------- MODULE UhcProofs -----------------------------
(***************************************************************************)
(* The safety of the enumeration, for any number of tries, connections and *)
(* calls, and whatever is met on the way.                                  *)
(*                                                                         *)
(* The enumeration is in one of a few phases, told apart by who has the    *)
(* next step: a reset of the bus, a delay or one request of the queue, the *)
(* only one there with a step to call back.  The others in the queue are   *)
(* those without a callback.  One request can outlive its device: that of  *)
(* step9, when the device has its address and pipe 0 has not.              *)
(***************************************************************************)
EXTENDS UhcProps, WellFoundedInduction, TLAPS

State ==
    [enum_try : 0 .. UHC_ENUM_NB_TRY, address : {0, DEVICE_ADD, NOT_VALID},
     conf_desc : {"NULL", "held", "freed"},
     timer : {"none", "step3", "step5", "step7", "step9", "step11"},
     reset : {"none", "step2", "step4", "step8"},
     queue : Seq(Requests), enabled : BOOLEAN, uhaddr : {0, DEVICE_ADD}, endpoints : BOOLEAN,
     sof : BOOLEAN, suspend : BOOLEAN, resume : BOOLEAN, requested : BOOLEAN,
     dev : BOOLEAN, main_b_usb_dev : BOOLEAN, status : EnumStatus,
     done : BOOLEAN, attempts : Nat, heap : SUBSET {"leak", "freed twice", "read"}]

(* What starting and ending requests leave alone, unless a step is called back *)
Same(t, s) ==
    /\ t \in State
    /\ t.address = s.address /\ t.conf_desc = s.conf_desc /\ t.timer = s.timer
    /\ t.reset = s.reset /\ t.uhaddr = s.uhaddr /\ t.status = s.status
    /\ t.attempts = s.attempts /\ t.heap = s.heap
SameDevice(t, s) ==
    /\ Same(t, s)
    /\ (t.enabled <=> s.enabled) /\ (t.endpoints <=> s.endpoints)
    /\ t.enum_try = s.enum_try /\ (t.dev <=> s.dev) /\ (t.main_b_usb_dev <=> s.main_b_usb_dev)

Tried(t, s) == t.enum_try = 0 \/ t.enum_try = s.enum_try

(* No request of q has a step to call back; or just one of them has. *)
Null(q) == \A i \in DOMAIN q : q[i].end = "NULL"
One(q, add, end) ==
    \E i \in DOMAIN q :
        /\ q[i] = [add |-> add, end |-> end]
        /\ \A j \in DOMAIN q \ {i} : q[j].end = "NULL"

Calm(s) == s.timer = "none" /\ s.reset = "none"

(* The request of step9 that is left when its device has gone *)
Stale(s) == One(s.queue, 0, "step10") /\ s.uhaddr = 0

Gone(s) ==
    /\ s.address = NOT_VALID /\ Calm(s) /\ s.conf_desc # "held" /\ ~s.dev /\ ~s.endpoints
    /\ s.status # "SUCCESS"
    /\ Null(s.queue) \/ Stale(s)

(* What the phases of an enumeration have in common *)
Enumerating(s) ==
    /\ s.status # "SUCCESS" /\ s.conf_desc # "freed" /\ s.attempts <= s.enum_try + 1

(* step1 to step4: nothing is known of pipe 0. *)
Starting(s) ==
    /\ Enumerating(s) /\ s.address = 0 /\ s.conf_desc = "NULL"
    /\ s.reset \in {"step2", "step4"} \/ (s.reset = "none" /\ s.timer \in {"step3", "step5"})
    /\ s.reset = "none" => ~s.enabled
    /\ Null(s.queue) \/ (Stale(s) /\ s.attempts = 1)

(* step5 to step8: the device and pipe 0 have address 0. *)
Low(s) ==
    /\ Enumerating(s) /\ s.address = 0 /\ s.uhaddr = 0 /\ s.conf_desc = "NULL"
    /\ \/ Calm(s) /\ s.enabled /\ One(s.queue, 0, "step6")
       \/ s.reset = "none" /\ s.timer \in {"step7", "step9"} /\ Null(s.queue)
       \/ s.reset = "step8" /\ Null(s.queue)

(* step9 and step10: the device gets its address. *)
High(s) ==
    /\ Enumerating(s) /\ s.address = DEVICE_ADD /\ s.uhaddr = 0 /\ s.conf_desc = "NULL"
    /\ s.reset = "none"
    /\ \/ s.timer = "none" /\ s.enabled /\ One(s.queue, 0, "step10")
       \/ s.timer = "step11" /\ Null(s.queue)

(* step11 to step14: the descriptors are read, and the configuration is set. *)
Configuring(s) ==
    /\ Enumerating(s) /\ s.address = DEVICE_ADD /\ s.uhaddr = DEVICE_ADD
    /\ Calm(s) /\ s.enabled
    /\ \/ One(s.queue, DEVICE_ADD, "step12") /\ s.conf_desc = "NULL"
       \/ One(s.queue, DEVICE_ADD, "step13") /\ s.conf_desc = "held"
       \/ One(s.queue, DEVICE_ADD, "step14") /\ s.conf_desc = "held"
       \/ One(s.queue, DEVICE_ADD, "step15") /\ s.conf_desc = "held" /\ s.dev /\ s.endpoints

Ready(s) ==
    /\ s.status = "SUCCESS" /\ s.address = DEVICE_ADD /\ s.conf_desc = "held"
    /\ s.enabled /\ s.uhaddr = DEVICE_ADD
    /\ s.dev /\ s.main_b_usb_dev /\ s.endpoints
    /\ s.enum_try = 0 /\ Calm(s) /\ Null(s.queue)

Failed(s) ==
    /\ s.status # "SUCCESS" /\ s.conf_desc # "freed" /\ s.address # NOT_VALID
    /\ Calm(s) /\ Null(s.queue)

InPhase(s) ==
    Starting(s) \/ Low(s) \/ High(s) \/ Configuring(s) \/ Ready(s) \/ Failed(s)
Phase(s) == IF connected THEN InPhase(s) ELSE Gone(s)

(* Pipe 0 of a device that has lost its address is free; what else always holds. *)
Held(s) ==
    /\ s \in State
    /\ s.main_b_usb_dev => s.dev
    /\ s.endpoints => s.address = DEVICE_ADD
    /\ {"leak", "freed twice"} \cap s.heap = {}
    /\ s.attempts <= UHC_ENUM_NB_TRY + 1
    /\ s.uhaddr = DEVICE_ADD /\ s.address # DEVICE_ADD => ~s.enabled
Sound(s) ==
    /\ Held(s)
    /\ s.uhaddr = DEVICE_ADD /\ s.address # DEVICE_ADD => s.queue = <<>>

IInv ==
    /\ connected \in BOOLEAN /\ pc \in {"idle", "suspend", "delay", "freeze"}
    /\ Sound(u) /\ Phase(u)

----------------------------------------------------------------------------
(* The queue *)

LEMMA Constants == DEVICE_ADD = 1 /\ NOT_VALID = 255 /\ UHC_ENUM_NB_TRY \in Nat \ {0}
BY UhcAssumption DEF DEVICE_ADD, NOT_VALID, UhcAssumption

LEMMA Zero == 0 \in 0 .. UHC_ENUM_NB_TRY /\ <<>> \in Seq(Requests)
BY UhcAssumption DEF UhcAssumption

(* A set of natural numbers has a least one. *)
LEMMA Least ==
    ASSUME NEW T \in SUBSET Nat, T # {}
    PROVE  \E n \in T : \A m \in T : n <= m
<1> DEFINE R == OpToRel(<, Nat)
<1>1. IsWellFoundedOn(R, Nat)
  BY NatLessThanWellFounded
<1>2. PICK n \in T : \A m \in T : ~(<<m, n>> \in R)
  <2> HIDE DEF R
  <2> QED  BY <1>1, WFMin
<1>3. \A m \in T : <<m, n>> \in R <=> m < n
  BY DEF OpToRel
<1> HIDE DEF R
<1>4. \A m \in T : ~(m < n)
  BY <1>2, <1>3, Zenon
<1> QED  BY <1>4

(* What is left of a queue, and what is put into it *)
LEMMA Rest ==
    ASSUME NEW q \in Seq(Requests), NEW n \in 0 .. Len(q)
    PROVE  /\ SubSeq(q, n + 1, Len(q)) \in Seq(Requests)
           /\ DOMAIN SubSeq(q, n + 1, Len(q)) = 1 .. Len(q) - n
           /\ \A i \in 1 .. Len(q) - n : SubSeq(q, n + 1, Len(q))[i] = q[n + i]
           /\ Null(q) => Null(SubSeq(q, n + 1, Len(q)))
           /\ \A add, end :
                One(q, add, end) /\ end # "NULL"
                /\ (\A i \in 1 .. n : q[i] # [add |-> add, end |-> end]) =>
                  One(SubSeq(q, n + 1, Len(q)), add, end)
<1> DEFINE r == SubSeq(q, n + 1, Len(q))
<1>1. r \in Seq(Requests) /\ DOMAIN r = 1 .. Len(q) - n /\ \A i \in 1 .. Len(q) - n : r[i] = q[n + i]
  OBVIOUS
<1> HIDE DEF r
<1>2. \A i \in DOMAIN r : n + i \in DOMAIN q /\ r[i] = q[n + i]
  BY <1>1
<1>3. Null(q) => Null(r)
  BY <1>2 DEF Null
<1>4. ASSUME NEW add, NEW end, One(q, add, end), end # "NULL",
             \A i \in 1 .. n : q[i] # [add |-> add, end |-> end]
      PROVE  One(r, add, end)
  <2>1. PICK i \in DOMAIN q : /\ q[i] = [add |-> add, end |-> end]
                              /\ \A j \in DOMAIN q \ {i} : q[j].end = "NULL"
    BY <1>4 DEF One
  <2>2. i \in 1 .. Len(q) /\ ~(i \in 1 .. n)
    BY <1>4, <2>1
  <2>3. i - n \in DOMAIN r /\ r[i - n] = q[i]
    BY <1>1, <2>2
  <2>4. ASSUME NEW j \in DOMAIN r \ {i - n}
        PROVE  r[j].end = "NULL"
    <3>1. n + j \in DOMAIN q \ {i}
      BY <1>1, <2>2, <2>4
    <3> QED  BY <1>2, <2>1, <2>4, <3>1
  <2> QED  BY <2>1, <2>3, <2>4 DEF One
<1> QED  BY <1>1, <1>3, <1>4 DEF r

LEMMA Put ==
    ASSUME NEW q \in Seq(Requests), NEW a \in {0, DEVICE_ADD}, NEW e \in EndSteps \cup {"NULL"}
    PROVE  LET r == Append(q, [add |-> a, end |-> e]) IN
           /\ r \in Seq(Requests) /\ r # <<>>
           /\ Null(q) /\ e = "NULL" => Null(r)
           /\ Null(q) /\ e # "NULL" => One(r, a, e)
           /\ \A add, end : One(q, add, end) /\ e = "NULL" => One(r, add, end)
<1> DEFINE x == [add |-> a, end |-> e]
           r == Append(q, x)
<1>1. x \in Requests /\ x.end = e
  BY DEF Requests
<1> HIDE DEF x
<1>2. /\ r \in Seq(Requests) /\ DOMAIN r = 1 .. Len(q) + 1 /\ r # <<>>
      /\ r[Len(q) + 1] = x /\ \A i \in 1 .. Len(q) : r[i] = q[i]
  BY <1>1
<1> HIDE DEF r
<1>3. DOMAIN q = 1 .. Len(q) /\ Len(q) \in Nat
  OBVIOUS
<1>4. DOMAIN r = DOMAIN q \cup {Len(q) + 1}
  BY <1>2, <1>3
<1>5. Null(q) /\ e = "NULL" => Null(r)
  BY <1>1, <1>2, <1>3, <1>4 DEF Null
<1>6. ASSUME Null(q), e # "NULL"
      PROVE  One(r, a, e)
  <2>1. \A j \in DOMAIN r \ {Len(q) + 1} : r[j].end = "NULL"
    BY <1>2, <1>3, <1>4, <1>6 DEF Null
  <2> QED  BY <1>2, <1>4, <2>1 DEF One, x
<1>7. ASSUME NEW add, NEW end, One(q, add, end), e = "NULL"
      PROVE  One(r, add, end)
  <2>1. PICK i \in DOMAIN q : /\ q[i] = [add |-> add, end |-> end]
                              /\ \A j \in DOMAIN q \ {i} : q[j].end = "NULL"
    BY <1>7 DEF One
  <2>2. \A j \in DOMAIN r \ {i} : r[j].end = "NULL"
    BY <1>1, <1>2, <1>3, <1>4, <1>7, <2>1
  <2> QED  BY <1>2, <1>3, <1>4, <2>1, <2>2 DEF One
<1> QED  BY <1>2, <1>5, <1>6, <1>7 DEF r, x

(* The head is called back: it is the one with a step, or leaves that one. *)
LEMMA Taken ==
    ASSUME NEW q \in Seq(Requests), q # <<>>
    PROVE  /\ Tail(q) \in Seq(Requests) /\ Head(q) \in Requests
           /\ Null(q) => Head(q).end = "NULL" /\ Null(Tail(q))
           /\ \A add, end : One(q, add, end) /\ Head(q).end # "NULL" =>
                Head(q) = [add |-> add, end |-> end] /\ Null(Tail(q))
           /\ \A add, end : One(q, add, end) /\ end # "NULL" /\ Head(q).end = "NULL" =>
                One(Tail(q), add, end)
<1>1. /\ Len(q) \in Nat \ {0} /\ DOMAIN q = 1 .. Len(q) /\ Head(q) = q[1]
      /\ Tail(q) = SubSeq(q, 2, Len(q)) /\ Tail(q) \in Seq(Requests)
      /\ DOMAIN Tail(q) = 1 .. Len(q) - 1
      /\ \A i \in 1 .. Len(q) - 1 : Tail(q)[i] = q[i + 1]
  OBVIOUS
<1>2. 1 \in DOMAIN q /\ 1 \in 0 .. Len(q) /\ Head(q) \in Requests
  BY <1>1
<1>3. Null(q) => Head(q).end = "NULL" /\ Null(Tail(q))
  BY <1>1, <1>2, Rest DEF Null
<1>4. ASSUME NEW add, NEW end, One(q, add, end), Head(q).end # "NULL"
      PROVE  Head(q) = [add |-> add, end |-> end] /\ Null(Tail(q))
  <2>1. q[1] = [add |-> add, end |-> end] /\ \A j \in DOMAIN q \ {1} : q[j].end = "NULL"
    BY <1>1, <1>2, <1>4 DEF One
  <2>2. \A i \in 1 .. Len(q) - 1 : i + 1 \in DOMAIN q \ {1}
    BY <1>1
  <2> QED  BY <1>1, <2>1, <2>2 DEF Null
<1>5. ASSUME NEW add, NEW end, One(q, add, end), end # "NULL", Head(q).end = "NULL"
      PROVE  One(Tail(q), add, end)
  <2>1. \A i \in 1 .. 1 : q[i] # [add |-> add, end |-> end]
    BY <1>1, <1>5
  <2>2. SubSeq(q, 1 + 1, Len(q)) = Tail(q)
    BY <1>1
  <2> QED  BY <1>2, <1>5, <2>1, <2>2, Rest
<1> QED  BY <1>1, <1>2, <1>3, <1>4, <1>5

----------------------------------------------------------------------------
(* Requests that pipe 0 cannot take are called back. *)

LEMMA StartedIs ==
    ASSUME NEW s \in State
    PROVE  \E n \in 0 .. Len(s.queue) :
             /\ \A i \in 1 .. n : ~Accepts(s, s.queue[i])
             /\ n < Len(s.queue) => Accepts(s, s.queue[n + 1])
             /\ Started(s) = Aborted([s EXCEPT !.queue = SubSeq(@, n + 1, Len(@))],
                                     {s.queue[i].end : i \in 1 .. n})
<1>1. s.queue \in Seq(Requests) /\ Len(s.queue) \in Nat
  <2>1. s.queue \in Seq(Requests)
    BY DEF State
  <2> QED  BY <2>1
<1> DEFINE Up(n) == /\ \A i \in 1 .. n : ~Accepts(s, s.queue[i])
                    /\ n < Len(s.queue) => Accepts(s, s.queue[n + 1])
           T == {n \in 0 .. Len(s.queue) : n < Len(s.queue) => Accepts(s, s.queue[n + 1])}
<1>2. PICK n \in T : \A m \in T : n <= m
  <2>1. T \in SUBSET Nat /\ Len(s.queue) \in T
    BY <1>1
  <2> HIDE DEF T
  <2> QED  BY <2>1, Least
<1>3. Up(n)
  <2>1. \A i \in 1 .. n : i - 1 \in 0 .. Len(s.queue) /\ i - 1 < n /\ i - 1 < Len(s.queue)
                          /\ (i - 1) + 1 = i
    BY <1>1
  <2>2. \A i \in 1 .. n : ~(i - 1 \in T)
    BY <1>1, <1>2, <2>1
  <2> QED  BY <2>1, <2>2
<1>4. n \in 0 .. Len(s.queue)
  OBVIOUS
<1> DEFINE k == CHOOSE k \in 0 .. Len(s.queue) : Up(k)
<1>5. k \in 0 .. Len(s.queue) /\ Up(k)
  <2> HIDE DEF Up
  <2> QED  BY <1>3, <1>4
<1>6. Started(s) = Aborted([s EXCEPT !.queue = SubSeq(@, k + 1, Len(@))],
                           {s.queue[i].end : i \in 1 .. k})
  BY DEF Started
<1> HIDE DEF k
<1> QED  BY <1>5, <1>6

(* t is s with its requests called back: what an aborted step changes. *)
Drained(t, s) ==
    /\ Same(t, s) /\ t.queue = <<>>
    /\ Tried(t, s) /\ (Null(s.queue) => t.enum_try = s.enum_try)
    /\ \/ (t.dev <=> s.dev) /\ (t.main_b_usb_dev <=> s.main_b_usb_dev)
       \/ /\ ~t.dev /\ ~t.main_b_usb_dev
          /\ \E i \in DOMAIN s.queue : s.queue[i].end = "step15"

LEMMA AbortedNull ==
    ASSUME NEW s \in State, NEW ends, ends \subseteq {"NULL"}
    PROVE  Aborted(s, ends) = s
<1>1. ends \cap EndSteps = {} /\ "step15" \notin ends
  BY DEF EndSteps
<1> QED  BY <1>1 DEF Aborted, State

LEMMA AbortedIs ==
    ASSUME NEW s \in State, NEW ends, NEW a, a = Aborted(s, ends)
    PROVE  /\ Same(a, s) /\ a.queue = s.queue /\ (a.enabled <=> s.enabled)
           /\ (a.endpoints <=> s.endpoints) /\ Tried(a, s)
           /\ ends \subseteq {"NULL"} => a = s
           /\ \/ (a.dev <=> s.dev) /\ (a.main_b_usb_dev <=> s.main_b_usb_dev)
              \/ ~a.dev /\ ~a.main_b_usb_dev /\ "step15" \in ends
<1>1. ends \subseteq {"NULL"} => a = s
  BY AbortedNull
<1>2. CASE a = s
  BY <1>1, <1>2 DEF Same, Tried
<1>3. CASE a = [s EXCEPT !.enum_try = 0]
  <2>1. a \in State /\ a.enum_try = 0 /\ (a.dev <=> s.dev) /\ (a.main_b_usb_dev <=> s.main_b_usb_dev)
    BY <1>3, Zero DEF State
  <2>2. a.queue = s.queue /\ (a.enabled <=> s.enabled) /\ (a.endpoints <=> s.endpoints)
    BY <1>3 DEF State
  <2> QED  BY <1>1, <1>3, <2>1, <2>2 DEF Same, Tried, State
<1>4. CASE /\ a = [s EXCEPT !.dev = FALSE, !.main_b_usb_dev = FALSE, !.enum_try = 0]
           /\ "step15" \in ends
  <2>1. a \in State /\ a.enum_try = 0 /\ ~a.dev /\ ~a.main_b_usb_dev
    BY <1>4, Zero DEF State
  <2>2. a.queue = s.queue /\ (a.enabled <=> s.enabled) /\ (a.endpoints <=> s.endpoints)
    BY <1>4 DEF State
  <2> QED  BY <1>1, <1>4, <2>1, <2>2 DEF Same, Tried, State
<1>5. \/ a = s
      \/ a = [s EXCEPT !.enum_try = 0]
      \/ /\ a = [s EXCEPT !.dev = FALSE, !.main_b_usb_dev = FALSE, !.enum_try = 0]
         /\ "step15" \in ends
  <2>1. CASE "step15" \notin ends
    <3>1. a = [s EXCEPT !.enum_try = IF ends \cap EndSteps # {} THEN 0 ELSE s.enum_try]
      BY <2>1 DEF Aborted
    <3>2. CASE ends \cap EndSteps # {}
      BY <3>1, <3>2
    <3>3. CASE ends \cap EndSteps = {}
      <4>1. a = [s EXCEPT !.enum_try = s.enum_try]
        BY <3>1, <3>3
      <4> QED  BY <4>1 DEF State
    <3> QED  BY <3>2, <3>3
  <2>2. CASE "step15" \in ends
    <3>1. a = [uhi_vendor_uninstall(s) EXCEPT !.enum_try = 0]
      BY <2>2 DEF Aborted, EndSteps
    <3> QED  BY <2>2, <3>1 DEF uhi_vendor_uninstall, State
  <2> QED  BY <2>1, <2>2
<1> QED  BY <1>2, <1>3, <1>4, <1>5

LEMMA AbortedOne ==
    ASSUME NEW s \in State, NEW e, NEW a, a = Aborted(s, {e})
    PROVE  /\ Same(a, s) /\ a.queue = s.queue /\ (a.enabled <=> s.enabled)
           /\ (a.endpoints <=> s.endpoints) /\ Tried(a, s)
           /\ e = "NULL" => a = s
           /\ \/ (a.dev <=> s.dev) /\ (a.main_b_usb_dev <=> s.main_b_usb_dev)
              \/ ~a.dev /\ ~a.main_b_usb_dev /\ e = "step15"
<1>1. PICK ends : ends = {e}
  OBVIOUS
<1>2. a = Aborted(s, ends)
  BY <1>1
<1>3. ("step15" \in ends => e = "step15") /\ (e = "NULL" => ends \subseteq {"NULL"})
  BY <1>1
<1> QED  BY <1>2, <1>3, AbortedIs

LEMMA OtherQueue ==
    ASSUME NEW s \in State, NEW q \in Seq(Requests), NEW t, t = [s EXCEPT !.queue = q]
    PROVE  SameDevice(t, s) /\ t.queue = q
<1>1. t \in State /\ t.queue = q
  BY DEF State
<1> QED  BY <1>1 DEF SameDevice, Same, State

LEMMA StartedNull ==
    ASSUME NEW s \in State, Null(s.queue), NEW t, t = Started(s)
    PROVE  /\ SameDevice(t, s) /\ Null(t.queue)
           /\ ~s.enabled => t.queue = <<>>
<1>1. PICK n \in 0 .. Len(s.queue) :
        /\ n < Len(s.queue) => Accepts(s, s.queue[n + 1])
        /\ Started(s) = Aborted([s EXCEPT !.queue = SubSeq(@, n + 1, Len(@))],
                                {s.queue[i].end : i \in 1 .. n})
  BY StartedIs
<1>2. s.queue \in Seq(Requests)
  BY DEF State
<1>3. PICK r : r = SubSeq(s.queue, n + 1, Len(s.queue))
  OBVIOUS
<1>4. r \in Seq(Requests) /\ Null(r)
  BY <1>2, <1>3, Rest
<1>5. PICK x : x = [s EXCEPT !.queue = r]
  OBVIOUS
<1>6. SameDevice(x, s) /\ x.queue = r
  BY <1>4, <1>5, OtherQueue
<1>7. {s.queue[i].end : i \in 1 .. n} \subseteq {"NULL"}
  BY <1>2 DEF Null
<1>8. t = x
  BY <1>1, <1>3, <1>5, <1>6, <1>7, AbortedNull DEF SameDevice, Same
<1>9. ~s.enabled => n = Len(s.queue)
  BY <1>1, <1>2 DEF Accepts
<1>10. ~s.enabled => r = <<>>
  BY <1>2, <1>3, <1>9
<1> QED  BY <1>4, <1>6, <1>8, <1>10

LEMMA StartedOne ==
    ASSUME NEW s \in State, NEW add, add = s.uhaddr, NEW e \in EndSteps,
           One(s.queue, add, e), s.enabled, NEW t, t = Started(s)
    PROVE  SameDevice(t, s) /\ One(t.queue, add, e)
<1>1. PICK n \in 0 .. Len(s.queue) :
        /\ \A i \in 1 .. n : ~Accepts(s, s.queue[i])
        /\ Started(s) = Aborted([s EXCEPT !.queue = SubSeq(@, n + 1, Len(@))],
                                {s.queue[i].end : i \in 1 .. n})
  BY StartedIs
<1>2. s.queue \in Seq(Requests) /\ e # "NULL"
  BY DEF State, EndSteps
<1>3. PICK r : r = SubSeq(s.queue, n + 1, Len(s.queue))
  OBVIOUS
<1>4. \A i \in 1 .. n : s.queue[i] # [add |-> add, end |-> e]
  BY <1>1 DEF Accepts
<1>5. r \in Seq(Requests) /\ One(r, add, e)
  BY <1>2, <1>3, <1>4, Rest
<1>6. PICK x : x = [s EXCEPT !.queue = r]
  OBVIOUS
<1>7. SameDevice(x, s) /\ x.queue = r
  BY <1>5, <1>6, OtherQueue
<1>8. {s.queue[i].end : i \in 1 .. n} \subseteq {"NULL"}
  <2>1. PICK k \in DOMAIN s.queue : /\ s.queue[k] = [add |-> add, end |-> e]
                                    /\ \A j \in DOMAIN s.queue \ {k} : s.queue[j].end = "NULL"
    BY DEF One
  <2>2. \A i \in 1 .. n : i \in DOMAIN s.queue \ {k}
    BY <1>2, <1>4, <2>1
  <2> QED  BY <2>1, <2>2
<1>9. t = x
  BY <1>1, <1>3, <1>6, <1>7, <1>8, AbortedNull DEF SameDevice, Same
<1> QED  BY <1>5, <1>7, <1>9

LEMMA StartedOff ==
    ASSUME NEW s \in State, ~s.enabled, NEW t, t = Started(s)
    PROVE  Drained(t, s) /\ (t.enabled <=> s.enabled) /\ (t.endpoints <=> s.endpoints)
<1>1. PICK n \in 0 .. Len(s.queue) :
        /\ n < Len(s.queue) => Accepts(s, s.queue[n + 1])
        /\ Started(s) = Aborted([s EXCEPT !.queue = SubSeq(@, n + 1, Len(@))],
                                {s.queue[i].end : i \in 1 .. n})
  BY StartedIs
<1>2. s.queue \in Seq(Requests)
  BY DEF State
<1>3. n = Len(s.queue) /\ SubSeq(s.queue, n + 1, Len(s.queue)) = <<>>
  BY <1>1, <1>2 DEF Accepts
<1>4. PICK x : x = [s EXCEPT !.queue = <<>>]
  OBVIOUS
<1>5. PICK ends : ends = {s.queue[i].end : i \in 1 .. n}
  OBVIOUS
<1>6. SameDevice(x, s) /\ x.queue = <<>>
  BY <1>4, Zero, OtherQueue
<1>7. t = Aborted(x, ends)
  BY <1>1, <1>3, <1>4, <1>5
<1>8. "step15" \in ends => \E i \in DOMAIN s.queue : s.queue[i].end = "step15"
  BY <1>2, <1>3, <1>5
<1>9. Null(s.queue) => ends \subseteq {"NULL"}
  BY <1>2, <1>3, <1>5 DEF Null
<1>10. /\ Same(t, x) /\ t.queue = x.queue /\ (t.enabled <=> x.enabled)
       /\ (t.endpoints <=> x.endpoints) /\ Tried(t, x)
       /\ ends \subseteq {"NULL"} => t = x
       /\ \/ (t.dev <=> x.dev) /\ (t.main_b_usb_dev <=> x.main_b_usb_dev)
          \/ ~t.dev /\ ~t.main_b_usb_dev /\ "step15" \in ends
  BY <1>6, <1>7, AbortedIs DEF SameDevice, Same
<1> QED  BY <1>6, <1>8, <1>9, <1>10 DEF Drained, SameDevice, Same, Tried

----------------------------------------------------------------------------
(* Requests and pipes *)

LEMMA SetupNull ==
    ASSUME NEW s \in State, NEW a \in {0, DEVICE_ADD}, NEW r, r = uhd_setup_request(s, a, "NULL")
    PROVE  /\ SameDevice(r, s)
           /\ Null(s.queue) => Null(r.queue)
           /\ \A add, end : One(s.queue, add, end) => One(r.queue, add, end)
           /\ s.queue = <<>> /\ ~s.enabled => r.queue = <<>>
<1>1. PICK q : q = Append(s.queue, [add |-> a, end |-> "NULL"])
  OBVIOUS
<1>2. PICK t : t = [s EXCEPT !.queue = q]
  OBVIOUS
<1>3. s.queue \in Seq(Requests)
  BY DEF State
<1>4. /\ q \in Seq(Requests) /\ (Null(s.queue) => Null(q))
      /\ \A add, end : One(s.queue, add, end) => One(q, add, end)
  BY <1>1, <1>3, Put
<1>5. r = IF s.queue = <<>> THEN Started(t) ELSE t
  BY <1>1, <1>2 DEF uhd_setup_request
<1>6. SameDevice(t, s) /\ t.queue = q
  BY <1>2, <1>4, OtherQueue
<1>7. CASE s.queue = <<>>
  <2>1. Null(s.queue) /\ \A add, end : ~One(s.queue, add, end)
    BY <1>7 DEF Null, One
  <2>2. SameDevice(r, t) /\ Null(r.queue) /\ (~t.enabled => r.queue = <<>>)
    BY <1>4, <1>5, <1>6, <1>7, <2>1, StartedNull DEF SameDevice, Same
  <2> QED  BY <1>6, <2>1, <2>2 DEF SameDevice, Same
<1>8. CASE s.queue # <<>>
  BY <1>4, <1>5, <1>6, <1>8
<1> QED  BY <1>7, <1>8

LEMMA SetupOne ==
    ASSUME NEW s \in State, NEW add, add = s.uhaddr, NEW e \in EndSteps, Null(s.queue), s.enabled,
           NEW r, r = uhd_setup_request(s, add, e)
    PROVE  SameDevice(r, s) /\ One(r.queue, add, e)
<1>1. PICK q : q = Append(s.queue, [add |-> add, end |-> e])
  OBVIOUS
<1>2. PICK t : t = [s EXCEPT !.queue = q]
  OBVIOUS
<1>3. s.queue \in Seq(Requests) /\ add \in {0, DEVICE_ADD} /\ e # "NULL"
  BY DEF State, EndSteps
<1>4. q \in Seq(Requests) /\ One(q, add, e)
  BY <1>1, <1>3, Put
<1>5. r = IF s.queue = <<>> THEN Started(t) ELSE t
  BY <1>1, <1>2 DEF uhd_setup_request
<1>6. SameDevice(t, s) /\ t.queue = q
  BY <1>2, <1>4, OtherQueue
<1>7. CASE s.queue = <<>>
  <2>1. SameDevice(r, t) /\ One(r.queue, add, e)
    BY <1>4, <1>5, <1>6, <1>7, StartedOne DEF SameDevice, Same
  <2> QED  BY <1>6, <2>1 DEF SameDevice, Same
<1>8. CASE s.queue # <<>>
  BY <1>4, <1>5, <1>6, <1>8
<1> QED  BY <1>7, <1>8

LEMMA FreedIs ==
    ASSUME NEW s \in State, NEW add \in {0, DEVICE_ADD, NOT_VALID}, NEW f, f = Freed(s, add)
    PROVE  /\ Same(f, s) /\ f.queue = s.queue /\ f.enum_try = s.enum_try /\ (f.dev <=> s.dev)
           /\ (f.main_b_usb_dev <=> s.main_b_usb_dev)
           /\ f.enabled => s.enabled
           /\ s.uhaddr = add => ~f.enabled
           /\ s.enabled /\ s.uhaddr # add => f.enabled
           /\ f.endpoints => s.endpoints /\ add # DEVICE_ADD
<1>1. f = [s EXCEPT !.enabled = s.enabled /\ s.uhaddr # add,
                    !.endpoints = s.endpoints /\ add # DEVICE_ADD]
  BY DEF Freed
<1>2. f \in State
  BY <1>1 DEF State
<1>3. /\ f.enabled => s.enabled
      /\ s.uhaddr = add => ~f.enabled
      /\ s.enabled /\ s.uhaddr # add => f.enabled
      /\ f.endpoints => s.endpoints /\ add # DEVICE_ADD
  BY <1>1 DEF State
<1>4. /\ f.address = s.address /\ f.conf_desc = s.conf_desc /\ f.timer = s.timer
      /\ f.reset = s.reset /\ f.uhaddr = s.uhaddr /\ f.status = s.status
      /\ f.attempts = s.attempts /\ f.heap = s.heap
  BY <1>1 DEF State
<1>5. f.queue = s.queue /\ f.enum_try = s.enum_try /\ (f.dev <=> s.dev)
      /\ (f.main_b_usb_dev <=> s.main_b_usb_dev)
  BY <1>1 DEF State
<1> QED  BY <1>2, <1>3, <1>4, <1>5 DEF Same

(* What of s stays with the suspend that was waiting for the requests to end *)
LEMMA NextIs ==
    ASSUME NEW s \in State, NEW t,
           t = IF s.requested /\ s.queue = <<>>
               THEN Suspended([s EXCEPT !.requested = FALSE]) ELSE s
    PROVE  SameDevice(t, s) /\ t.queue = s.queue
<1>1. CASE t = s
  BY <1>1 DEF SameDevice, Same
<1>2. CASE t = [s EXCEPT !.requested = FALSE, !.suspend = TRUE]
  <2>1. t \in State
    BY <1>2, ZenonT(60) DEF State
  <2> QED  BY <1>2, <2>1, ZenonT(60) DEF SameDevice, Same, State
<1>3. t = s \/ t = [s EXCEPT !.requested = FALSE, !.suspend = TRUE]
  BY DEF Suspended
<1> QED  BY <1>1, <1>2, <1>3

(* Freeing pipe 0 of its address calls back every request. *)
LEMMA PipeFreed ==
    ASSUME NEW s \in State, NEW add \in {0, DEVICE_ADD, NOT_VALID}, s.uhaddr = add,
           NEW f, f = uhd_ep_free(s, add)
    PROVE  /\ Drained(f, s) /\ ~f.enabled
           /\ f.endpoints => s.endpoints /\ add # DEVICE_ADD
<1>1. PICK g : g = Freed(s, add)
  OBVIOUS
<1>2. /\ Same(g, s) /\ g.queue = s.queue /\ g.enum_try = s.enum_try /\ (g.dev <=> s.dev)
      /\ (g.main_b_usb_dev <=> s.main_b_usb_dev) /\ ~g.enabled
      /\ g.endpoints => s.endpoints /\ add # DEVICE_ADD
  BY <1>1, FreedIs
<1>3. s.queue \in Seq(Requests)
  BY DEF State
<1>4. CASE s.queue = <<>>
  <2>1. f = g
    BY <1>1, <1>4 DEF uhd_ep_free
  <2> QED  BY <1>2, <1>4, <2>1 DEF Drained, Tried
<1>5. CASE s.queue # <<>>
  <2>1. PICK x : x = [g EXCEPT !.queue = Tail(s.queue)]
    OBVIOUS
  <2>2. PICK e : e = Head(s.queue).end
    OBVIOUS
  <2>3. PICK called : called = Aborted(x, {e})
    OBVIOUS
  <2>4. PICK next : next = IF called.queue = <<>> THEN called ELSE Started(called)
    OBVIOUS
  <2>5. /\ Tail(s.queue) \in Seq(Requests) /\ e \in EndSteps \cup {"NULL"}
        /\ (Null(s.queue) => Null(Tail(s.queue)) /\ e = "NULL")
        /\ \E i \in DOMAIN s.queue : s.queue[i].end = e
        /\ \A j \in DOMAIN Tail(s.queue) : \E i \in DOMAIN s.queue : s.queue[i] = Tail(s.queue)[j]
    <3>1. Head(s.queue) = s.queue[1] /\ 1 \in DOMAIN s.queue
      BY <1>3, <1>5
    <3>2. \A j \in DOMAIN Tail(s.queue) : j + 1 \in DOMAIN s.queue /\ Tail(s.queue)[j] = s.queue[j + 1]
      BY <1>3, <1>5
    <3> QED  BY <1>3, <1>5, <2>2, <3>1, <3>2, Taken DEF Requests
  <2>6. SameDevice(x, g) /\ x.queue = Tail(s.queue)
    BY <1>2, <2>1, <2>5, OtherQueue, ZenonT(60) DEF Same
  <2>7. CalledBack(x, e, "DISCONNECT", "none") = called
    <3>1. e = "NULL" => called = x
      BY <2>3, <2>6, AbortedNull DEF SameDevice, Same
    <3> QED  BY <2>3, <3>1 DEF CalledBack
  <2>8. f = IF next.requested /\ next.queue = <<>>
            THEN Suspended([next EXCEPT !.requested = FALSE]) ELSE next
    <3>1. f = uhd_ctrl_request_end(g, "DISCONNECT", "none")
      BY <1>1, <1>5 DEF uhd_ep_free
    <3>2. [g EXCEPT !.queue = Tail(@)] = x /\ Head(g.queue).end = e
      BY <1>2, <2>1, <2>2
    <3> QED  BY <2>4, <2>7, <3>1, <3>2 DEF uhd_ctrl_request_end
  <2>9. /\ Same(called, x) /\ called.queue = x.queue /\ (called.enabled <=> x.enabled)
        /\ (called.endpoints <=> x.endpoints) /\ Tried(called, x)
        /\ e = "NULL" => called = x
        /\ \/ (called.dev <=> x.dev) /\ (called.main_b_usb_dev <=> x.main_b_usb_dev)
           \/ ~called.dev /\ ~called.main_b_usb_dev /\ e = "step15"
    BY <2>3, <2>6, AbortedOne, SMTT(30) DEF SameDevice, Same
  <2>10. Drained(next, called) /\ (next.enabled <=> called.enabled) /\ (next.endpoints <=> called.endpoints)
    <3>1. CASE called.queue = <<>>
      BY <2>4, <2>9, <3>1 DEF Drained, Same, Tried
    <3>2. CASE called.queue # <<>>
      <4>1. called \in State /\ ~called.enabled
        BY <1>2, <2>6, <2>9 DEF SameDevice, Same
      <4> QED  BY <2>4, <3>2, <4>1, StartedOff
    <3> QED  BY <3>1, <3>2
  <2>11. SameDevice(f, next) /\ f.queue = next.queue
    BY <2>8, <2>10, NextIs DEF Drained, Same
  <2>12. Same(f, s) /\ f.queue = <<>> /\ ~f.enabled /\ (f.endpoints => s.endpoints /\ add # DEVICE_ADD)
    BY <1>2, <2>6, <2>9, <2>10, <2>11 DEF Drained, SameDevice, Same
  <2>13. Tried(f, s) /\ (Null(s.queue) => f.enum_try = s.enum_try)
    BY <1>2, <2>5, <2>6, <2>9, <2>10, <2>11 DEF Drained, SameDevice, Same, Tried
  <2>14. \/ (f.dev <=> s.dev) /\ (f.main_b_usb_dev <=> s.main_b_usb_dev)
         \/ /\ ~f.dev /\ ~f.main_b_usb_dev
            /\ \E i \in DOMAIN s.queue : s.queue[i].end = "step15"
    <3>1. (\E i \in DOMAIN called.queue : called.queue[i].end = "step15")
            => \E i \in DOMAIN s.queue : s.queue[i].end = "step15"
      BY <2>5, <2>6, <2>9
    <3> QED  BY <1>2, <2>5, <2>6, <2>9, <2>10, <2>11, <3>1 DEF Drained, SameDevice
  <2> QED  BY <2>12, <2>13, <2>14 DEF Drained
<1> QED  BY <1>4, <1>5

----------------------------------------------------------------------------
(* The errors *)

Before(s) ==
    /\ Held(s) /\ Enumerating(s) /\ Null(s.queue) /\ s.reset = "none"
    /\ s.address # NOT_VALID
    /\ s.timer # "none" => /\ s.timer \in {"step3", "step5"} /\ s.address = 0
                           /\ s.attempts <= 1 /\ ~s.enabled

(* Another try, or the end of the enumeration.  Pipe 0 is left to the requests that
   wait for it if its address was not the device's. *)
LEMMA ErrorIs ==
    ASSUME NEW s, Before(s), NEW status \in EnumStatus \ {"SUCCESS"},
           NEW e, e = uhc_enumeration_error(s, status)
    PROVE  Held(e) /\ InPhase(e) /\ e.queue = s.queue
<1>1. s \in State /\ s.address \in {0, DEVICE_ADD} /\ s.conf_desc \in {"NULL", "held"}
  BY DEF Before, Held, Enumerating, State
<1>2. PICK f : f = Freed(s, s.address)
  OBVIOUS
<1>3. /\ Same(f, s) /\ f.queue = s.queue /\ f.enum_try = s.enum_try /\ (f.dev <=> s.dev)
      /\ (f.main_b_usb_dev <=> s.main_b_usb_dev)
      /\ f.enabled => s.enabled
      /\ s.uhaddr = s.address => ~f.enabled
      /\ f.endpoints => s.endpoints /\ s.address # DEVICE_ADD
  <2>1. s.address \in {0, DEVICE_ADD, NOT_VALID}
    BY <1>1
  <2> QED  BY <1>1, <1>2, <2>1, FreedIs
<1>4. PICK g : g = [Released(f, "NULL") EXCEPT !.address = 0]
  OBVIOUS
<1>5. g = [f EXCEPT !.conf_desc = "NULL", !.address = 0]
  <2>1. f \in State /\ f.conf_desc # "freed"
    BY <1>1, <1>3 DEF Same
  <2>2. CASE f.conf_desc = "NULL"
    BY <1>4, <2>1, <2>2 DEF Released, State
  <2>3. CASE f.conf_desc # "NULL"
    BY <1>4, <2>1, <2>3 DEF Released, State
  <2> QED  BY <2>2, <2>3
<1>6. /\ g \in State /\ g.address = 0 /\ g.conf_desc = "NULL" /\ ~g.endpoints
      /\ g.enum_try = s.enum_try /\ g.timer = s.timer /\ g.reset = "none" /\ g.uhaddr = s.uhaddr
      /\ g.queue = s.queue /\ g.attempts = s.attempts /\ g.heap = s.heap
      /\ g.status = s.status /\ (g.main_b_usb_dev => g.dev)
      /\ (g.enabled => s.enabled /\ s.uhaddr # DEVICE_ADD)
  <2>1. g \in State
    BY <1>3, <1>5 DEF State, Same
  <2>2. ~f.endpoints
    BY <1>1, <1>3 DEF Before, Held
  <2>3. f.main_b_usb_dev => f.dev
    BY <1>3 DEF Before, Held
  <2>4. f.enabled => s.enabled /\ s.uhaddr # DEVICE_ADD
    BY <1>1, <1>3 DEF Before, Held
  <2>5. /\ f.enum_try = s.enum_try /\ f.timer = s.timer /\ f.reset = "none" /\ f.uhaddr = s.uhaddr
        /\ f.queue = s.queue /\ f.attempts = s.attempts /\ f.heap = s.heap
        /\ f.status = s.status
    BY <1>3 DEF Same, Before
  <2>6. f \in State
    BY <1>3 DEF Same
  <2>7. /\ g.address = 0 /\ g.conf_desc = "NULL" /\ g.enum_try = f.enum_try /\ g.timer = f.timer
        /\ g.reset = f.reset /\ g.uhaddr = f.uhaddr /\ g.queue = f.queue
        /\ g.attempts = f.attempts /\ g.heap = f.heap /\ g.status = f.status
    BY <1>5, <2>6 DEF State
  <2>8. /\ (g.endpoints <=> f.endpoints) /\ (g.main_b_usb_dev <=> f.main_b_usb_dev)
        /\ (g.dev <=> f.dev) /\ (g.enabled <=> f.enabled)
    BY <1>5, <2>6 DEF State
  <2> QED  BY <2>1, <2>2, <2>3, <2>4, <2>5, <2>7, <2>8
<1>7. g.attempts <= g.enum_try + 1 /\ {"leak", "freed twice"} \cap g.heap = {} /\ Null(g.queue)
  BY <1>6 DEF Before, Enumerating, Held
<1>8. CASE s.enum_try < UHC_ENUM_NB_TRY
  <2>1. e = step1([g EXCEPT !.enum_try = @ + 1])
    BY <1>2, <1>4, <1>5, <1>8 DEF uhc_enumeration_error
  <2>2. e = [g EXCEPT !.enum_try = g.enum_try + 1, !.reset = "step2", !.attempts = g.attempts + 1]
    BY <1>6, <2>1 DEF step1, State
  <2>3. /\ s.enum_try \in Nat /\ s.enum_try + 1 \in 0 .. UHC_ENUM_NB_TRY
        /\ s.attempts \in Nat /\ s.attempts + 1 <= s.enum_try + 2 /\ s.attempts + 1 \in Nat
    <3>1. /\ s.enum_try \in 0 .. UHC_ENUM_NB_TRY /\ s.attempts \in Nat
          /\ s.attempts <= s.enum_try + 1
      BY <1>1, <1>6, <1>7 DEF State
    <3> QED  BY <1>8, <3>1, UhcAssumption DEF UhcAssumption
  <2>4. e \in State
    <3>1. g.enum_try + 1 \in 0 .. UHC_ENUM_NB_TRY /\ g.attempts + 1 \in Nat /\ g \in State
      BY <1>6, <2>3
    <3> QED  BY <2>2, <3>1 DEF State
  <2>5. /\ e.address = 0 /\ e.conf_desc = "NULL" /\ ~e.endpoints /\ e.status = s.status
        /\ e.enum_try = s.enum_try + 1 /\ e.reset = "step2" /\ e.uhaddr = s.uhaddr
        /\ e.queue = s.queue /\ e.attempts = s.attempts + 1 /\ e.heap = s.heap
        /\ (e.main_b_usb_dev => e.dev) /\ (e.enabled => s.uhaddr # DEVICE_ADD)
    <3>1. /\ e.address = g.address /\ e.conf_desc = g.conf_desc /\ e.status = g.status
          /\ e.enum_try = g.enum_try + 1 /\ e.reset = "step2" /\ e.uhaddr = g.uhaddr
          /\ e.queue = g.queue /\ e.attempts = g.attempts + 1 /\ e.heap = g.heap
      BY <1>6, <2>2 DEF State
    <3>2. /\ (e.endpoints <=> g.endpoints) /\ (e.main_b_usb_dev <=> g.main_b_usb_dev)
          /\ (e.dev <=> g.dev) /\ (e.enabled <=> g.enabled)
      BY <1>6, <2>2 DEF State
    <3> QED  BY <1>6, <3>1, <3>2
  <2>6. e.attempts <= e.enum_try + 1 /\ e.attempts <= UHC_ENUM_NB_TRY + 1
    BY <1>8, <2>3, <2>5, UhcAssumption DEF UhcAssumption
  <2>7. Held(e)
    BY <1>6, <1>7, <2>4, <2>5, <2>6 DEF Held
  <2>8. Starting(e)
    BY <1>6, <1>7, <2>5, <2>6 DEF Starting, Enumerating, Before
  <2> QED  BY <2>5, <2>7, <2>8 DEF InPhase
<1>9. CASE ~(s.enum_try < UHC_ENUM_NB_TRY)
  <2>1. e = Reported(Suspended([g EXCEPT !.enum_try = 0]), status)
    BY <1>2, <1>4, <1>9 DEF uhc_enumeration_error
  <2>2. e = [g EXCEPT !.enum_try = 0, !.suspend = TRUE, !.status = status, !.done = TRUE]
    BY <1>6, <2>1 DEF Reported, Suspended, State
  <2>3. e \in State
    BY <1>6, <2>2, Zero, ZenonT(60) DEF State
  <2>4. /\ e.address = 0 /\ e.conf_desc = "NULL" /\ ~e.endpoints /\ e.status # "SUCCESS"
        /\ e.enum_try = 0 /\ e.reset = "none" /\ e.timer = s.timer /\ e.uhaddr = s.uhaddr
        /\ e.queue = s.queue /\ e.attempts = s.attempts /\ e.heap = s.heap
        /\ (e.main_b_usb_dev => e.dev) /\ (e.enabled => s.enabled /\ s.uhaddr # DEVICE_ADD)
    BY <1>6, <2>2 DEF State
  <2>5. Held(e)
    BY <1>6, <1>7, <2>3, <2>4 DEF Held, Before
  <2>6. CASE s.timer = "none"
    <3>1. e.conf_desc # "freed"
      BY <2>4
    <3>2. e.address # NOT_VALID
      BY <2>4, Constants
    <3>3. Calm(e)
      BY <2>4, <2>6 DEF Calm
    <3>4. Null(e.queue)
      BY <1>6, <1>7, <2>4
    <3> QED  BY <2>4, <2>5, <3>1, <3>2, <3>3, <3>4 DEF InPhase, Failed
  <2>7. CASE s.timer # "none"
    <3>1. /\ s.timer \in {"step3", "step5"} /\ s.attempts <= 1 /\ ~s.enabled
      BY <2>7 DEF Before
    <3>2. e.conf_desc # "freed" /\ ~e.enabled /\ Null(e.queue)
      BY <1>6, <1>7, <2>4, <3>1
    <3>3. e.attempts <= e.enum_try + 1
      BY <2>4, <3>1
    <3>4. Starting(e)
      BY <2>4, <3>1, <3>2, <3>3 DEF Starting, Enumerating
    <3> QED  BY <2>4, <2>5, <3>4 DEF InPhase
  <2> QED  BY <2>5, <2>6, <2>7
<1> QED  BY <1>8, <1>9

----------------------------------------------------------------------------
(* The end of a request *)

(* t is as far as s, and has the request with a step to call back that s has, if any. *)
Follows(t, s) ==
    /\ t.address = s.address /\ t.conf_desc = s.conf_desc /\ t.timer = s.timer
    /\ t.reset = s.reset /\ t.uhaddr = s.uhaddr /\ t.status = s.status
    /\ t.attempts = s.attempts /\ t.enum_try = s.enum_try
    /\ (t.enabled <=> s.enabled) /\ (t.endpoints <=> s.endpoints)
    /\ (t.dev <=> s.dev) /\ (t.main_b_usb_dev <=> s.main_b_usb_dev)
    /\ Null(s.queue) => Null(t.queue)
    /\ \A add, end : One(s.queue, add, end) /\ end \in EndSteps => One(t.queue, add, end)

LEMMA PhaseKept ==
    ASSUME NEW s \in State, InPhase(s), NEW t, Follows(t, s)
    PROVE  InPhase(t)
<1>1. EndSteps = {"step6", "step10", "step12", "step13", "step14", "step15"}
  BY DEF EndSteps
<1>2. /\ t.address = s.address /\ t.conf_desc = s.conf_desc /\ t.timer = s.timer
      /\ t.reset = s.reset /\ t.uhaddr = s.uhaddr /\ t.status = s.status
      /\ t.attempts = s.attempts /\ t.enum_try = s.enum_try
      /\ (t.enabled <=> s.enabled) /\ (t.endpoints <=> s.endpoints)
      /\ (t.dev <=> s.dev) /\ (t.main_b_usb_dev <=> s.main_b_usb_dev)
      /\ Null(s.queue) => Null(t.queue)
  BY DEF Follows
<1>3. /\ One(s.queue, 0, "step6") => One(t.queue, 0, "step6")
      /\ One(s.queue, 0, "step10") => One(t.queue, 0, "step10")
      /\ One(s.queue, DEVICE_ADD, "step12") => One(t.queue, DEVICE_ADD, "step12")
      /\ One(s.queue, DEVICE_ADD, "step13") => One(t.queue, DEVICE_ADD, "step13")
      /\ One(s.queue, DEVICE_ADD, "step14") => One(t.queue, DEVICE_ADD, "step14")
      /\ One(s.queue, DEVICE_ADD, "step15") => One(t.queue, DEVICE_ADD, "step15")
  BY <1>1 DEF Follows
<1>4. (Enumerating(s) => Enumerating(t)) /\ (Stale(s) => Stale(t)) /\ (Calm(s) => Calm(t))
  BY <1>2, <1>3 DEF Enumerating, Stale, Calm
<1>5. CASE Starting(s)
  <2>1. Starting(t)
    BY <1>2, <1>4, <1>5 DEF Starting
  <2> QED  BY <2>1 DEF InPhase
<1>6. CASE Low(s)
  <2>1. Low(t)
    BY <1>2, <1>3, <1>4, <1>6 DEF Low
  <2> QED  BY <2>1 DEF InPhase
<1>7. CASE High(s)
  <2>1. High(t)
    BY <1>2, <1>3, <1>4, <1>7 DEF High
  <2> QED  BY <2>1 DEF InPhase
<1>8. CASE Configuring(s)
  <2>1. Configuring(t)
    BY <1>2, <1>3, <1>4, <1>8 DEF Configuring
  <2> QED  BY <2>1 DEF InPhase
<1>9. CASE Ready(s)
  <2>1. Ready(t)
    BY <1>2, <1>4, <1>9 DEF Ready
  <2> QED  BY <2>1 DEF InPhase
<1>10. CASE Failed(s)
  <2>1. Failed(t)
    BY <1>2, <1>4, <1>10 DEF Failed
  <2> QED  BY <2>1 DEF InPhase
<1> QED  BY <1>5, <1>6, <1>7, <1>8, <1>9, <1>10 DEF InPhase

LEMMA HeldKept ==
    ASSUME NEW s, Held(s), NEW t, SameDevice(t, s)
    PROVE  Held(t)
BY DEF Held, SameDevice, Same

(* A request with a step to call back is of the device, or of the one before. *)
LEMMA PhaseOne ==
    ASSUME NEW s \in State, InPhase(s), ~Null(s.queue)
    PROVE  \/ Starting(s) /\ Stale(s) /\ s.attempts = 1
           \/ Low(s) /\ s.enabled /\ s.uhaddr = 0 /\ One(s.queue, 0, "step6")
           \/ High(s) /\ s.enabled /\ s.uhaddr = 0 /\ One(s.queue, 0, "step10")
           \/ /\ Configuring(s) /\ s.enabled /\ s.uhaddr = DEVICE_ADD
              /\ \E end \in EndSteps : One(s.queue, DEVICE_ADD, end)
<1>1. CASE Starting(s)
  BY <1>1 DEF Starting
<1>2. CASE Low(s)
  BY <1>2 DEF Low
<1>3. CASE High(s)
  BY <1>3 DEF High
<1>4. CASE Configuring(s)
  BY <1>4 DEF Configuring, EndSteps
<1> QED  BY <1>1, <1>2, <1>3, <1>4 DEF InPhase, Ready, Failed

LEMMA OneOnly ==
    ASSUME NEW q \in Seq(Requests), NEW add, NEW end \in EndSteps, One(q, add, end)
    PROVE  /\ ~Null(q)
           /\ \A a, e : One(q, a, e) /\ e \in EndSteps => a = add /\ e = end
           /\ \A i \in DOMAIN q : q[i].end \in {end, "NULL"}
<1>1. PICK i \in DOMAIN q : /\ q[i] = [add |-> add, end |-> end]
                            /\ \A j \in DOMAIN q \ {i} : q[j].end = "NULL"
  BY DEF One
<1>2. "NULL" \notin EndSteps /\ q[i].end = end /\ q[i].add = add
  BY <1>1 DEF EndSteps
<1>3. ~Null(q)
  BY <1>2 DEF Null
<1>4. ASSUME NEW a, NEW e \in EndSteps, One(q, a, e)
      PROVE  a = add /\ e = end
  <2>1. PICK k \in DOMAIN q : q[k] = [add |-> a, end |-> e]
    BY <1>4 DEF One
  <2>2. q[k].end = e /\ q[k].add = a
    BY <2>1
  <2>3. k = i
    BY <1>1, <1>2, <2>2
  <2> QED  BY <1>2, <2>2, <2>3
<1> QED  BY <1>1, <1>2, <1>3, <1>4

(* The next request is started: those that the pipe cannot take are called back. *)
LEMMA Settled ==
    ASSUME NEW s, Held(s), InPhase(s), NEW n, n = IF s.queue = <<>> THEN s ELSE Started(s)
    PROVE  Sound(n) /\ InPhase(n)
<1>1. s \in State /\ s.queue \in Seq(Requests)
  BY DEF Held, State
<1>2. CASE s.queue = <<>>
  BY <1>2 DEF Sound
<1>3. CASE s.queue # <<>> /\ Null(s.queue)
  <2>1. SameDevice(n, s) /\ Null(n.queue) /\ (~s.enabled => n.queue = <<>>)
    BY <1>1, <1>3, StartedNull
  <2>2. \A add, end : ~(One(s.queue, add, end) /\ end \in EndSteps)
    BY <1>1, <1>3, OneOnly
  <2>3. Follows(n, s)
    BY <2>1, <2>2 DEF Follows, SameDevice, Same
  <2>4. InPhase(n)
    BY <1>1, <2>3, PhaseKept
  <2>5. Held(n)
    BY <2>1, HeldKept
  <2>6. n.uhaddr = DEVICE_ADD /\ n.address # DEVICE_ADD => n.queue = <<>>
    BY <2>1 DEF Held, SameDevice, Same
  <2> QED  BY <2>4, <2>5, <2>6 DEF Sound
<1>4. CASE ~Null(s.queue) /\ s.enabled
  <2>1. PICK end \in EndSteps : One(s.queue, s.uhaddr, end)
    <3>1. "step6" \in EndSteps /\ "step10" \in EndSteps
      BY DEF EndSteps
    <3> QED  BY <1>1, <1>4, <3>1, PhaseOne DEF Stale
  <2>2. s.queue # <<>>
    BY <1>4 DEF Null
  <2>3. SameDevice(n, s) /\ One(n.queue, s.uhaddr, end)
    BY <1>1, <1>4, <2>1, <2>2, StartedOne
  <2>4. Follows(n, s)
    BY <1>1, <1>4, <2>1, <2>3, OneOnly DEF Follows, SameDevice, Same
  <2>5. InPhase(n)
    BY <1>1, <2>4, PhaseKept
  <2>6. Held(n)
    BY <2>3, HeldKept
  <2>7. ~(n.uhaddr = DEVICE_ADD /\ n.address # DEVICE_ADD)
    BY <1>4, <2>3 DEF Held, SameDevice, Same
  <2> QED  BY <2>5, <2>6, <2>7 DEF Sound
<1>5. CASE ~Null(s.queue) /\ ~s.enabled
  <2>1. Starting(s) /\ Stale(s) /\ s.attempts = 1
    BY <1>1, <1>5, PhaseOne
  <2>2. s.queue # <<>>
    BY <1>5 DEF Null
  <2>3. Drained(n, s) /\ (n.enabled <=> s.enabled) /\ (n.endpoints <=> s.endpoints)
    BY <1>1, <1>5, <2>2, StartedOff
  <2>4. \A i \in DOMAIN s.queue : s.queue[i].end # "step15"
    <3>1. "step10" \in EndSteps
      BY DEF EndSteps
    <3>2. \A i \in DOMAIN s.queue : s.queue[i].end \in {"step10", "NULL"}
      BY <1>1, <2>1, <3>1, OneOnly DEF Stale
    <3> QED  BY <3>2
  <2>5. /\ Same(n, s) /\ n.queue = <<>> /\ Null(n.queue)
        /\ (n.dev <=> s.dev) /\ (n.main_b_usb_dev <=> s.main_b_usb_dev)
    BY <2>3, <2>4 DEF Drained, Null
  <2>6. Held(n)
    BY <2>3, <2>5 DEF Held, Same
  <2>7. n.attempts = 1 /\ n.enum_try \in 0 .. UHC_ENUM_NB_TRY
    BY <2>1, <2>5 DEF Same, State
  <2>8. n.attempts <= n.enum_try + 1
    BY <2>7
  <2>9. Starting(n)
    BY <2>1, <2>3, <2>5, <2>8 DEF Starting, Enumerating, Same
  <2> QED  BY <2>5, <2>6, <2>9 DEF Sound, InPhase
<1> QED  BY <1>2, <1>3, <1>4, <1>5

LEMMA RequestedIs ==
    ASSUME NEW s, Held(s), Enumerating(s), Calm(s), Null(s.queue), s.enabled,
           s.address # NOT_VALID, NEW add, add = s.uhaddr, NEW end \in EndSteps, NEW outcome,
           NEW r, r = Requested(s, add, end, outcome)
    PROVE  \/ Held(r) /\ InPhase(r) /\ r.queue = s.queue
           \/ SameDevice(r, s) /\ One(r.queue, add, end)
<1>1. CASE outcome = "norequest"
  <2>1. Before(s) /\ "MEMORY_LIMIT" \in EnumStatus \ {"SUCCESS"}
    BY DEF Before, Calm, EnumStatus
  <2>2. r = uhc_enumeration_error(s, "MEMORY_LIMIT")
    BY <1>1 DEF Requested
  <2> QED  BY <2>1, <2>2, ErrorIs
<1>2. CASE outcome # "norequest"
  <2>1. r = uhd_setup_request(s, add, end) /\ s \in State
    BY <1>2 DEF Requested, Held
  <2> QED  BY <2>1, SetupOne
<1> QED  BY <1>1, <1>2

LEMMA UninstalledIs ==
    ASSUME NEW s \in State, s.main_b_usb_dev => s.dev, NEW t, t = uhi_vendor_uninstall(s)
    PROVE  /\ Same(t, s) /\ t.queue = s.queue /\ t.enum_try = s.enum_try
           /\ (t.enabled <=> s.enabled) /\ (t.endpoints <=> s.endpoints)
           /\ ~t.dev /\ ~t.main_b_usb_dev
<1>1. CASE s.dev
  <2>1. t = [s EXCEPT !.dev = FALSE, !.main_b_usb_dev = FALSE]
    BY <1>1 DEF uhi_vendor_uninstall
  <2>2. t \in State /\ ~t.dev /\ ~t.main_b_usb_dev
    BY <2>1 DEF State
  <2>3. /\ t.queue = s.queue /\ t.enum_try = s.enum_try
        /\ (t.enabled <=> s.enabled) /\ (t.endpoints <=> s.endpoints)
    BY <2>1 DEF State
  <2>4. /\ t.address = s.address /\ t.conf_desc = s.conf_desc /\ t.timer = s.timer
        /\ t.reset = s.reset /\ t.uhaddr = s.uhaddr /\ t.status = s.status
        /\ t.attempts = s.attempts /\ t.heap = s.heap
    BY <2>1 DEF State
  <2> QED  BY <2>2, <2>3, <2>4 DEF Same
<1>2. CASE ~s.dev
  BY <1>2 DEF uhi_vendor_uninstall, Same
<1> QED  BY <1>1, <1>2

(* A request with a step to call back ended with an error or timed out. *)
LEMMA FailedIs ==
    ASSUME NEW s, Held(s), Enumerating(s), Null(s.queue), s.reset = "none",
           s.address # NOT_VALID,
           s.timer # "none" => /\ s.timer \in {"step3", "step5"} /\ s.address = 0
                               /\ s.attempts <= 1 /\ ~s.enabled,
           NEW end \in EndSteps, NEW status \in {"TIMEOUT", "FAIL"}, NEW outcome,
           NEW c, c = CalledBack(s, end, status, outcome)
    PROVE  Held(c) /\ InPhase(c)
<1>1. PICK x : x = IF end = "step15" THEN uhi_vendor_uninstall(s) ELSE s
  OBVIOUS
<1>2. c = uhc_enumeration_error(x, "FAIL")
  BY <1>1 DEF CalledBack, EndSteps
<1>3. "FAIL" \in EnumStatus \ {"SUCCESS"}
  BY DEF EnumStatus
<1>4. Before(x)
  <2>1. CASE end # "step15"
    BY <1>1, <2>1 DEF Before
  <2>2. CASE end = "step15"
    <3>1. /\ Same(x, s) /\ x.queue = s.queue /\ x.enum_try = s.enum_try
          /\ (x.enabled <=> s.enabled) /\ (x.endpoints <=> s.endpoints)
          /\ ~x.dev /\ ~x.main_b_usb_dev
      BY <1>1, <2>2, UninstalledIs DEF Held
    <3>2. Held(x)
      BY <3>1 DEF Held, Same
    <3>3. Enumerating(x)
      BY <3>1 DEF Enumerating, Same
    <3> QED  BY <3>1, <3>2, <3>3 DEF Before, Same
  <2> QED  BY <2>1, <2>2
<1> QED  BY <1>2, <1>3, <1>4, ErrorIs

(* The device has its address, and nothing is left in the queue for a step. *)
Working(s) ==
    /\ Held(s) /\ Enumerating(s) /\ Calm(s) /\ Null(s.queue) /\ s.enabled
    /\ s.address = DEVICE_ADD /\ s.uhaddr = DEVICE_ADD

LEMMA WorkingError ==
    ASSUME NEW s, Working(s), NEW status \in EnumStatus \ {"SUCCESS"},
           NEW c, c = uhc_enumeration_error(s, status)
    PROVE  Held(c) /\ InPhase(c)
<1>1. Before(s)
  BY Constants DEF Working, Before, Calm
<1> QED  BY <1>1, ErrorIs

LEMMA WorkingAsks ==
    ASSUME NEW s, Working(s), NEW end \in {"step13", "step14", "step15"}, NEW outcome,
           s.conf_desc = "held", end = "step15" => s.dev /\ s.endpoints,
           NEW c, c = Requested(s, DEVICE_ADD, end, outcome)
    PROVE  Held(c) /\ InPhase(c)
<1>1. end \in EndSteps /\ s.address # NOT_VALID
  BY Constants DEF EndSteps, Working
<1>2. \/ Held(c) /\ InPhase(c)
      \/ SameDevice(c, s) /\ One(c.queue, DEVICE_ADD, end)
  BY <1>1, RequestedIs DEF Working
<1>3. CASE SameDevice(c, s) /\ One(c.queue, DEVICE_ADD, end)
  <2>1. Held(c)
    BY <1>3, HeldKept DEF Working
  <2>2. Configuring(c)
    BY <1>3 DEF Configuring, Working, Enumerating, Calm, SameDevice, Same
  <2> QED  BY <2>1, <2>2 DEF InPhase
<1> QED  BY <1>2, <1>3

LEMMA AllocatedIs ==
    ASSUME NEW s, Working(s), s.conf_desc = "NULL", NEW t, t = Allocated(s)
    PROVE  Working(t) /\ t.conf_desc = "held"
<1>1. s \in State
  BY DEF Working, Held
<1>2. t = [s EXCEPT !.conf_desc = "held"]
  BY <1>1 DEF Allocated, State
<1>3. t \in State /\ t.conf_desc = "held" /\ t.queue = s.queue /\ t.heap = s.heap
  BY <1>1, <1>2 DEF State
<1>4. /\ t.address = s.address /\ t.timer = s.timer /\ t.enum_try = s.enum_try
      /\ t.reset = s.reset /\ t.uhaddr = s.uhaddr /\ t.status = s.status
      /\ t.attempts = s.attempts
      /\ (t.enabled <=> s.enabled) /\ (t.endpoints <=> s.endpoints)
      /\ (t.dev <=> s.dev) /\ (t.main_b_usb_dev <=> s.main_b_usb_dev)
  BY <1>1, <1>2 DEF State
<1> QED  BY <1>3, <1>4 DEF Working, Held, Enumerating, Calm

LEMMA ReleasedIs ==
    ASSUME NEW s, Working(s), NEW t, t = Released(s, "NULL")
    PROVE  Working(t) /\ t.conf_desc = "NULL"
<1>1. s \in State /\ s.conf_desc \in {"NULL", "held"}
  BY DEF Working, Held, Enumerating, State
<1>2. t = [s EXCEPT !.conf_desc = "NULL"]
  BY <1>1 DEF Released, State
<1>3. t \in State /\ t.conf_desc = "NULL" /\ t.queue = s.queue /\ t.heap = s.heap
  BY <1>1, <1>2 DEF State
<1>4. /\ t.address = s.address /\ t.timer = s.timer /\ t.enum_try = s.enum_try
      /\ t.reset = s.reset /\ t.uhaddr = s.uhaddr /\ t.status = s.status
      /\ t.attempts = s.attempts
      /\ (t.enabled <=> s.enabled) /\ (t.endpoints <=> s.endpoints)
      /\ (t.dev <=> s.dev) /\ (t.main_b_usb_dev <=> s.main_b_usb_dev)
  BY <1>1, <1>2 DEF State
<1> QED  BY <1>3, <1>4 DEF Working, Held, Enumerating, Calm

LEMMA Step12Is ==
    ASSUME NEW s, Working(s), s.conf_desc = "NULL", NEW outcome, NEW c, c = step12(s, outcome)
    PROVE  Held(c) /\ InPhase(c)
<1>1. CASE outcome = "nomem"
  <2>1. [s EXCEPT !.conf_desc = "NULL"] = s
    BY DEF Working, Held, State
  <2>2. c = uhc_enumeration_error(s, "MEMORY_LIMIT")
    BY <1>1, <2>1 DEF step12
  <2> QED  BY <2>2, WorkingError DEF EnumStatus
<1>2. CASE outcome # "nomem"
  <2>1. PICK t : t = Allocated(s)
    OBVIOUS
  <2>2. c = Requested(t, DEVICE_ADD, "step13", outcome)
    BY <1>2, <2>1 DEF step12
  <2> QED  BY <2>1, <2>2, AllocatedIs, WorkingAsks
<1> QED  BY <1>1, <1>2

(* The enumeration ends without the device, which keeps what it has. *)
LEMMA EndedWith ==
    ASSUME NEW s, Held(s), Enumerating(s), Calm(s), Null(s.queue), s.address # NOT_VALID,
           NEW status \in EnumStatus \ {"SUCCESS"},
           NEW c, c = Suspended(Reported(s, status))
    PROVE  Held(c) /\ InPhase(c)
<1>1. s \in State
  BY DEF Held
<1>2. c = [s EXCEPT !.status = status, !.done = TRUE, !.suspend = TRUE]
  BY <1>1 DEF Suspended, Reported
<1>3. c \in State /\ c.status = status
  BY <1>1, <1>2 DEF State
<1>4. /\ c.address = s.address /\ c.timer = s.timer /\ c.enum_try = s.enum_try
      /\ c.reset = s.reset /\ c.uhaddr = s.uhaddr /\ c.queue = s.queue
      /\ c.attempts = s.attempts /\ c.heap = s.heap /\ c.conf_desc = s.conf_desc
      /\ (c.enabled <=> s.enabled) /\ (c.endpoints <=> s.endpoints)
      /\ (c.dev <=> s.dev) /\ (c.main_b_usb_dev <=> s.main_b_usb_dev)
  BY <1>1, <1>2 DEF State
<1>5. Held(c)
  BY <1>3, <1>4 DEF Held
<1>6. Failed(c)
  <2>1. c.address # NOT_VALID
    BY <1>4
  <2>2. c.status # "SUCCESS"
    BY <1>3
  <2> QED  BY <1>4, <2>1, <2>2 DEF Failed, Enumerating, Calm
<1> QED  BY <1>5, <1>6 DEF InPhase

LEMMA Step13Is ==
    ASSUME NEW s, Working(s), s.conf_desc = "held", NEW outcome, NEW c, c = step13(s, outcome)
    PROVE  Held(c) /\ InPhase(c)
<1>1. CASE outcome = "overcurrent"
  <2>1. c = Suspended(Reported(s, "OVERCURRENT"))
    BY <1>1 DEF step13
  <2> QED  BY <2>1, Constants, EndedWith DEF Working, EnumStatus
<1>2. PICK t : t = Released(s, "NULL")
  OBVIOUS
<1>3. CASE outcome = "nomem"
  <2>1. c = uhc_enumeration_error(t, "MEMORY_LIMIT")
    BY <1>2, <1>3 DEF step13
  <2> QED  BY <1>2, <2>1, ReleasedIs, WorkingError DEF EnumStatus
<1>4. CASE outcome \notin {"overcurrent", "nomem"}
  <2>1. PICK a : a = Allocated(t)
    OBVIOUS
  <2>2. c = Requested(a, DEVICE_ADD, "step14", outcome)
    BY <1>2, <1>4, <2>1 DEF step13
  <2>3. Working(a) /\ a.conf_desc = "held"
    BY <1>2, <2>1, ReleasedIs, AllocatedIs
  <2> QED  BY <2>2, <2>3, WorkingAsks
<1> QED  BY <1>1, <1>3, <1>4

LEMMA Step14Is ==
    ASSUME NEW s, Working(s), s.conf_desc = "held", NEW outcome, NEW c, c = step14(s, outcome)
    PROVE  Held(c) /\ InPhase(c)
<1>1. s \in State /\ s.address # NOT_VALID
  <2>1. s.address # NOT_VALID
    BY Constants DEF Working
  <2> QED  BY <2>1 DEF Working, Held
<1>2. PICK status : status = uhi_vendor_install(s, outcome)
  OBVIOUS
<1>3. CASE status = "SUCCESS"
  <2>1. PICK t : t = [s EXCEPT !.dev = TRUE, !.endpoints = TRUE]
    OBVIOUS
  <2>2. c = Requested(t, DEVICE_ADD, "step15", outcome)
    BY <1>2, <1>3, <2>1 DEF step14
  <2>3. t \in State /\ t.dev /\ t.endpoints
    BY <1>1, <2>1 DEF State
  <2>4. /\ t.address = s.address /\ t.timer = s.timer /\ t.enum_try = s.enum_try
        /\ t.reset = s.reset /\ t.uhaddr = s.uhaddr /\ t.status = s.status
        /\ t.queue = s.queue /\ t.conf_desc = s.conf_desc /\ t.heap = s.heap
        /\ t.attempts = s.attempts /\ (t.enabled <=> s.enabled)
    BY <1>1, <2>1 DEF State
  <2>5. Working(t) /\ t.conf_desc = "held"
    BY <2>3, <2>4 DEF Working, Held, Enumerating, Calm
  <2> QED  BY <2>2, <2>3, <2>5, WorkingAsks
<1>4. CASE status = "UNSUPPORTED"
  <2>1. c = Suspended(Reported(s, "UNSUPPORTED"))
    BY <1>2, <1>4 DEF step14
  <2> QED  BY <1>1, <2>1, EndedWith DEF Working, EnumStatus
<1>5. CASE status \notin {"SUCCESS", "UNSUPPORTED"}
  <2>1. PICK f : f = Freed(s, DEVICE_ADD)
    OBVIOUS
  <2>2. c = Suspended(Reported(f, "HARDWARE_LIMIT"))
    BY <1>2, <1>5, <2>1 DEF step14
  <2>3. /\ Same(f, s) /\ f.queue = s.queue /\ f.enum_try = s.enum_try /\ (f.dev <=> s.dev)
        /\ (f.main_b_usb_dev <=> s.main_b_usb_dev) /\ ~f.enabled /\ ~f.endpoints
    BY <1>1, <2>1, FreedIs DEF Working
  <2>4. Held(f)
    BY <2>3 DEF Working, Held, Same
  <2>5. Enumerating(f) /\ Calm(f) /\ Null(f.queue) /\ f.address # NOT_VALID
    BY <1>1, <2>3 DEF Working, Enumerating, Calm, Same
  <2> QED  BY <2>2, <2>4, <2>5, EndedWith DEF EnumStatus
<1> QED  BY <1>3, <1>4, <1>5

LEMMA Step15Is ==
    ASSUME NEW s, Working(s), s.conf_desc = "held", s.dev, s.endpoints, NEW c, c = step15(s)
    PROVE  Held(c) /\ InPhase(c)
<1>1. PICK r : r = uhd_setup_request(s, DEVICE_ADD, "NULL")
  OBVIOUS
<1>2. SameDevice(r, s) /\ Null(r.queue)
  <2>1. s \in State /\ Null(s.queue) /\ DEVICE_ADD \in {0, DEVICE_ADD}
    BY DEF Working, Held
  <2> QED  BY <1>1, <2>1, SetupNull
<1>3. c = [r EXCEPT !.main_b_usb_dev = TRUE, !.enum_try = 0, !.status = "SUCCESS", !.done = TRUE]
  <2>1. uhi_vendor_enable(s) = [r EXCEPT !.main_b_usb_dev = TRUE]
    BY <1>1 DEF uhi_vendor_enable
  <2>2. r \in State
    BY <1>2 DEF SameDevice, Same
  <2> QED  BY <2>1, <2>2 DEF step15, Reported, State
<1>4. r \in State
  BY <1>2 DEF SameDevice, Same
<1>5. c \in State /\ c.main_b_usb_dev /\ c.enum_try = 0 /\ c.status = "SUCCESS"
  BY <1>3, <1>4, Zero, ZenonT(60) DEF State, EnumStatus
<1>6. /\ c.address = r.address /\ c.timer = r.timer /\ c.reset = r.reset /\ c.uhaddr = r.uhaddr
      /\ c.queue = r.queue /\ c.conf_desc = r.conf_desc /\ c.heap = r.heap
      /\ c.attempts = r.attempts
      /\ (c.enabled <=> r.enabled) /\ (c.endpoints <=> r.endpoints) /\ (c.dev <=> r.dev)
  BY <1>3, <1>4 DEF State
<1>7. Held(c)
  BY <1>2, <1>5, <1>6 DEF Held, Working, SameDevice, Same
<1>8. Ready(c)
  BY <1>2, <1>5, <1>6 DEF Ready, Working, Calm, SameDevice, Same
<1> QED  BY <1>7, <1>8 DEF InPhase

(* A step that begins with a delay *)
LEMMA DelayBegun ==
    ASSUME NEW s, Held(s), Enumerating(s), Calm(s), Null(s.queue), s.uhaddr = 0,
           s.conf_desc = "NULL",
           NEW timer \in {"step7", "step11"},
           \/ timer = "step7" /\ s.address = 0
           \/ timer = "step11" /\ s.address = DEVICE_ADD,
           NEW c, c = [s EXCEPT !.timer = timer]
    PROVE  Held(c) /\ InPhase(c)
<1>1. s \in State
  BY DEF Held
<1>2. c \in State /\ c.timer = timer
  BY <1>1 DEF State
<1>3. /\ c.address = s.address /\ c.enum_try = s.enum_try /\ c.reset = s.reset
      /\ c.uhaddr = s.uhaddr /\ c.status = s.status /\ c.conf_desc = s.conf_desc
      /\ c.queue = s.queue /\ c.heap = s.heap /\ c.attempts = s.attempts
      /\ (c.enabled <=> s.enabled) /\ (c.endpoints <=> s.endpoints)
      /\ (c.dev <=> s.dev) /\ (c.main_b_usb_dev <=> s.main_b_usb_dev)
  BY <1>1 DEF State
<1>4. Held(c) /\ Enumerating(c) /\ Null(c.queue)
  BY <1>2, <1>3 DEF Held, Enumerating
<1>5. CASE timer = "step7"
  BY <1>2, <1>3, <1>4, <1>5 DEF InPhase, Low, Calm
<1>6. CASE timer = "step11"
  BY <1>2, <1>3, <1>4, <1>6 DEF InPhase, High, Calm
<1> QED  BY <1>5, <1>6

(* The end of a request that the device answered, or that timed out *)
LEMMA CalledBackIs ==
    ASSUME NEW s, Sound(s), InPhase(s), s.reset = "none", s.queue # <<>>, NEW outcome,
           NEW status \in {"NOERROR", "TIMEOUT", "FAIL"}, status = "NOERROR" => s.enabled,
           NEW x, x = [s EXCEPT !.queue = Tail(s.queue)],
           NEW end, end = Head(s.queue).end,
           NEW c, c = CalledBack(x, end, status, outcome)
    PROVE  Held(c) /\ InPhase(c)
<1>1. s \in State /\ Held(s) /\ s.queue \in Seq(Requests)
  BY DEF Sound, Held, State
<1>2. /\ Tail(s.queue) \in Seq(Requests) /\ end \in EndSteps \cup {"NULL"}
      /\ Null(s.queue) => end = "NULL" /\ Null(Tail(s.queue))
      /\ \A a, e : One(s.queue, a, e) /\ end # "NULL" =>
           Head(s.queue) = [add |-> a, end |-> e] /\ Null(Tail(s.queue))
      /\ \A a, e : One(s.queue, a, e) /\ e # "NULL" /\ end = "NULL" =>
           One(Tail(s.queue), a, e)
  BY <1>1, Taken DEF Requests
<1>3. SameDevice(x, s) /\ x.queue = Tail(s.queue) /\ Held(x)
  BY <1>1, <1>2, OtherQueue, HeldKept
<1>4. CASE end = "NULL"
  <2>1. c = x
    BY <1>4 DEF CalledBack
  <2>2. "NULL" \notin EndSteps
    BY DEF EndSteps
  <2>3. Follows(x, s)
    BY <1>2, <1>3, <1>4, <2>2 DEF Follows, SameDevice, Same
  <2> QED  BY <1>1, <1>3, <2>1, <2>3, PhaseKept
<1>5. CASE end # "NULL"
  <2>1. ~Null(s.queue) /\ end \in EndSteps
    BY <1>2, <1>5
  <2>2. \A a, e : One(s.queue, a, e) => e = end /\ Null(x.queue)
    <3>1. ASSUME NEW a, NEW e, One(s.queue, a, e)
          PROVE  e = end /\ Null(x.queue)
      <4>1. Head(s.queue) = [add |-> a, end |-> e] /\ Null(Tail(s.queue))
        BY <1>2, <1>5, <3>1
      <4> QED  BY <1>3, <4>1
    <3> QED  BY <3>1
  <2>3. Enumerating(s) => Enumerating(x)
    BY <1>3 DEF Enumerating, SameDevice, Same
  <2>4. Calm(s) => Calm(x)
    BY <1>3 DEF Calm, SameDevice, Same
  <2>5. /\ x.address = s.address /\ x.uhaddr = s.uhaddr /\ x.reset = s.reset /\ x.timer = s.timer
        /\ x.conf_desc = s.conf_desc /\ x.attempts = s.attempts
        /\ (x.enabled <=> s.enabled) /\ (x.dev <=> s.dev) /\ (x.endpoints <=> s.endpoints)
    BY <1>3 DEF SameDevice, Same
  <2>6. status = "NOERROR" => c = NextStep(x, end, outcome)
    BY <1>5 DEF CalledBack
  <2>7. CASE Starting(s) /\ Stale(s) /\ s.attempts = 1
    <3>1. end = "step10" /\ Null(x.queue) /\ status \in {"TIMEOUT", "FAIL"}
      BY <2>2, <2>7 DEF Stale, Starting
    <3>2. /\ Enumerating(x) /\ x.address # NOT_VALID /\ x.timer \in {"step3", "step5"}
          /\ x.address = 0 /\ x.attempts <= 1 /\ ~x.enabled /\ x.reset = "none"
      BY <2>3, <2>5, <2>7, Constants DEF Starting
    <3> QED  BY <1>3, <2>1, <3>1, <3>2, FailedIs
  <2>8. CASE Low(s) /\ s.enabled /\ s.uhaddr = 0 /\ One(s.queue, 0, "step6")
    <3>1. end = "step6" /\ Null(x.queue)
      BY <2>2, <2>8
    <3>2. Calm(s)
      BY <1>2, <2>1, <2>8 DEF Low
    <3>3. /\ Enumerating(x) /\ Calm(x) /\ x.address = 0 /\ x.uhaddr = 0 /\ x.conf_desc = "NULL"
          /\ x.address # NOT_VALID /\ x.reset = "none" /\ x.timer = "none"
      BY <2>3, <2>4, <2>5, <2>8, <3>2, Constants DEF Low, Calm
    <3>4. CASE status = "NOERROR"
      <4>1. c = [x EXCEPT !.timer = "step7"]
        BY <2>6, <3>1, <3>4 DEF NextStep
      <4> QED  BY <1>3, <3>1, <3>3, <4>1, DelayBegun
    <3>5. CASE status # "NOERROR"
      BY <1>3, <2>1, <3>1, <3>3, <3>5, FailedIs
    <3> QED  BY <3>4, <3>5
  <2>9. CASE High(s) /\ s.enabled /\ s.uhaddr = 0 /\ One(s.queue, 0, "step10")
    <3>1. end = "step10" /\ Null(x.queue)
      BY <2>2, <2>9
    <3>2. Calm(s)
      BY <1>2, <2>1, <2>9 DEF High, Calm
    <3>3. /\ Enumerating(x) /\ Calm(x) /\ x.address = DEVICE_ADD /\ x.uhaddr = 0
          /\ x.conf_desc = "NULL"
          /\ x.address # NOT_VALID /\ x.reset = "none" /\ x.timer = "none"
      BY <2>3, <2>4, <2>5, <2>9, <3>2, Constants DEF High, Calm
    <3>4. CASE status = "NOERROR"
      <4>1. c = [x EXCEPT !.timer = "step11"]
        BY <2>6, <3>1, <3>4 DEF NextStep
      <4> QED  BY <1>3, <3>1, <3>3, <4>1, DelayBegun
    <3>5. CASE status # "NOERROR"
      BY <1>3, <2>1, <3>1, <3>3, <3>5, FailedIs
    <3> QED  BY <3>4, <3>5
  <2>10. CASE Configuring(s) /\ s.enabled /\ s.uhaddr = DEVICE_ADD
    <3>1. /\ Null(x.queue)
          /\ \/ end = "step12" /\ s.conf_desc = "NULL"
             \/ end = "step13" /\ s.conf_desc = "held"
             \/ end = "step14" /\ s.conf_desc = "held"
             \/ end = "step15" /\ s.conf_desc = "held" /\ s.dev /\ s.endpoints
      BY <2>2, <2>10 DEF Configuring
    <3>2. Enumerating(s) /\ Calm(s) /\ s.address = DEVICE_ADD
      BY <2>10 DEF Configuring
    <3>3. Working(x)
      BY <1>3, <2>3, <2>4, <2>5, <2>10, <3>1, <3>2 DEF Working
    <3>4. CASE status = "NOERROR"
      <4>1. CASE end = "step12" /\ s.conf_desc = "NULL"
        <5>1. c = step12(x, outcome)
          BY <2>6, <3>4, <4>1 DEF NextStep
        <5> QED  BY <2>5, <3>3, <4>1, <5>1, Step12Is
      <4>2. CASE end = "step13" /\ s.conf_desc = "held"
        <5>1. c = step13(x, outcome)
          BY <2>6, <3>4, <4>2 DEF NextStep
        <5> QED  BY <2>5, <3>3, <4>2, <5>1, Step13Is
      <4>3. CASE end = "step14" /\ s.conf_desc = "held"
        <5>1. c = step14(x, outcome)
          BY <2>6, <3>4, <4>3 DEF NextStep
        <5> QED  BY <2>5, <3>3, <4>3, <5>1, Step14Is
      <4>4. CASE end = "step15" /\ s.conf_desc = "held" /\ s.dev /\ s.endpoints
        <5>1. c = step15(x)
          BY <2>6, <3>4, <4>4 DEF NextStep
        <5> QED  BY <2>5, <3>3, <4>4, <5>1, Step15Is
      <4> QED  BY <3>1, <4>1, <4>2, <4>3, <4>4
    <3>5. CASE status # "NOERROR"
      <4>1. x.reset = "none" /\ x.timer = "none" /\ x.address # NOT_VALID
        BY <3>3, Constants DEF Working, Calm
      <4>2. Enumerating(x) /\ Null(x.queue)
        BY <3>3 DEF Working
      <4> QED  BY <1>3, <2>1, <3>5, <4>1, <4>2, FailedIs
    <3> QED  BY <3>4, <3>5
  <2> QED  BY <1>1, <2>1, <2>7, <2>8, <2>9, <2>10, PhaseOne
<1> QED  BY <1>4, <1>5

LEMMA Ended ==
    ASSUME NEW s, Sound(s), InPhase(s), s.reset = "none", s.queue # <<>>, NEW outcome,
           NEW status \in {"NOERROR", "TIMEOUT", "FAIL"}, status = "NOERROR" => s.enabled,
           NEW n, n = uhd_ctrl_request_end(s, status, outcome)
    PROVE  Sound(n) /\ InPhase(n)
<1>1. PICK x : x = [s EXCEPT !.queue = Tail(s.queue)]
  OBVIOUS
<1>2. PICK called : called = CalledBack(x, Head(s.queue).end, status, outcome)
  OBVIOUS
<1>3. PICK next : next = IF called.queue = <<>> THEN called ELSE Started(called)
  OBVIOUS
<1>4. n = IF next.requested /\ next.queue = <<>>
          THEN Suspended([next EXCEPT !.requested = FALSE]) ELSE next
  BY <1>1, <1>2, <1>3 DEF uhd_ctrl_request_end
<1>5. Held(called) /\ InPhase(called)
  BY <1>1, <1>2, CalledBackIs
<1>6. Sound(next) /\ InPhase(next)
  BY <1>3, <1>5, Settled
<1>7. SameDevice(n, next) /\ n.queue = next.queue
  BY <1>4, <1>6, NextIs DEF Sound, Held
<1>8. Follows(n, next)
  BY <1>7 DEF Follows, SameDevice, Same
<1>9. InPhase(n)
  BY <1>6, <1>8, PhaseKept DEF Sound, Held
<1>10. Held(n)
  BY <1>6, <1>7, HeldKept DEF Sound
<1>11. n.uhaddr = DEVICE_ADD /\ n.address # DEVICE_ADD => n.queue = <<>>
  BY <1>6, <1>7 DEF Sound, SameDevice, Same
<1> QED  BY <1>9, <1>10, <1>11 DEF Sound

----------------------------------------------------------------------------
(* The delays *)

(* uhd_ep_free(add, 0xFF) when nothing runs on pipe 0, or on the pipe of that address *)
LEMMA PipeFree ==
    ASSUME NEW s \in State, NEW add \in {0, DEVICE_ADD, NOT_VALID},
           s.uhaddr = add \/ (s.queue = <<>> /\ ~s.enabled), NEW f, f = uhd_ep_free(s, add)
    PROVE  /\ Drained(f, s) /\ ~f.enabled
           /\ f.endpoints => s.endpoints /\ add # DEVICE_ADD
<1>1. CASE s.uhaddr = add
  BY <1>1, PipeFreed
<1>2. CASE s.uhaddr # add /\ s.queue = <<>> /\ ~s.enabled
  <2>1. f = Freed(s, add)
    BY <1>2 DEF uhd_ep_free
  <2>2. /\ Same(f, s) /\ f.queue = s.queue /\ f.enum_try = s.enum_try /\ (f.dev <=> s.dev)
        /\ (f.main_b_usb_dev <=> s.main_b_usb_dev) /\ (f.enabled => s.enabled)
        /\ (f.endpoints => s.endpoints /\ add # DEVICE_ADD)
    BY <2>1, FreedIs
  <2> QED  BY <1>2, <2>2 DEF Drained, Tried
<1> QED  BY <1>1, <1>2

(* Pipe 0 is allocated, with nothing in the queue, and asks for the step's descriptor. *)
LEMMA AllocIs ==
    ASSUME NEW f, Held(f), Enumerating(f), Calm(f), f.queue = <<>>, f.conf_desc = "NULL",
           NEW add, NEW end,
           \/ add = 0 /\ end = "step6" /\ f.address = 0
           \/ add = 0 /\ end = "step10" /\ f.address = DEVICE_ADD
           \/ add = DEVICE_ADD /\ end = "step12" /\ f.address = DEVICE_ADD,
           NEW outcome, NEW n, n = Requested(uhd_ep0_alloc(f, add), add, end, outcome)
    PROVE  Sound(n) /\ InPhase(n)
<1>1. f \in State /\ f.address \in {0, DEVICE_ADD} /\ add \in {0, DEVICE_ADD} /\ end \in EndSteps
  BY DEF Held, EndSteps
<1>2. PICK a : a = uhd_ep0_alloc(f, add)
  OBVIOUS
<1>3. a = [f EXCEPT !.enabled = TRUE, !.uhaddr = add]
  BY <1>2 DEF uhd_ep0_alloc
<1>4. a \in State /\ a.enabled /\ a.uhaddr = add
  BY <1>1, <1>3 DEF State
<1>5. /\ a.address = f.address /\ a.timer = f.timer /\ a.enum_try = f.enum_try
      /\ a.reset = f.reset /\ a.status = f.status /\ a.queue = f.queue
      /\ a.conf_desc = f.conf_desc /\ a.heap = f.heap /\ a.attempts = f.attempts
      /\ (a.endpoints <=> f.endpoints) /\ (a.dev <=> f.dev)
      /\ (a.main_b_usb_dev <=> f.main_b_usb_dev)
  BY <1>1, <1>3 DEF State
<1>6. 0 # DEVICE_ADD /\ 0 # NOT_VALID /\ DEVICE_ADD # NOT_VALID
  BY Constants
<1>7. Held(a)
  BY <1>4, <1>5, <1>6 DEF Held
<1>8. Enumerating(a) /\ Calm(a) /\ Null(a.queue) /\ a.address # NOT_VALID
  BY <1>1, <1>5, <1>6 DEF Enumerating, Calm, Null
<1>9. \/ Held(n) /\ InPhase(n) /\ n.queue = a.queue
      \/ SameDevice(n, a) /\ One(n.queue, add, end)
  BY <1>1, <1>2, <1>4, <1>7, <1>8, RequestedIs
<1>10. CASE Held(n) /\ InPhase(n) /\ n.queue = a.queue
  BY <1>5, <1>10 DEF Sound
<1>11. CASE SameDevice(n, a) /\ One(n.queue, add, end)
  <2>1. Held(n)
    BY <1>7, <1>11, HeldKept
  <2>2. /\ n.address = f.address /\ n.uhaddr = add /\ n.conf_desc = "NULL" /\ n.enabled
        /\ Enumerating(n) /\ Calm(n)
    BY <1>4, <1>5, <1>8, <1>11 DEF SameDevice, Same, Enumerating, Calm
  <2>3. Sound(n)
    BY <1>6, <2>1, <2>2 DEF Sound
  <2>4. CASE add = 0 /\ end = "step6" /\ f.address = 0
    BY <1>11, <2>2, <2>3, <2>4 DEF InPhase, Low
  <2>5. CASE add = 0 /\ end = "step10" /\ f.address = DEVICE_ADD
    BY <1>11, <2>2, <2>3, <2>5 DEF InPhase, High, Calm
  <2>6. CASE add = DEVICE_ADD /\ end = "step12" /\ f.address = DEVICE_ADD
    BY <1>11, <2>2, <2>3, <2>6 DEF InPhase, Configuring
  <2> QED  BY <2>4, <2>5, <2>6
<1> QED  BY <1>9, <1>10, <1>11

LEMMA SmallIs ==
    ASSUME NEW f, Held(f), Enumerating(f), Calm(f), f.queue = <<>>, f.address # NOT_VALID,
           NEW n, n = uhc_enumeration_error(f, "HARDWARE_LIMIT")
    PROVE  Sound(n) /\ InPhase(n)
<1>1. Before(f) /\ "HARDWARE_LIMIT" \in EnumStatus \ {"SUCCESS"}
  BY DEF Before, Calm, EnumStatus, Null
<1> QED  BY <1>1, ErrorIs DEF Sound

LEMMA DelayedIs ==
    ASSUME NEW s, Sound(s), InPhase(s), s.reset = "none", s.timer # "none", NEW outcome,
           NEW n, n = DelayOver(s, outcome)
    PROVE  Sound(n) /\ InPhase(n)
<1>1. s \in State /\ Held(s)
  BY DEF Sound, Held
<1>2. PICK t : t = [s EXCEPT !.timer = "none"]
  OBVIOUS
<1>3. t \in State /\ t.timer = "none"
  BY <1>1, <1>2 DEF State
<1>4. /\ t.address = s.address /\ t.enum_try = s.enum_try /\ t.reset = s.reset
      /\ t.uhaddr = s.uhaddr /\ t.status = s.status /\ t.queue = s.queue
      /\ t.conf_desc = s.conf_desc /\ t.heap = s.heap /\ t.attempts = s.attempts
      /\ (t.enabled <=> s.enabled) /\ (t.endpoints <=> s.endpoints)
      /\ (t.dev <=> s.dev) /\ (t.main_b_usb_dev <=> s.main_b_usb_dev)
  BY <1>1, <1>2 DEF State
<1>5. 0 # DEVICE_ADD /\ 0 # NOT_VALID /\ DEVICE_ADD # NOT_VALID
      /\ 0 \in {0, DEVICE_ADD, NOT_VALID}
  BY Constants
<1>6. (Starting(s) /\ s.timer \in {"step3", "step5"} /\ ~s.enabled)
      \/ (Low(s) /\ s.timer \in {"step7", "step9"} /\ Null(s.queue))
      \/ (High(s) /\ s.timer = "step11" /\ Null(s.queue))
  BY DEF InPhase, Starting, Low, High, Configuring, Ready, Failed, Calm
<1>7. CASE s.timer \in {"step3", "step7"}
  <2>1. PICK reset : reset = IF s.timer = "step3" THEN "step4" ELSE "step8"
    OBVIOUS
  <2>2. n = [t EXCEPT !.reset = reset]
    BY <1>2, <1>7, <2>1 DEF DelayOver
  <2>3. n \in State /\ n.reset = reset
    BY <1>3, <2>1, <2>2 DEF State
  <2>4. /\ n.address = t.address /\ n.enum_try = t.enum_try /\ n.timer = t.timer
        /\ n.uhaddr = t.uhaddr /\ n.status = t.status /\ n.queue = t.queue
        /\ n.conf_desc = t.conf_desc /\ n.heap = t.heap /\ n.attempts = t.attempts
        /\ (n.enabled <=> t.enabled) /\ (n.endpoints <=> t.endpoints)
        /\ (n.dev <=> t.dev) /\ (n.main_b_usb_dev <=> t.main_b_usb_dev)
    BY <1>3, <2>2 DEF State
  <2>5. Sound(n)
    BY <1>1, <1>4, <2>3, <2>4 DEF Sound, Held
  <2>6. Enumerating(s) => Enumerating(n)
    BY <1>4, <2>4 DEF Enumerating
  <2>7. CASE s.timer = "step3"
    <3>1. Starting(s) /\ reset = "step4"
      BY <1>6, <2>1, <2>7
    <3>2. Starting(n)
      BY <1>4, <2>3, <2>4, <2>6, <3>1 DEF Starting, Stale
    <3> QED  BY <2>5, <3>2 DEF InPhase
  <2>8. CASE s.timer = "step7"
    <3>1. Low(s) /\ Null(s.queue) /\ reset = "step8"
      BY <1>6, <2>1, <2>8
    <3>2. Low(n)
      BY <1>4, <2>3, <2>4, <2>6, <3>1 DEF Low
    <3> QED  BY <2>5, <3>2 DEF InPhase
  <2> QED  BY <1>7, <2>7, <2>8
<1>8. CASE s.timer = "step5"
  <2>1. PICK f : f = uhd_ep_free(t, 0)
    OBVIOUS
  <2>2. n = Requested(uhd_ep0_alloc(f, 0), 0, "step6", outcome)
    BY <1>2, <1>8, <2>1 DEF DelayOver
  <2>3. Starting(s) /\ ~s.enabled
    BY <1>6, <1>8
  <2>4. s.address = 0 /\ s.conf_desc = "NULL" /\ Enumerating(s)
    BY <2>3 DEF Starting
  <2>5. t.uhaddr = 0 \/ (t.queue = <<>> /\ ~t.enabled)
    <3>1. t.uhaddr \in {0, DEVICE_ADD}
      BY <1>3 DEF State
    <3>2. s.uhaddr = DEVICE_ADD /\ s.address # DEVICE_ADD => s.queue = <<>>
      BY DEF Sound
    <3> QED  BY <1>4, <1>5, <2>3, <2>4, <3>1, <3>2
  <2>6. Drained(f, t) /\ ~f.enabled /\ (f.endpoints => t.endpoints)
    BY <1>3, <1>5, <2>1, <2>5, PipeFree
  <2>7. \A i \in DOMAIN s.queue : s.queue[i].end # "step15"
    <3>1. CASE Null(s.queue)
      BY <3>1 DEF Null
    <3>2. CASE Stale(s)
      <4>1. "step10" \in EndSteps /\ s.queue \in Seq(Requests)
        BY <1>1 DEF EndSteps, State
      <4>2. \A i \in DOMAIN s.queue : s.queue[i].end \in {"step10", "NULL"}
        BY <3>2, <4>1, OneOnly DEF Stale
      <4> QED  BY <4>2
    <3> QED  BY <2>3, <3>1, <3>2 DEF Starting
  <2>8. /\ Same(f, t) /\ f.queue = <<>>
        /\ (f.dev <=> t.dev) /\ (f.main_b_usb_dev <=> t.main_b_usb_dev)
        /\ f.enum_try = t.enum_try \/ (f.enum_try = 0 /\ ~Null(t.queue))
    BY <1>4, <2>6, <2>7 DEF Drained, Tried
  <2>9. Held(f)
    BY <1>1, <1>4, <1>5, <2>4, <2>6, <2>8 DEF Held, Same
  <2>10. f.attempts <= f.enum_try + 1
    <3>1. CASE f.enum_try = t.enum_try
      BY <1>4, <2>4, <2>8, <3>1 DEF Enumerating, Same
    <3>2. CASE f.enum_try = 0 /\ ~Null(t.queue)
      <4>1. s.attempts = 1
        BY <1>4, <2>3, <3>2 DEF Starting
      <4> QED  BY <1>4, <2>8, <3>2, <4>1 DEF Same
    <3> QED  BY <2>8, <3>1, <3>2
  <2>11. Enumerating(f) /\ Calm(f) /\ f.conf_desc = "NULL" /\ f.address = 0
    BY <1>3, <1>4, <2>4, <2>8, <2>10 DEF Enumerating, Calm, Same
  <2> QED  BY <2>2, <2>8, <2>9, <2>11, AllocIs
<1>9. CASE s.timer \in {"step9", "step11"}
  <2>1. PICK t1 : t1 = IF s.timer = "step9" THEN [t EXCEPT !.address = DEVICE_ADD] ELSE t
    OBVIOUS
  <2>2. PICK f : f = uhd_ep_free(t1, 0)
    OBVIOUS
  <2>3. PICK add : add = IF s.timer = "step11" THEN DEVICE_ADD ELSE 0
    OBVIOUS
  <2>4. PICK end : end = IF s.timer = "step9" THEN "step10" ELSE "step12"
    OBVIOUS
  <2>5. n = IF outcome = "small" THEN uhc_enumeration_error(f, "HARDWARE_LIMIT")
            ELSE Requested(uhd_ep0_alloc(f, add), add, end, outcome)
    BY <1>2, <1>9, <2>1, <2>2, <2>3, <2>4 DEF DelayOver
  <2>6. /\ Null(s.queue) /\ Enumerating(s) /\ s.conf_desc = "NULL" /\ s.uhaddr = 0
        /\ s.timer = "step11" => s.address = DEVICE_ADD
        /\ s.timer = "step9" => s.address = 0
    BY <1>6, <1>9 DEF Low, High
  <2>7. t1 \in State /\ t1.timer = "none" /\ t1.address = DEVICE_ADD
    BY <1>3, <1>4, <1>9, <2>1, <2>6 DEF State
  <2>8. /\ t1.enum_try = s.enum_try /\ t1.reset = s.reset
        /\ t1.uhaddr = s.uhaddr /\ t1.status = s.status /\ t1.queue = s.queue
        /\ t1.conf_desc = s.conf_desc /\ t1.heap = s.heap /\ t1.attempts = s.attempts
        /\ (t1.dev <=> s.dev) /\ (t1.main_b_usb_dev <=> s.main_b_usb_dev)
    <3>1. CASE s.timer = "step9"
      BY <1>3, <1>4, <2>1, <3>1 DEF State
    <3>2. CASE s.timer # "step9"
      BY <1>4, <2>1, <3>2
    <3> QED  BY <3>1, <3>2
  <2>9. Drained(f, t1) /\ ~f.enabled
    BY <1>5, <2>2, <2>6, <2>7, <2>8, PipeFree
  <2>10. /\ Same(f, t1) /\ f.queue = <<>> /\ f.enum_try = s.enum_try
         /\ (f.dev <=> s.dev) /\ (f.main_b_usb_dev <=> s.main_b_usb_dev)
    BY <2>6, <2>8, <2>9 DEF Drained, Null
  <2>11. Held(f)
    BY <1>1, <2>7, <2>8, <2>10 DEF Held, Same
  <2>12. Enumerating(f) /\ Calm(f) /\ f.conf_desc = "NULL" /\ f.address = DEVICE_ADD
    BY <2>6, <2>7, <2>8, <2>10 DEF Enumerating, Calm, Same
  <2>13. CASE outcome = "small"
    BY <1>5, <2>5, <2>10, <2>11, <2>12, <2>13, SmallIs
  <2>14. CASE outcome # "small"
    BY <1>9, <2>3, <2>4, <2>5, <2>10, <2>11, <2>12, <2>14, AllocIs
  <2> QED  BY <2>13, <2>14
<1> QED  BY <1>6, <1>7, <1>8, <1>9

----------------------------------------------------------------------------
(* The steps of the bus and of the main loop *)

(* The heap is read, or the flags of the bus change. *)
LEMMA FlagsKept ==
    ASSUME NEW s, Sound(s), NEW t \in State, {"leak", "freed twice"} \cap t.heap = {},
           t.queue = s.queue, Follows(t, s)
    PROVE  Sound(t) /\ (InPhase(s) => InPhase(t)) /\ (Gone(s) => Gone(t))
<1>1. s \in State
  BY DEF Sound, Held
<1>2. InPhase(s) => InPhase(t)
  BY <1>1, PhaseKept
<1>3. Sound(t)
  BY DEF Sound, Held, Follows
<1>4. Gone(s) => Gone(t)
  BY DEF Gone, Stale, Calm, Follows
<1> QED  BY <1>2, <1>3, <1>4

Flagged(t, s) ==
    /\ t \in State
    /\ t = [s EXCEPT !.sof = t.sof, !.suspend = t.suspend, !.resume = t.resume,
                     !.requested = t.requested]

LEMMA FlagsAre ==
    ASSUME NEW s, Sound(s), NEW t, Flagged(t, s)
    PROVE  Sound(t) /\ (InPhase(s) => InPhase(t)) /\ (Gone(s) => Gone(t))
<1>1. s \in State
  BY DEF Sound, Held
<1>2. t \in State /\ t.queue = s.queue /\ t.heap = s.heap
  BY <1>1 DEF State, Flagged
<1>3. Follows(t, s)
  <2>1. PICK v : v = <<t.sof, t.suspend, t.resume, t.requested>>
    OBVIOUS
  <2>2. t = [s EXCEPT !.sof = v[1], !.suspend = v[2], !.resume = v[3], !.requested = v[4]]
    BY <2>1 DEF Flagged
  <2>3. /\ t.address = s.address /\ t.conf_desc = s.conf_desc /\ t.timer = s.timer
        /\ t.reset = s.reset /\ t.uhaddr = s.uhaddr /\ t.status = s.status
        /\ t.attempts = s.attempts /\ t.enum_try = s.enum_try
    BY <1>1, <2>2 DEF State
  <2>4. /\ (t.enabled <=> s.enabled) /\ (t.endpoints <=> s.endpoints)
        /\ (t.dev <=> s.dev) /\ (t.main_b_usb_dev <=> s.main_b_usb_dev)
    BY <1>1, <2>2 DEF State
  <2> QED  BY <1>2, <2>3, <2>4 DEF Follows
<1>4. {"leak", "freed twice"} \cap t.heap = {}
  BY <1>2 DEF Sound, Held
<1> QED  BY <1>2, <1>3, <1>4, FlagsKept

LEMMA WokenIs ==
    ASSUME NEW s, Sound(s), NEW outcome, NEW r, r = uhc_remotewakeup(s, outcome)
    PROVE  Sound(r) /\ (InPhase(s) => InPhase(r)) /\ (Gone(s) => Gone(r))
<1>1. PICK t : t = [s EXCEPT !.heap = IF s.conf_desc = "held" THEN s.heap ELSE s.heap \cup {"read"}]
  OBVIOUS
<1>2. s \in State
  BY DEF Sound, Held
<1>3. t \in State /\ t.queue = s.queue /\ t.address = s.address
      /\ t.heap \subseteq s.heap \cup {"read"}
  BY <1>1, <1>2 DEF State
<1>4. Follows(t, s)
  BY <1>1, <1>2 DEF State, Follows
<1>5. {"leak", "freed twice"} \cap t.heap = {}
  BY <1>3 DEF Sound, Held
<1>6. Sound(t) /\ (InPhase(s) => InPhase(t)) /\ (Gone(s) => Gone(t))
  BY <1>3, <1>4, <1>5, FlagsKept
<1>7. r = IF outcome = "wakeup" /\ s.address # NOT_VALID
          THEN uhd_setup_request(t, s.address, "NULL") ELSE t
  <2>1. t = [s EXCEPT !.heap = IF s.conf_desc = "held" THEN @ ELSE @ \cup {"read"}]
    BY <1>1
  <2> QED  BY <2>1 DEF uhc_remotewakeup
<1>8. CASE r = t
  BY <1>6, <1>8
<1>9. CASE s.address # NOT_VALID /\ r = uhd_setup_request(t, s.address, "NULL")
  <2>1. s.address \in {0, DEVICE_ADD}
    BY <1>2, <1>9 DEF State
  <2>2. /\ SameDevice(r, t)
        /\ Null(t.queue) => Null(r.queue)
        /\ \A add, end : One(t.queue, add, end) => One(r.queue, add, end)
        /\ t.queue = <<>> /\ ~t.enabled => r.queue = <<>>
    BY <1>3, <1>9, <2>1, SetupNull
  <2>3. Follows(r, t)
    BY <2>2 DEF Follows, SameDevice, Same
  <2>4. InPhase(t) => InPhase(r)
    BY <1>3, <2>3, PhaseKept
  <2>5. Held(r)
    BY <1>6, <2>2, HeldKept DEF Sound
  <2>6. r.uhaddr = DEVICE_ADD /\ r.address # DEVICE_ADD => r.queue = <<>>
    BY <1>6, <2>2 DEF Sound, Held, SameDevice, Same
  <2>7. ~Gone(s)
    BY <1>9 DEF Gone
  <2> QED  BY <1>6, <2>4, <2>5, <2>6, <2>7 DEF Sound
<1> QED  BY <1>7, <1>8, <1>9

LEMMA ResetIs ==
    ASSUME NEW s, Sound(s), InPhase(s), s.reset # "none", NEW n, n = ResetDone(s)
    PROVE  Sound(n) /\ InPhase(n)
<1>1. s \in State
  BY DEF Sound, Held
<1>2. (Starting(s) /\ s.reset \in {"step2", "step4"}) \/ (Low(s) /\ s.reset = "step8" /\ Null(s.queue))
  BY DEF InPhase, Starting, Low, High, Configuring, Ready, Failed, Calm
<1>3. PICK timer \in {"step3", "step5", "step9"} :
        /\ n = [s EXCEPT !.reset = "none", !.enabled = FALSE, !.timer = timer]
        /\ s.reset = "step8" <=> timer = "step9"
  BY <1>2 DEF ResetDone
<1>4. n \in State /\ n.reset = "none" /\ ~n.enabled /\ n.timer = timer
  BY <1>1, <1>3 DEF State
<1>5. /\ n.address = s.address /\ n.enum_try = s.enum_try
      /\ n.uhaddr = s.uhaddr /\ n.status = s.status /\ n.queue = s.queue
      /\ n.conf_desc = s.conf_desc /\ n.heap = s.heap /\ n.attempts = s.attempts
      /\ (n.endpoints <=> s.endpoints)
      /\ (n.dev <=> s.dev) /\ (n.main_b_usb_dev <=> s.main_b_usb_dev)
  BY <1>1, <1>3 DEF State
<1>6. Sound(n)
  BY <1>4, <1>5 DEF Sound, Held
<1>7. Enumerating(s) => Enumerating(n)
  BY <1>5 DEF Enumerating
<1>8. CASE Starting(s) /\ s.reset \in {"step2", "step4"}
  <2>1. timer \in {"step3", "step5"}
    BY <1>3, <1>8
  <2>2. Starting(n)
    BY <1>4, <1>5, <1>7, <1>8, <2>1 DEF Starting, Stale
  <2> QED  BY <1>6, <2>2 DEF InPhase
<1>9. CASE Low(s) /\ s.reset = "step8" /\ Null(s.queue)
  <2>1. Low(n)
    BY <1>3, <1>4, <1>5, <1>7, <1>9 DEF Low
  <2> QED  BY <1>6, <2>1 DEF InPhase
<1> QED  BY <1>2, <1>8, <1>9

(* A device is plugged in: the enumeration begins. *)
LEMMA PluggedIs ==
    ASSUME NEW s, Sound(s), Gone(s), NEW n, n = Plugged(s)
    PROVE  Sound(n) /\ InPhase(n)
<1>1. s \in State
  BY DEF Sound, Held
<1>2. PICK y : y = [s EXCEPT !.enum_try = 1, !.conf_desc = "NULL", !.address = 0,
                              !.done = FALSE, !.attempts = 0]
  OBVIOUS
<1>3. 1 \in 0 .. UHC_ENUM_NB_TRY /\ 1 <= UHC_ENUM_NB_TRY + 1 /\ 0 \in Nat
  BY UhcAssumption DEF UhcAssumption
<1>4. y \in State /\ y.attempts = 0 /\ y.enum_try = 1 /\ y.conf_desc = "NULL" /\ y.address = 0
  BY <1>1, <1>2, <1>3 DEF State
<1>5. /\ y.timer = s.timer /\ y.uhaddr = s.uhaddr /\ y.status = s.status /\ y.queue = s.queue
      /\ y.heap = s.heap /\ (y.enabled <=> s.enabled) /\ (y.endpoints <=> s.endpoints)
      /\ (y.dev <=> s.dev) /\ (y.main_b_usb_dev <=> s.main_b_usb_dev)
  BY <1>1, <1>2 DEF State
<1>6. n = [y EXCEPT !.reset = "step2", !.attempts = 1]
  BY <1>2, <1>4 DEF Plugged, step1
<1>7. /\ n \in State /\ n.enum_try = 1 /\ n.conf_desc = "NULL" /\ n.address = 0 /\ n.attempts = 1
      /\ n.reset = "step2"
  <2>1. 1 \in Nat
    OBVIOUS
  <2>2. n \in State
    BY <1>4, <1>6, <2>1 DEF State
  <2> QED  BY <1>4, <1>6, <2>2 DEF State
<1>8. /\ n.timer = s.timer /\ n.uhaddr = s.uhaddr /\ n.status = s.status /\ n.queue = s.queue
      /\ n.heap = s.heap /\ (n.enabled <=> s.enabled) /\ (n.endpoints <=> s.endpoints)
      /\ (n.dev <=> s.dev) /\ (n.main_b_usb_dev <=> s.main_b_usb_dev)
  <2>1. /\ n.timer = y.timer /\ n.uhaddr = y.uhaddr /\ n.status = y.status
        /\ n.queue = y.queue /\ n.heap = y.heap
    BY <1>4, <1>6 DEF State
  <2>2. /\ (n.enabled <=> y.enabled) /\ (n.endpoints <=> y.endpoints)
        /\ (n.dev <=> y.dev) /\ (n.main_b_usb_dev <=> y.main_b_usb_dev)
    BY <1>4, <1>6 DEF State
  <2> QED  BY <1>5, <2>1, <2>2
<1>9. s.address # DEVICE_ADD
  BY Constants DEF Gone
<1>10. Sound(n)
  BY <1>3, <1>7, <1>8, <1>9 DEF Sound, Held, Gone
<1>11. Enumerating(n)
  BY <1>7, <1>8 DEF Enumerating, Gone
<1>12. Starting(n)
  BY <1>7, <1>8, <1>11 DEF Starting, Stale, Gone
<1> QED  BY <1>10, <1>12 DEF InPhase

(* What is true of a device in any phase, and still when its timer and its reset stop *)
Present(s) ==
    /\ Sound(s) /\ s.address \in {0, DEVICE_ADD} /\ s.conf_desc # "freed"
    /\ s.uhaddr # s.address => Null(s.queue) \/ Stale(s)

LEMMA PresentIs ==
    ASSUME NEW s, Sound(s), InPhase(s)
    PROVE  Present(s)
<1>1. s \in State
  BY DEF Sound, Held
<1>2. s.address \in {0, DEVICE_ADD}
  BY <1>1, Constants
     DEF InPhase, Starting, Low, High, Configuring, Ready, Failed, State
<1>3. s.conf_desc # "freed"
  BY DEF InPhase, Starting, Low, High, Configuring, Ready, Failed, Enumerating
<1>4. s.uhaddr # s.address => Null(s.queue) \/ Stale(s)
  BY <1>1, PhaseOne DEF Low, High, Configuring, Stale
<1> QED  BY <1>2, <1>3, <1>4 DEF Present

(* The pipes are freed, when nothing waits for pipe 0 or what waits has its address. *)
LEMMA UnpluggedPipes ==
    ASSUME NEW s, Present(s), NEW f, f = uhd_ep_free(s, s.address)
    PROVE  /\ Same(f, s) /\ ~f.endpoints /\ (f.main_b_usb_dev => f.dev)
           /\ s.uhaddr = DEVICE_ADD => f.queue = <<>> /\ ~f.enabled
           /\ Null(f.queue) \/ (One(f.queue, 0, "step10") /\ s.uhaddr = 0)
<1>1. s \in State /\ s.uhaddr \in {0, DEVICE_ADD}
  BY DEF Present, Sound, Held, State
<1>2. s.address \in {0, DEVICE_ADD} /\ s.address \in {0, DEVICE_ADD, NOT_VALID}
  BY DEF Present
<1>3. (s.main_b_usb_dev => s.dev) /\ (s.endpoints => s.address = DEVICE_ADD)
  BY DEF Present, Sound, Held
<1>4. CASE s.uhaddr = s.address
  <2>1. Drained(f, s) /\ ~f.enabled /\ (f.endpoints => s.endpoints /\ s.address # DEVICE_ADD)
    BY <1>1, <1>2, <1>4, PipeFreed
  <2> QED  BY <1>3, <2>1 DEF Drained, Null
<1>5. CASE s.uhaddr # s.address
  <2>1. f = Freed(s, s.address)
    BY <1>5 DEF uhd_ep_free
  <2>2. /\ Same(f, s) /\ f.queue = s.queue /\ (f.dev <=> s.dev)
        /\ (f.main_b_usb_dev <=> s.main_b_usb_dev) /\ (f.enabled => s.enabled)
        /\ (f.endpoints => s.endpoints /\ s.address # DEVICE_ADD)
    BY <1>1, <1>2, <2>1, FreedIs
  <2>3. s.uhaddr = DEVICE_ADD => s.queue = <<>> /\ ~s.enabled
    BY <1>5 DEF Present, Sound, Held
  <2>4. Null(s.queue) \/ (One(s.queue, 0, "step10") /\ s.uhaddr = 0)
    BY <1>5 DEF Present, Stale
  <2> QED  BY <1>3, <2>2, <2>3, <2>4
<1> QED  BY <1>4, <1>5

(* The device is unplugged: it leaves no more than the request of step9. *)
LEMMA UnpluggedIs ==
    ASSUME NEW s, Present(s), s.reset = "none", NEW n, n = Unplugged(s)
    PROVE  Sound(n) /\ Gone(n)
<1>1. s \in State
  BY DEF Present, Sound, Held
<1>2. PICK t : t = [s EXCEPT !.timer = "none"]
  OBVIOUS
<1>3. t \in State /\ t.timer = "none" /\ Present(t)
  <2>1. t \in State /\ t.timer = "none"
    BY <1>1, <1>2 DEF State
  <2>2. /\ t.address = s.address /\ t.enum_try = s.enum_try /\ t.reset = s.reset
        /\ t.uhaddr = s.uhaddr /\ t.queue = s.queue
        /\ t.conf_desc = s.conf_desc /\ t.heap = s.heap /\ t.attempts = s.attempts
        /\ (t.enabled <=> s.enabled) /\ (t.endpoints <=> s.endpoints)
        /\ (t.dev <=> s.dev) /\ (t.main_b_usb_dev <=> s.main_b_usb_dev)
    BY <1>1, <1>2 DEF State
  <2> QED  BY <2>1, <2>2 DEF Present, Sound, Held, Stale
<1>4. t.heap = s.heap /\ t.reset = "none"
  BY <1>1, <1>2 DEF State
<1>5. PICK f : f = uhd_ep_free(t, t.address)
  OBVIOUS
<1>6. /\ Same(f, t) /\ ~f.endpoints /\ (f.main_b_usb_dev => f.dev)
      /\ t.uhaddr = DEVICE_ADD => f.queue = <<>> /\ ~f.enabled
      /\ Null(f.queue) \/ (One(f.queue, 0, "step10") /\ t.uhaddr = 0)
  BY <1>3, <1>5, UnpluggedPipes
<1>7. PICK v : v = uhi_vendor_uninstall(f)
  OBVIOUS
<1>8. /\ Same(v, f) /\ v.queue = f.queue /\ (v.enabled <=> f.enabled)
      /\ (v.endpoints <=> f.endpoints) /\ ~v.dev /\ ~v.main_b_usb_dev
  <2>1. f \in State /\ (f.main_b_usb_dev => f.dev)
    BY <1>6 DEF Same
  <2> QED  BY <1>7, <2>1, UninstalledIs
<1>9. v \in State /\ v.conf_desc \in {"NULL", "held"}
  <2>1. v \in State /\ v.conf_desc = t.conf_desc /\ t.conf_desc # "freed"
    BY <1>3, <1>6, <1>8 DEF Same, Present
  <2> QED  BY <2>1 DEF State
<1>10. PICK w : w = Released(v, "freed")
  OBVIOUS
<1>11. \E desc \in {"NULL", "freed"} : w = [v EXCEPT !.conf_desc = desc]
  <2>1. CASE v.conf_desc = "NULL"
    <3>1. w = [v EXCEPT !.conf_desc = "NULL"]
      BY <1>9, <1>10, <2>1 DEF Released, State
    <3> QED  BY <3>1
  <2>2. CASE v.conf_desc = "held"
    <3>1. w = [v EXCEPT !.conf_desc = "freed"]
      BY <1>9, <1>10, <2>2 DEF Released, State
    <3> QED  BY <3>1
  <2> QED  BY <1>9, <2>1, <2>2
<1>12. PICK desc \in {"NULL", "freed"} : w = [v EXCEPT !.conf_desc = desc]
  BY <1>11
<1>13. n = [w EXCEPT !.status = "DISCONNECT", !.done = TRUE, !.address = NOT_VALID]
  BY <1>2, <1>5, <1>7, <1>10 DEF Unplugged
<1>14. w \in State /\ w.conf_desc = desc
  BY <1>9, <1>12 DEF State
<1>15. /\ w.timer = v.timer /\ w.reset = v.reset /\ w.uhaddr = v.uhaddr /\ w.queue = v.queue
       /\ w.heap = v.heap /\ w.attempts = v.attempts
       /\ (w.enabled <=> v.enabled) /\ (w.endpoints <=> v.endpoints)
       /\ (w.dev <=> v.dev) /\ (w.main_b_usb_dev <=> v.main_b_usb_dev)
  BY <1>9, <1>12 DEF State
<1>16. n \in State /\ n.address = NOT_VALID /\ n.status = "DISCONNECT"
  BY <1>13, <1>14 DEF State, EnumStatus
<1>17. /\ n.timer = w.timer /\ n.reset = w.reset /\ n.uhaddr = w.uhaddr /\ n.queue = w.queue
       /\ n.heap = w.heap /\ n.attempts = w.attempts /\ n.conf_desc = desc
       /\ (n.enabled <=> w.enabled) /\ (n.endpoints <=> w.endpoints)
       /\ (n.dev <=> w.dev) /\ (n.main_b_usb_dev <=> w.main_b_usb_dev)
  BY <1>13, <1>14 DEF State
<1>18. /\ n.timer = "none" /\ n.reset = "none" /\ n.uhaddr = t.uhaddr /\ n.queue = f.queue
       /\ n.heap = s.heap /\ n.attempts = t.attempts /\ (n.enabled <=> f.enabled)
       /\ ~n.endpoints /\ ~n.dev /\ ~n.main_b_usb_dev
  BY <1>3, <1>4, <1>6, <1>8, <1>15, <1>17 DEF Same
<1>19. t.attempts <= UHC_ENUM_NB_TRY + 1 /\ {"leak", "freed twice"} \cap s.heap = {}
  BY <1>3, <1>4 DEF Present, Sound, Held
<1>20. Sound(n)
  BY <1>6, <1>16, <1>18, <1>19 DEF Sound, Held
<1>21. Gone(n)
  BY <1>6, <1>16, <1>17, <1>18 DEF Gone, Calm, Stale
<1> QED  BY <1>20, <1>21

----------------------------------------------------------------------------
(* The invariant *)

LEMMA InitInv == Init => IInv
<1> SUFFICES ASSUME Init PROVE IInv
  OBVIOUS
<1>1. u \in State
  BY Zero DEF Init, State, EnumStatus
<1>2. /\ u.address = NOT_VALID /\ u.conf_desc = "NULL" /\ u.timer = "none" /\ u.reset = "none"
      /\ u.queue = <<>> /\ u.uhaddr = 0 /\ u.status = "DISCONNECT" /\ u.attempts = 0
      /\ u.heap = {} /\ ~u.dev /\ ~u.main_b_usb_dev /\ ~u.endpoints /\ ~u.enabled
  BY DEF Init
<1>3. 0 <= UHC_ENUM_NB_TRY + 1
  BY UhcAssumption DEF UhcAssumption
<1>4. Sound(u)
  BY <1>1, <1>2, <1>3 DEF Sound, Held
<1>5. Gone(u)
  BY <1>2 DEF Gone, Calm, Null
<1> QED  BY <1>4, <1>5 DEF Init, IInv, Phase

LEMMA NextInv == IInv /\ [Next]_vars => IInv'
<1> SUFFICES ASSUME IInv, [Next]_vars PROVE IInv'
  OBVIOUS
<1>1. /\ connected \in BOOLEAN /\ pc \in {"idle", "suspend", "delay", "freeze"}
      /\ Sound(u) /\ Phase(u) /\ u \in State
  BY DEF IInv, Sound, Held
<1>2. ASSUME BusUnchanged, Sofs, Sound(u') /\ (InPhase(u) => InPhase(u'))
      PROVE  IInv'
  BY <1>1, <1>2 DEF BusUnchanged, Sofs, IInv, Phase
<1>3. Sofs => InPhase(u) /\ u.reset = "none"
  BY <1>1 DEF Sofs, Phase
<1>4. ASSUME connected' = connected, pc' \in {"idle", "suspend", "delay", "freeze"},
             Sound(u'), InPhase(u) => InPhase(u'), Gone(u) => Gone(u')
      PROVE  IInv'
  BY <1>1, <1>4 DEF IInv, Phase
<1>5. CASE ResetSent
  <2>1. InPhase(u) /\ u.reset # "none" /\ u' = ResetDone(u)
    BY <1>1, <1>5 DEF ResetSent, Phase
  <2>2. Sound(u') /\ InPhase(u')
    BY <1>1, <2>1, ResetIs
  <2> QED  BY <1>1, <1>5, <2>2 DEF ResetSent, BusUnchanged, IInv, Phase
<1>6. CASE SofDelay
  <2>1. PICK outcome \in Outcome : u' = DelayOver(u, outcome)
    BY <1>6 DEF SofDelay
  <2>2. InPhase(u) /\ u.reset = "none" /\ u.timer # "none"
    BY <1>3, <1>6 DEF SofDelay, Idle
  <2>3. Sound(u') /\ InPhase(u')
    BY <1>1, <2>1, <2>2, DelayedIs
  <2> QED  BY <1>2, <1>6, <2>3 DEF SofDelay, Idle
<1>7. CASE SofTimeout
  <2>1. InPhase(u) /\ u.reset = "none" /\ u.queue # <<>>
    BY <1>3, <1>7 DEF SofTimeout, Idle
  <2>2. u' = uhd_ctrl_request_end(u, "TIMEOUT", "none")
    BY <1>7 DEF SofTimeout
  <2>3. Sound(u') /\ InPhase(u')
    BY <1>1, <2>1, <2>2, Ended
  <2> QED  BY <1>2, <1>7, <2>3 DEF SofTimeout, Idle
<1>8. CASE DeviceAnswers
  <2>1. PICK status \in {"NOERROR", "FAIL"}, outcome \in Outcome :
            u' = uhd_ctrl_request_end(u, status, outcome)
    BY <1>8 DEF DeviceAnswers
  <2>2. InPhase(u) /\ u.reset = "none" /\ u.queue # <<>> /\ u.enabled
    BY <1>3, <1>8 DEF DeviceAnswers
  <2>3. Sound(u') /\ InPhase(u')
    BY <1>1, <2>1, <2>2, Ended
  <2> QED  BY <1>2, <1>8, <2>3 DEF DeviceAnswers
<1>9. CASE SofSuspend
  <2>1. Flagged(u', u)
    BY <1>1, <1>9 DEF SofSuspend, Flagged, State
  <2>2. Sound(u') /\ (InPhase(u) => InPhase(u'))
    BY <1>1, <2>1, FlagsAre
  <2> QED  BY <1>2, <1>9, <2>2 DEF SofSuspend
<1>10. CASE Wakeup
  <2>1. Flagged(u', u)
    BY <1>1, <1>10 DEF Wakeup, Flagged, State
  <2>2. Sound(u') /\ (InPhase(u) => InPhase(u')) /\ (Gone(u) => Gone(u'))
    BY <1>1, <2>1, FlagsAre
  <2> QED  BY <1>1, <1>4, <1>10, <2>2 DEF Wakeup, BusUnchanged
<1>11. CASE SofResume
  <2>1. PICK outcome \in Outcome : u' = uhc_remotewakeup([u EXCEPT !.resume = FALSE], outcome)
    BY <1>11 DEF SofResume
  <2>2. PICK s : s = [u EXCEPT !.resume = FALSE]
    OBVIOUS
  <2>3. Flagged(s, u)
    BY <1>1, <2>2 DEF Flagged, State
  <2>4. Sound(s) /\ (InPhase(u) => InPhase(s))
    BY <1>1, <2>3, FlagsAre
  <2>5. Sound(u') /\ (InPhase(s) => InPhase(u'))
    BY <2>1, <2>2, <2>4, WokenIs
  <2> QED  BY <1>2, <1>11, <2>4, <2>5 DEF SofResume
<1>12. CASE Connect
  <2>1. PICK s : s = [u EXCEPT !.sof = TRUE, !.suspend = FALSE, !.resume = FALSE]
    OBVIOUS
  <2>2. Flagged(s, u)
    BY <1>1, <2>1 DEF Flagged, State
  <2>3. Gone(u)
    BY <1>1, <1>12 DEF Connect, Phase
  <2>4. Sound(s) /\ Gone(s)
    BY <1>1, <2>2, <2>3, FlagsAre
  <2>5. u' = Plugged(s)
    BY <1>12, <2>1 DEF Connect
  <2>6. Sound(u') /\ InPhase(u')
    BY <2>4, <2>5, PluggedIs
  <2> QED  BY <1>1, <1>12, <2>6 DEF Connect, IInv, Phase
<1>13. CASE Disconnect
  <2>1. PICK s : s = [u EXCEPT !.reset = "none", !.suspend = FALSE, !.resume = FALSE]
    OBVIOUS
  <2>2. InPhase(u)
    BY <1>1, <1>13 DEF Disconnect, Phase
  <2>3. s \in State /\ s.reset = "none"
    BY <1>1, <2>1 DEF State
  <2>4. /\ s.address = u.address /\ s.conf_desc = u.conf_desc /\ s.queue = u.queue
        /\ s.uhaddr = u.uhaddr /\ s.attempts = u.attempts /\ s.heap = u.heap
        /\ (s.enabled <=> u.enabled) /\ (s.endpoints <=> u.endpoints)
        /\ (s.dev <=> u.dev) /\ (s.main_b_usb_dev <=> u.main_b_usb_dev)
    BY <1>1, <2>1 DEF State
  <2>5. Present(u)
    BY <1>1, <2>2, PresentIs
  <2>6. Present(s)
    BY <2>3, <2>4, <2>5 DEF Present, Sound, Held, Stale
  <2>7. u' = Unplugged(s)
    BY <1>13, <2>1 DEF Disconnect
  <2>8. Sound(u') /\ Gone(u')
    BY <2>3, <2>6, <2>7, UnpluggedIs
  <2> QED  BY <1>1, <1>13, <2>8 DEF Disconnect, IInv, Phase
<1>14. CASE SuspendCall
  <2>1. PICK outcome : u' = u \/ u' = uhc_remotewakeup(u, outcome)
    BY <1>14 DEF SuspendCall
  <2>2. Sound(u') /\ (InPhase(u) => InPhase(u')) /\ (Gone(u) => Gone(u'))
    BY <1>1, <2>1, WokenIs
  <2> QED  BY <1>4, <1>14, <2>2 DEF SuspendCall
<1>15. CASE SuspendTest
  BY <1>1, <1>4, <1>15 DEF SuspendTest
<1>16. CASE SuspendDelay
  <2>1. Flagged(u', u)
    BY <1>1, <1>16 DEF SuspendDelay, Flagged, State
  <2>2. Sound(u') /\ (InPhase(u) => InPhase(u')) /\ (Gone(u) => Gone(u'))
    BY <1>1, <2>1, FlagsAre
  <2> QED  BY <1>4, <1>16, <2>2 DEF SuspendDelay
<1>17. CASE SuspendFreeze
  <2>1. Flagged(u', u)
    BY <1>1, <1>17 DEF SuspendFreeze, Suspended, Flagged, State
  <2>2. Sound(u') /\ (InPhase(u) => InPhase(u')) /\ (Gone(u) => Gone(u'))
    BY <1>1, <2>1, FlagsAre
  <2> QED  BY <1>4, <1>17, <2>2 DEF SuspendFreeze
<1>18. CASE ResumeCall
  <2>1. u' = u \/ Flagged(u', u)
    <3>1. \/ u' = u
          \/ u' = [u EXCEPT !.suspend = FALSE, !.resume = TRUE]
          \/ u' = [u EXCEPT !.sof = TRUE, !.resume = TRUE]
      BY <1>18 DEF ResumeCall
    <3>2. CASE u' = [u EXCEPT !.suspend = FALSE, !.resume = TRUE]
      BY <1>1, <3>2 DEF Flagged, State
    <3>3. CASE u' = [u EXCEPT !.sof = TRUE, !.resume = TRUE]
      BY <1>1, <3>3 DEF Flagged, State
    <3> QED  BY <3>1, <3>2, <3>3
  <2>2. Sound(u') /\ (InPhase(u) => InPhase(u')) /\ (Gone(u) => Gone(u'))
    BY <1>1, <2>1, FlagsAre
  <2> QED  BY <1>1, <1>4, <1>18, <2>2 DEF ResumeCall
<1>19. CASE UNCHANGED vars
  BY <1>1, <1>4, <1>19 DEF vars
<1> QED  BY <1>5, <1>6, <1>7, <1>8, <1>9, <1>10, <1>11, <1>12, <1>13, <1>14, <1>15, <1>16,
            <1>17, <1>18, <1>19 DEF Next, Bus

THEOREM Invariance == Spec => []IInv
BY InitInv, NextInv, PTL DEF Spec

----------------------------------------------------------------------------
(* The properties *)

(* Every variable has its type, and the counter of tries its range. *)
THEOREM TypeCorrect == Spec => []TypeOK
<1>1. IInv => TypeOK
  <2> SUFFICES ASSUME IInv PROVE TypeOK
    OBVIOUS
  <2>1. u \in State /\ pc \in {"idle", "suspend", "delay", "freeze"}
    BY DEF IInv, Sound, Held
  <2>2. u.queue \in Seq(Requests)
    BY <2>1 DEF State
  <2>3. \A i \in DOMAIN u.queue : u.queue[i] \in Requests
    BY <2>2
  <2>4. /\ u.enum_try \in 0 .. UHC_ENUM_NB_TRY
        /\ u.address \in {0, DEVICE_ADD, NOT_VALID} /\ u.uhaddr \in {0, DEVICE_ADD}
        /\ u.conf_desc \in {"NULL", "held", "freed"}
        /\ u.timer \in {"none", "step3", "step5", "step7", "step9", "step11"}
        /\ u.reset \in {"none", "step2", "step4", "step8"}
        /\ u.status \in EnumStatus
    BY <2>1 DEF State
  <2> QED  BY <2>1, <2>3, <2>4 DEF TypeOK
<1> QED  BY <1>1, Invariance, PTL

(* The configuration descriptor of uhc.c is neither leaked nor freed twice, whatever
   the tries, the failures and the connections. *)
THEOREM Owned == Spec => []DescriptorOwned
<1>1. IInv => DescriptorOwned
  BY DEF IInv, Sound, Held, DescriptorOwned
<1> QED  BY <1>1, Invariance, PTL

(* A device of which ui.c has been told that it is enumerated is there, with all it needs. *)
THEOREM ReadyThen == Spec => []ReadyWhenEnumerated
<1>1. IInv => ReadyWhenEnumerated
  <2> SUFFICES ASSUME IInv, u.status = "SUCCESS"
               PROVE  /\ connected /\ u.address = DEVICE_ADD /\ u.conf_desc = "held"
                      /\ u.enabled /\ u.uhaddr = DEVICE_ADD
                      /\ u.dev /\ u.main_b_usb_dev /\ u.endpoints
                      /\ u.enum_try = 0 /\ u.timer = "none" /\ u.reset = "none"
    BY DEF ReadyWhenEnumerated
  <2>1. connected /\ InPhase(u)
    BY DEF IInv, Phase, Gone
  <2>2. Ready(u)
    BY <2>1 DEF InPhase, Starting, Low, High, Configuring, Failed, Enumerating
  <2> QED  BY <2>1, <2>2 DEF Ready, Calm
<1> QED  BY <1>1, Invariance, PTL

(* When uhc.c has no device, neither do uhi_vendor.c, cp_usb.c and the pipes. *)
THEOREM ReleasedThen == Spec => []ReleasedWhenGone
<1>1. IInv => ReleasedWhenGone
  <2> SUFFICES ASSUME IInv, u.address = NOT_VALID
               PROVE  ~u.dev /\ ~u.main_b_usb_dev /\ ~u.endpoints
    BY DEF ReleasedWhenGone
  <2>1. ~InPhase(u)
    BY PresentIs, Constants DEF IInv, Present
  <2>2. Gone(u)
    BY <2>1 DEF IInv, Phase
  <2> QED  BY <2>2 DEF IInv, Sound, Held, Gone
<1> QED  BY <1>1, Invariance, PTL

(* The resets that uhc_enumeration_error() begins an enumeration again with are bounded. *)
THEOREM TriesEnd == Spec => []TriesBounded
<1>1. IInv => TriesBounded
  BY DEF IInv, Sound, Held, TriesBounded
<1> QED  BY <1>1, Invariance, PTL
=============================================================================
