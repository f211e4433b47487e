-------------------------- MODULE MdmServiceProofs --------------------------
(***************************************************************************)
(* What MdmService guarantees a client that waits for its callback before  *)
(* it starts the next operation (Busy = FALSE), or starts it in the        *)
(* callback, for all operations, texts of the modem and sizes of the       *)
(* buffers.                                                                *)
(*                                                                         *)
(* The properties follow from how curr_status, cmd_idx, num_cmds and the   *)
(* commands acknowledged so far go together (Progress).                    *)
(***************************************************************************)
EXTENDS MdmServiceProps, TLAPS

Length == Len(CmdSet[curr_cmds])

(* A running set is the one its callback belongs to, and has not run past its end. *)
Running ==
    curr_status # "AT_INACTIVE" =>
        /\ curr_cmds \in DOMAIN CmdSet
        /\ curr_cb = curr_cmds /\ owed = curr_cmds
        /\ num_cmds = Length

(* cmd_idx counts the commands acknowledged, save for the one TickSuccess counts. *)
Progress ==
    /\ cmd_idx \in Nat /\ succeeded \in Nat /\ curr_status \in Statuses
    /\ curr_status = "AT_INACTIVE" => cmd_idx = 0 /\ succeeded = 0
    /\ curr_status = "AT_IDLE" => cmd_idx < Length /\ succeeded = cmd_idx
    /\ curr_status = "AT_PENDING" => cmd_idx < Length /\ succeeded = cmd_idx
    /\ curr_status = "AT_ERROR" => cmd_idx < Length /\ succeeded = cmd_idx
    /\ curr_status = "AT_SUCCESS" => cmd_idx < Length /\ succeeded = cmd_idx + 1
    /\ curr_status = "AT_FINISHED" => cmd_idx = Length /\ succeeded = Length

IInv == Running /\ Progress

(* No command set is empty. *)
LEMMA Lengths ==
    ASSUME NEW op \in DOMAIN CmdSet
    PROVE  Len(CmdSet[op]) \in Nat \ {0}
<1>1. DOMAIN CmdSet = {"init", "open", "send", "close", "status"}
  BY DEF CmdSet
<1>2. CASE op = "init"    BY <1>2 DEF CmdSet
<1>3. CASE op = "open"    BY <1>3 DEF CmdSet
<1>4. CASE op = "send"    BY <1>4 DEF CmdSet
<1>5. CASE op = "close"   BY <1>5 DEF CmdSet
<1>6. CASE op = "status"  BY <1>6 DEF CmdSet
<1> QED  BY <1>1, <1>2, <1>3, <1>4, <1>5, <1>6

LEMMA InitInv == Init => IInv
BY DEF Init, IInv, Running, Progress, Statuses

(* Each step keeps Running and Progress, if the client waits. *)
LEMMA NextInv ==
    ASSUME Busy = FALSE, IInv, [Next]_vars
    PROVE  IInv'
<1> USE DEF IInv
<1>1. ASSUME NEW item \in Items, ModemSends(item)
      PROVE  IInv'
  BY <1>1 DEF ModemSends, command, Running, Progress, Length
<1>2. ASSUME NEW op \in Ops, StartCommand(op)
      PROVE  IInv'
  <2>1. op \in DOMAIN CmdSet
    BY ServiceAssumption DEF ServiceAssumption
  <2>2. Len(CmdSet[op]) \in Nat \ {0}
    BY <2>1, Lengths
  <2>3. /\ curr_cb' = op /\ curr_cmds' = op /\ owed' = op
        /\ num_cmds' = Len(CmdSet[op]) /\ succeeded' = 0
        /\ curr_status' = "AT_IDLE" /\ cmd_idx' = 0
    BY <1>2 DEF StartCommand, Progress
  <2> QED  BY <2>1, <2>2, <2>3 DEF Running, Progress, Length, Statuses
<1>3. CASE TickInactive
  BY <1>3 DEF TickInactive, command, Running, Progress, Length
<1>4. CASE TickRingUnanswered
  BY <1>4 DEF TickRingUnanswered, TickRing, command, Running, Progress, Length
<1>5. CASE TickRingAnswered
  BY <1>5 DEF TickRingAnswered, TickRing, command, Running, Progress, Length
<1>6. CASE TickIdle
  <2>1. /\ curr_status = "AT_IDLE" /\ curr_status' \in {"AT_PENDING", "AT_IDLE"}
        /\ UNCHANGED <<curr_cb, curr_cmds, cmd_idx, num_cmds, owed, succeeded>>
    BY <1>6 DEF TickIdle, TickRunning
  <2> QED  BY <2>1 DEF Running, Progress, Length, Statuses
<1>7. CASE TickPending
  <2>1. /\ curr_status = "AT_PENDING"
        /\ UNCHANGED <<curr_cb, curr_cmds, cmd_idx, num_cmds, owed>>
        /\ \/ curr_status' = "AT_SUCCESS" /\ succeeded' = succeeded + 1
           \/ curr_status' \in {"AT_ERROR", "AT_PENDING"} /\ UNCHANGED succeeded
    BY <1>7 DEF TickPending, TickRunning
  <2> QED  BY <2>1 DEF Running, Progress, Length, Statuses
<1>8. CASE TickSuccess
  <2>1. /\ curr_status = "AT_SUCCESS" /\ curr_status' = NextStatus
        /\ cmd_idx' = cmd_idx + 1
        /\ UNCHANGED <<curr_cb, curr_cmds, num_cmds, owed, succeeded>>
    BY <1>8 DEF TickSuccess, TickRunning
  <2>2. curr_cmds \in DOMAIN CmdSet /\ Length \in Nat
    BY <2>1, Lengths DEF Running, Length
  <2> QED  BY <2>1, <2>2 DEF Running, Progress, Length, NextStatus, Statuses
<1>9. CASE TickCallback
  BY <1>9 DEF TickCallback, IndexAfter, Running, Progress, Length, Statuses
<1>10. ASSUME NEW max_data_len \in 1 .. MAX_BUF_SIZE, mdm_recv(max_data_len)
       PROVE  IInv'
  BY <1>10 DEF mdm_recv, command, Running, Progress, Length
<1>11. CASE UNCHANGED vars
  BY <1>11 DEF vars, command, Running, Progress, Length
<1> QED
  BY <1>1, <1>2, <1>3, <1>4, <1>5, <1>6, <1>7, <1>8, <1>9, <1>10, <1>11
  DEF Next, mdm_tick

LEMMA Invariant == Busy = FALSE /\ Spec => []IInv
<1> SUFFICES ASSUME Busy = FALSE PROVE Spec => []IInv
  OBVIOUS
<1> QED  BY InitInv, NextInv, PTL DEF Spec

(* For a client that waits, mdm_tick() calls no command behind the end of its set. *)
THEOREM StaysInBounds == Busy = FALSE /\ Spec => []CommandInBounds
<1>1. IInv => CommandInBounds
  <2> SUFFICES ASSUME IInv, curr_status \in {"AT_IDLE", "AT_PENDING", "AT_SUCCESS"}
               PROVE  curr_cmds # "none" /\ cmd_idx < Len(CmdSet[curr_cmds])
    BY DEF CommandInBounds
  <2>1. curr_cmds \in {"init", "open", "send", "close", "status"}
    BY DEF IInv, Running, CmdSet
  <2> QED  BY <2>1 DEF IInv, Progress, Length
<1> QED  BY <1>1, Invariant, PTL

----------------------------------------------------------------------------
(* The callback's data *)

(* return_data is reset by the start of every operation but mdm_close(). *)
Reset ==
    /\ curr_cb \notin {"status", "close"} => return_data = "NULL"
    /\ StatusGivenOnlyForStatus

LEMMA ResetKept == Reset /\ [Next]_vars => Reset'
<1> SUFFICES ASSUME Reset, [Next]_vars PROVE Reset'
  OBVIOUS
<1>1. ASSUME NEW op \in Ops, StartCommand(op)
      PROVE  Reset'
  BY <1>1 DEF Reset, StatusGivenOnlyForStatus, StartCommand, ReturnData
<1>2. CASE TickCallback
  <2>1. called' = <<curr_cb, curr_status, return_data>>
    BY <1>2 DEF TickCallback
  <2>2. StatusGivenOnlyForStatus'
    BY <2>1 DEF Reset, StatusGivenOnlyForStatus
  <2>3. \/ UNCHANGED <<curr_cb, return_data>>
        \/ \E op \in Ops : curr_cb' = op /\ return_data' = ReturnData(op)
    BY <1>2 DEF TickCallback
  <2> QED  BY <2>2, <2>3 DEF Reset, ReturnData
<1>3. ASSUME ~TickCallback, \A op \in Ops : ~StartCommand(op)
      PROVE  /\ UNCHANGED <<curr_cb, return_data>>
             /\ called' = <<>> \/ called' = called
  BY <1>3 DEF Next, mdm_tick, vars, command, ModemSends, TickInactive, TickRunning,
     TickRing, TickRingUnanswered, TickRingAnswered, TickIdle, TickPending, TickSuccess,
     mdm_recv
<1>4. ASSUME UNCHANGED <<curr_cb, return_data>>, called' = <<>> \/ called' = called
      PROVE  Reset'
  BY <1>4 DEF Reset, StatusGivenOnlyForStatus
<1> QED  BY <1>1, <1>2, <1>3, <1>4

(* Only mdm_status() and mdm_close() can hand the socket's status to their callback,
   whenever the client starts operations. *)
THEOREM StatusOnlyForStatus == Spec => []StatusGivenOnlyForStatus
<1>1. Init => Reset
  BY DEF Init, Reset, StatusGivenOnlyForStatus
<1>2. Reset => StatusGivenOnlyForStatus
  BY DEF Reset
<1> QED  BY <1>1, <1>2, ResetKept, PTL DEF Spec

----------------------------------------------------------------------------
(* For a client that waits, each callback is that of the operation started last, with
   AT_FINISHED exactly when every command of its set was acknowledged, and with the data of
   its own operation. *)
THEOREM CallbacksMatch == Busy = FALSE /\ Spec => CallbackMatches
<1> DEFINE Matching == called' # <<>> /\ called' # called =>
               /\ owed = called'[1]
               /\ called'[2] = "AT_FINISHED" <=> succeeded = Len(CmdSet[owed])
               /\ StatusGivenOnlyForStatus'
<1>1. ASSUME IInv, Reset', [Next]_vars
      PROVE  Matching
  <2>1. ASSUME TickCallback
        PROVE  Matching
    <3>1. called' = <<curr_cb, curr_status, return_data>>
      BY <2>1 DEF TickCallback
    <3>2. curr_status \in {"AT_FINISHED", "AT_ERROR"}
      BY <2>1 DEF TickCallback
    <3>3. owed = curr_cb /\ owed = curr_cmds
      BY <1>1, <3>2 DEF IInv, Running
    <3>4. curr_status = "AT_FINISHED" <=> succeeded = Len(CmdSet[owed])
      BY <1>1, <3>2, <3>3 DEF IInv, Progress, Length
    <3> QED  BY <1>1, <3>1, <3>3, <3>4 DEF Reset
  <2>2. ASSUME ~TickCallback
        PROVE  called' = <<>> \/ called' = called
    BY <1>1, <2>2 DEF Next, mdm_tick, vars, ModemSends, StartCommand, TickInactive,
       TickRing, TickRingUnanswered, TickRingAnswered, TickIdle, TickPending, TickSuccess,
       mdm_recv
  <2> QED  BY <2>1, <2>2
<1>2. Init => Reset
  BY DEF Init, Reset, StatusGivenOnlyForStatus
<1>3. Busy = FALSE /\ Spec => [][Matching]_vars
  BY <1>1, <1>2, ResetKept, Invariant, PTL DEF Spec
<1> QED  BY <1>3 DEF CallbackMatches

----------------------------------------------------------------------------
(* The acknowledgements *)

Acks == {"OK", ">"}

(* The buffers hold what the modem sent, and an acknowledgement in one of them has not
   been used. *)
Unused ==
    /\ inbox \in Texts /\ data_read_buff \in Texts
    /\ credit \in Nat /\ credit <= CreditMax
    /\ Acks \cap (ToSet(inbox) \cup ToSet(data_read_buff)) # {} => credit > 0

LEMMA TextsAre ==
    Texts = {s \in Seq(Items \cup {"text"}) : Len(s) <= BuffUnits}
<1>1. BuffUnits \in Nat
  BY ServiceAssumption DEF ServiceAssumption
<1>2. ASSUME NEW s \in Texts
      PROVE  s \in Seq(Items \cup {"text"}) /\ Len(s) <= BuffUnits
  BY <1>1, <1>2 DEF Texts, BoundedSeq, SeqOf
<1>3. ASSUME NEW s \in Seq(Items \cup {"text"}), Len(s) <= BuffUnits
      PROVE  s \in Texts
  <2>1. Len(s) \in 0 .. BuffUnits /\ s \in [1 .. Len(s) -> Items \cup {"text"}]
    BY <1>1, <1>3
  <2> QED  BY <2>1 DEF Texts, BoundedSeq, SeqOf
<1> QED  BY <1>2, <1>3

(* mdm_read() puts together what is there and what has come. *)
LEMMA ReadBuffIs ==
    ASSUME inbox \in Texts, data_read_buff \in Texts
    PROVE  /\ ReadBuff \in Texts
           /\ ToSet(ReadBuff) \subseteq ToSet(inbox) \cup ToSet(data_read_buff)
<1> DEFINE n == IF Len(inbox) > Len(data_read_buff) THEN Len(inbox) ELSE Len(data_read_buff)
<1>1. /\ inbox \in Seq(Items \cup {"text"}) /\ Len(inbox) <= BuffUnits
      /\ data_read_buff \in Seq(Items \cup {"text"}) /\ Len(data_read_buff) <= BuffUnits
  BY TextsAre
<1>2. n \in Nat /\ n <= BuffUnits
  BY <1>1
<1>3. ASSUME NEW i \in 1 .. n
      PROVE  /\ i <= Len(inbox) => i \in DOMAIN inbox
             /\ ~(i <= Len(inbox)) => i \in DOMAIN data_read_buff
  BY <1>1
<1>4. ReadBuff = [i \in 1 .. n |-> IF i <= Len(inbox) THEN inbox[i] ELSE data_read_buff[i]]
  BY DEF ReadBuff
<1> HIDE DEF n
<1>5. ASSUME NEW i \in 1 .. n
      PROVE  /\ ReadBuff[i] \in Items \cup {"text"}
             /\ ReadBuff[i] \in ToSet(inbox) \cup ToSet(data_read_buff)
  BY <1>1, <1>3, <1>4 DEF ToSet
<1>6. ReadBuff \in Seq(Items \cup {"text"}) /\ Len(ReadBuff) = n /\ DOMAIN ReadBuff = 1 .. n
  BY <1>2, <1>4, <1>5
<1>7. ReadBuff \in Texts
  BY <1>2, <1>6, TextsAre
<1>8. ToSet(ReadBuff) \subseteq ToSet(inbox) \cup ToSet(data_read_buff)
  BY <1>5, <1>6 DEF ToSet
<1> QED  BY <1>7, <1>8

(* The buffers once they are cleared, or hold one item *)
LEMMA Short ==
    /\ <<>> \in Texts /\ ToSet(<<>>) = {}
    /\ \A item \in Items \cup {"text"} :
          <<item>> \in Texts /\ ToSet(<<item>>) = {item}
<1>1. BuffUnits \in Nat \ {0}
  BY ServiceAssumption DEF ServiceAssumption
<1> QED  BY <1>1, TextsAre DEF ToSet

LEMMA UnusedKept == Unused /\ [Next]_vars => Unused'
<1> SUFFICES ASSUME Unused, [Next]_vars PROVE Unused'
  OBVIOUS
<1>0. BuffUnits \in Nat \ {0} /\ CreditMax \in Nat /\ CreditMax > 0
  BY ServiceAssumption DEF ServiceAssumption, CreditMax
<1>1. ASSUME NEW item \in Items, ModemSends(item)
      PROVE  Unused'
  <2>1. inbox' = Append(inbox, item) /\ Len(inbox) < BuffUnits /\ data_read_buff' = data_read_buff
    BY <1>1 DEF ModemSends
  <2>2. inbox \in Seq(Items \cup {"text"})
    BY TextsAre DEF Unused
  <2>3. inbox' \in Texts
    BY <1>0, <2>1, <2>2, TextsAre
  <2>4. ToSet(inbox') = ToSet(inbox) \cup {item}
    BY <2>1, <2>2 DEF ToSet
  <2>5. credit' = IF item \in Acks /\ credit < CreditMax THEN credit + 1 ELSE credit
    BY <1>1 DEF ModemSends, Acks
  <2>6. credit' \in Nat /\ credit' <= CreditMax /\ credit' >= credit
        /\ (item \in Acks => credit' > 0)
    BY <1>0, <2>5 DEF Unused
  <2> QED  BY <2>1, <2>3, <2>4, <2>6 DEF Unused
<1>2. ASSUME inbox' = <<>>, data_read_buff' = ReadBuff, credit' = credit
      PROVE  Unused'
  BY <1>2, ReadBuffIs, Short DEF Unused
<1>3. CASE TickInactive
  BY <1>2, <1>3 DEF TickInactive, TickRead
<1>4. ASSUME NEW left \in {<<>>} \cup Unit, TickRing(left)
      PROVE  Unused'
  <2>1. /\ inbox' = <<>> /\ data_read_buff' = left
        /\ credit' = IF left \in {<<"OK">>, <<">">>} /\ credit < CreditMax
                     THEN credit + 1 ELSE credit
    BY <1>4 DEF TickRing, TickRead
  <2>2. left \in Texts
    BY Short DEF Unit
  <2>3. Acks \cap ToSet(left) # {} => left \in {<<"OK">>, <<">">>}
    BY Short DEF Acks, Unit
  <2>4. credit' \in Nat /\ credit' <= CreditMax
        /\ (left \in {<<"OK">>, <<">">>} => credit' > 0)
    BY <1>0, <2>1 DEF Unused
  <2> QED  BY <2>1, <2>2, <2>3, <2>4, Short DEF Unused
<1>5. CASE TickRingUnanswered \/ TickRingAnswered
  BY <1>4, <1>5 DEF TickRingUnanswered, TickRingAnswered
<1>6. CASE TickIdle
  BY <1>2, <1>6 DEF TickIdle, TickRead
<1>7. CASE TickPending
  <2>1. CASE Acknowledged
    <3>1. inbox' = <<>> /\ data_read_buff' = <<>> /\ credit' = credit - 1
      BY <1>7, <2>1 DEF TickPending, TickRead, AfterMatch
    <3>2. Acks \cap ToSet(ReadBuff) # {}
      BY <2>1 DEF Acknowledged, Has, ToSet, Acks
    <3>3. credit > 0
      BY <3>2, ReadBuffIs DEF Unused
    <3>4. credit' \in Nat /\ credit' <= CreditMax
      BY <1>0, <3>1, <3>3 DEF Unused
    <3> QED  BY <3>1, <3>4, Short DEF Unused
  <2>2. CASE ~Acknowledged /\ Has("ERROR")
    <3>1. inbox' = <<>> /\ data_read_buff' = <<>> /\ credit' = credit
      BY <1>7, <2>2 DEF TickPending, TickRead, AfterMatch
    <3> QED  BY <3>1, Short DEF Unused
  <2>3. CASE ~Acknowledged /\ ~Has("ERROR")
    BY <1>2, <1>7, <2>3 DEF TickPending, TickRead
  <2> QED  BY <2>1, <2>2, <2>3
<1>8. CASE TickSuccess
  BY <1>2, <1>8 DEF TickSuccess, TickRead
<1>9. CASE TickCallback
  BY <1>2, <1>9 DEF TickCallback, TickRead
<1>10. CASE (\E op \in Ops : StartCommand(op))
            \/ (\E max_data_len \in 1 .. MAX_BUF_SIZE : mdm_recv(max_data_len))
            \/ UNCHANGED vars
  <2>1. UNCHANGED <<inbox, data_read_buff, credit>>
    BY <1>10 DEF StartCommand, mdm_recv, parser, vars
  <2> QED  BY <2>1 DEF Unused
<1> QED
  BY <1>1, <1>3, <1>5, <1>6, <1>7, <1>8, <1>9, <1>10 DEF Next, mdm_tick

LEMMA AlwaysUnused == Spec => []Unused
<1>1. Init => Unused
  <2> SUFFICES ASSUME Init PROVE Unused
    OBVIOUS
  <2>1. inbox = <<>> /\ data_read_buff = <<>> /\ credit = 0
    BY DEF Init
  <2>2. CreditMax \in Nat
    BY ServiceAssumption DEF ServiceAssumption, CreditMax
  <2> QED  BY <2>1, <2>2, Short DEF Unused
<1> QED  BY <1>1, UnusedKept, PTL DEF Spec

(* No acknowledgement of the modem is taken for two commands, whatever it sends and
   whenever the client starts operations. *)
THEOREM AckUsedOnce == Spec => []UsesEachAckOnce
<1>1. Unused => UsesEachAckOnce
  BY DEF Unused, UsesEachAckOnce
<1> QED  BY <1>1, AlwaysUnused, PTL

----------------------------------------------------------------------------
(* The types *)

(* What the other invariants do not say of the types *)
Types ==
    /\ SRING_STATUS \in {0, 1}
    /\ curr_cb \in Ops \cup {"none"} /\ curr_cmds \in Ops \cup {"none"}
    /\ owed \in Ops \cup {"none"} /\ num_cmds \in {0, 1, 2, 4}
    /\ return_data \in {"NULL", "sckt_status"}
    /\ rcvd_bytes_pending \in Nat /\ fault \in BOOLEAN

(* The number read is not above that of the bytes sent. *)
LEMMA AnnouncedAtMost ==
    ASSUME NEW n \in Nat, NEW s, NEW announced \in Announced(n, s)
    PROVE  announced \in Nat /\ announced <= n
<1>1. CASE s.len > 0
  BY <1>1 DEF Announced
<1>2. CASE ~(s.len > 0)
  <2>1. PICK d \in {1, 10, 100, 1000} : announced = n \div d
    BY <1>2 DEF Announced
  <2>2. CASE d = 1     BY <2>1, <2>2
  <2>3. CASE d = 10    BY <2>1, <2>3
  <2>4. CASE d = 100   BY <2>1, <2>4
  <2>5. CASE d = 1000  BY <2>1, <2>5
  <2> QED  BY <2>1, <2>2, <2>3, <2>4, <2>5
<1> QED  BY <1>1, <1>2

LEMMA OverrunIs ==
    ASSUME NEW announced, NEW s
    PROVE  Overrun(announced, s) \in BOOLEAN
BY DEF Overrun

LEMMA TypesKept == Types /\ [Next]_vars => Types'
<1> SUFFICES ASSUME Types, [Next]_vars PROVE Types'
  OBVIOUS
<1>1. ASSUME NEW item \in Items, ModemSends(item)
      PROVE  Types'
  BY <1>1 DEF ModemSends, command, socket, Types
<1>2. ASSUME NEW op \in Ops, StartCommand(op)
      PROVE  Types'
  <2>1. Len(CmdSet[op]) \in {1, 2, 4}
    BY ServiceAssumption DEF ServiceAssumption, CmdSet
  <2> QED  BY <1>2, <2>1 DEF StartCommand, ReturnData, parser, socket, Types
<1>3. CASE TickInactive
  BY <1>3 DEF TickInactive, TickRead, command, socket, Types
<1>4. CASE TickRingUnanswered
  BY <1>4 DEF TickRingUnanswered, TickRing, TickRead, command, Types
<1>5. CASE TickRingAnswered
  <2>1. PICK n \in 1 .. MaxPayload : \E s \in Stored(n) : \E announced \in Announced(n, s) :
          /\ rcvd_bytes_pending' = PendingAfter(announced)
          /\ fault' = Overrun(announced, s)
    BY <1>5 DEF TickRingAnswered
  <2>2. PICK s \in Stored(n) : \E announced \in Announced(n, s) :
          /\ rcvd_bytes_pending' = PendingAfter(announced)
          /\ fault' = Overrun(announced, s)
    BY <2>1
  <2>3. PICK announced \in Announced(n, s) :
          /\ rcvd_bytes_pending' = PendingAfter(announced)
          /\ fault' = Overrun(announced, s)
    BY <2>2
  <2>4. n \in Nat
    BY ServiceAssumption DEF ServiceAssumption
  <2>5. announced \in Nat
    BY <2>3, <2>4, AnnouncedAtMost
  <2>6. rcvd_bytes_pending' \in Nat
    BY <2>3, <2>5 DEF Types, PendingAfter
  <2>7. fault' \in BOOLEAN
    BY <2>3, OverrunIs
  <2>8. SRING_STATUS' = 0 /\ UNCHANGED command
    BY <1>5 DEF TickRingAnswered, TickRing
  <2> QED  BY <2>6, <2>7, <2>8 DEF command, Types
<1>6. CASE TickIdle
  BY <1>6 DEF TickIdle, TickRunning, TickRead, socket, Types
<1>7. CASE TickPending
  BY <1>7 DEF TickPending, TickRunning, TickRead, socket, Types
<1>8. CASE TickSuccess
  BY <1>8 DEF TickSuccess, TickRunning, TickRead, socket, Types
<1>9. CASE TickCallback
  BY <1>9 DEF TickCallback, TickRead, ReturnData, socket, Types
<1>10. ASSUME NEW max_data_len \in 1 .. MAX_BUF_SIZE, mdm_recv(max_data_len)
       PROVE  Types'
  <2>1. MAX_BUF_SIZE \in Nat
    BY ServiceAssumption DEF ServiceAssumption
  <2>2. rcvd_bytes_pending' \in Nat
    BY <1>10, <2>1 DEF mdm_recv, Types
  <2> QED  BY <1>10, <2>2 DEF mdm_recv, parser, command, Types
<1>11. CASE UNCHANGED vars
  BY <1>11 DEF vars, parser, command, socket, Types
<1> QED
  BY <1>1, <1>2, <1>3, <1>4, <1>5, <1>6, <1>7, <1>8, <1>9, <1>10, <1>11
  DEF Next, mdm_tick

(* The variables have their types and the counters their ranges, for every size of the
   buffers, if the client waits. *)
THEOREM TypeCorrect == Busy = FALSE /\ Spec => []TypeOK
<1>1. Init => Types
  <2> SUFFICES ASSUME Init PROVE Types
    OBVIOUS
  <2>1. /\ SRING_STATUS = 0 /\ curr_cb = "none" /\ curr_cmds = "none" /\ owed = "none"
        /\ num_cmds = 0 /\ return_data = "NULL" /\ rcvd_bytes_pending = 0 /\ fault = FALSE
    BY DEF Init
  <2> QED  BY <2>1 DEF Types
<1>2. ASSUME IInv, Types, Unused
      PROVE  TypeOK
  <2>1. curr_cmds # "none" => Len(CmdSet[curr_cmds]) \in {1, 2, 4}
    BY <1>2, ServiceAssumption DEF Types, ServiceAssumption, CmdSet
  <2>2. curr_status # "AT_INACTIVE" => curr_cmds # "none"
    BY <1>2 DEF IInv, Running, CmdSet
  <2>3. CASE curr_status = "AT_INACTIVE"
    BY <1>2, <2>3 DEF TypeOK, Types, Unused, IInv, Progress
  <2>4. CASE curr_status # "AT_INACTIVE"
    <3>1. Length \in {1, 2, 4}
      BY <2>1, <2>2, <2>4 DEF Length
    <3>2. cmd_idx \in Nat /\ cmd_idx <= Length /\ succeeded \in Nat /\ succeeded <= Length
      BY <1>2, <2>4, <3>1 DEF IInv, Progress, Statuses
    <3>3. cmd_idx \in 0 .. 4 /\ succeeded \in 0 .. 4
      BY <3>1, <3>2
    <3> QED  BY <1>2, <3>3 DEF TypeOK, Types, Unused, IInv, Progress
  <2> QED  BY <2>3, <2>4
<1> QED  BY <1>1, <1>2, TypesKept, Invariant, AlwaysUnused, PTL DEF Spec

----------------------------------------------------------------------------
(* The data of the socket *)

(* The bytes of the socket in mdm_data_buff are pending, in their order, and come after
   those returned. *)
InOrder ==
    /\ sockLast <= sockSent
    /\ \A i \in 0 .. MAX_BUF_SIZE - 1 :
          /\ mdm_data_buff[i] \in Nat
          /\ mdm_data_buff[i] # 0 => /\ i < rcvd_bytes_pending
                                     /\ sockLast < mdm_data_buff[i]
                                     /\ mdm_data_buff[i] <= sockSent
    /\ \A i \in 0 .. MAX_BUF_SIZE - 1 : \A j \in 0 .. i - 1 :
          mdm_data_buff[i] # 0 => mdm_data_buff[j] < mdm_data_buff[i]

(* Unless an answer was cut, what is pending is the next bytes of the socket. *)
SocketDataIsData ==
    ~cut => \A i \in 0 .. rcvd_bytes_pending - 1 : mdm_data_buff[i] = sockGot + 1 + i

Counters ==
    /\ rcvd_bytes_pending \in Nat /\ sockSent \in Nat /\ sockGot \in Nat /\ sockLast \in Nat
    /\ cut \in BOOLEAN /\ fault \in BOOLEAN
    /\ DOMAIN mdm_data_buff = 0 .. MAX_BUF_SIZE - 1

(* mdm_data_buff holds, from its start, what was announced and not returned. *)
Buffered ==
    /\ Counters
    /\ SocketDataCounted
    /\ ~fault => /\ rcvd_bytes_pending <= MAX_BUF_SIZE
                 /\ InOrder
                 /\ SocketDataIsData

(* What an answer does to the data of the socket *)
Answer(n, s, announced) ==
    /\ sockSent' = sockSent + n
    /\ rcvd_bytes_pending' = PendingAfter(announced)
    /\ mdm_data_buff' = Appended(n, s)
    /\ cut' = (cut \/ ~Whole(n, s))
    /\ fault' = Overrun(announced, s)
    /\ ~fault /\ UNCHANGED <<sockGot, sockLast>>

(* Bytes are stored only behind the whole number. *)
LEMMA StoredIs ==
    ASSUME NEW n \in Nat \ {0}, NEW s \in Stored(n), NEW announced \in Announced(n, s)
    PROVE  /\ s.skip \in Nat /\ s.len \in Nat
           /\ announced \in Nat /\ announced <= n
           /\ s.len > 0 => announced = n
           /\ Whole(n, s) => s.skip = 0 /\ s.len >= n /\ announced = n
<1>1. Trailer \in Nat
  BY ServiceAssumption DEF ServiceAssumption
<1>2. s.skip \in 0 .. n /\ s.len \in 0 .. n + Trailer
  BY DEF Stored
<1>3. s.skip \in Nat /\ s.len \in Nat
  BY <1>1, <1>2
<1>4. s.len > 0 => announced = n
  BY DEF Announced
<1>5. announced \in Nat /\ announced <= n
  BY AnnouncedAtMost
<1>6. Whole(n, s) => s.skip = 0 /\ s.len >= n /\ s.len > 0
  BY <1>3 DEF Whole
<1> QED  BY <1>3, <1>4, <1>5, <1>6

(* As long as nothing is written or counted past its end, there is room in the buffer. *)
LEMMA Fits ==
    ASSUME Counters, NEW n, NEW s, NEW announced, Answer(n, s, announced), ~fault',
           announced \in Nat, s.len \in Nat
    PROVE  /\ rcvd_bytes_pending' <= MAX_BUF_SIZE
           /\ s.len > 0 => rcvd_bytes_pending + s.len < MAX_BUF_SIZE
<1>1. ~Overrun(announced, s)
  BY DEF Answer
<1>2. MAX_BUF_SIZE \in Nat
  BY ServiceAssumption DEF ServiceAssumption
<1>3. rcvd_bytes_pending' = PendingAfter(announced)
  BY DEF Answer
<1> QED  BY <1>1, <1>2, <1>3 DEF Overrun, PendingAfter, Counters

(* What the buffer holds behind the answer. *)
LEMMA AppendedIs ==
    ASSUME Counters, InOrder, NEW n \in Nat \ {0}, NEW s \in Stored(n),
           NEW announced \in Announced(n, s), Answer(n, s, announced),
           NEW i \in 0 .. MAX_BUF_SIZE - 1
    PROVE  /\ i < rcvd_bytes_pending => mdm_data_buff'[i] = mdm_data_buff[i]
           /\ ~(i < rcvd_bytes_pending) =>
                \/ mdm_data_buff'[i] = 0
                   /\ ~(i - rcvd_bytes_pending < s.len /\ i - rcvd_bytes_pending < n - s.skip)
                \/ /\ mdm_data_buff'[i] = sockSent + 1 + s.skip + (i - rcvd_bytes_pending)
                   /\ i - rcvd_bytes_pending < s.len
                   /\ i - rcvd_bytes_pending < n - s.skip
<1>1. /\ s.skip \in Nat /\ s.len \in Nat
      /\ s.len > 0 => announced = n
  BY StoredIs
<1>2. MAX_BUF_SIZE \in Nat /\ i \in Nat
  BY ServiceAssumption DEF ServiceAssumption
<1>3. rcvd_bytes_pending \in Nat /\ i \in DOMAIN mdm_data_buff /\ sockSent \in Nat
  BY DEF Counters
<1>4. mdm_data_buff[i] # 0 => i < rcvd_bytes_pending
  BY DEF InOrder
<1> DEFINE j == i - rcvd_bytes_pending
<1>5. mdm_data_buff'[i] = IF s.len = 0 \/ j < 0 \/ j > s.len THEN mdm_data_buff[i]
                          ELSE IF j < s.len /\ j < n - s.skip
                               THEN sockSent + 1 + s.skip + j ELSE 0
  BY <1>3 DEF Answer, Appended
<1>6. j \in Int /\ (j < 0 <=> i < rcvd_bytes_pending)
  BY <1>2, <1>3
<1>7. CASE i < rcvd_bytes_pending
  <2>1. mdm_data_buff'[i] = mdm_data_buff[i]
    BY <1>5, <1>6, <1>7
  <2> QED  BY <1>7, <2>1
<1>8. CASE ~(i < rcvd_bytes_pending)
  <2>1. mdm_data_buff[i] = 0 /\ ~(j < 0)
    BY <1>4, <1>6, <1>8
  <2>2. CASE j < s.len /\ j < n - s.skip
    <3>1. ~(s.len = 0 \/ j < 0 \/ j > s.len)
      BY <1>1, <1>6, <2>1, <2>2
    <3>2. mdm_data_buff'[i] = sockSent + 1 + s.skip + j
      BY <1>5, <2>2, <3>1
    <3> QED  BY <1>8, <2>2, <3>2
  <2>3. CASE ~(j < s.len /\ j < n - s.skip)
    <3>1. mdm_data_buff'[i] = 0
      BY <1>5, <2>1, <2>3
    <3> QED  BY <1>8, <2>3, <3>1
  <2> QED  BY <2>2, <2>3
<1> QED  BY <1>7, <1>8

(* The bytes of the answer are behind those that are pending, and come after them. *)
LEMMA AnswerInOrder ==
    ASSUME Counters, InOrder, NEW n \in Nat \ {0}, NEW s \in Stored(n),
           NEW announced \in Announced(n, s), Answer(n, s, announced)
    PROVE  InOrder'
<1>1. /\ s.skip \in Nat /\ s.len \in Nat /\ announced \in Nat
      /\ s.len > 0 => announced = n
  BY StoredIs
<1>2. MAX_BUF_SIZE \in Nat
  BY ServiceAssumption DEF ServiceAssumption
<1>3. /\ rcvd_bytes_pending \in Nat /\ sockSent \in Nat /\ sockLast \in Nat
      /\ rcvd_bytes_pending' = rcvd_bytes_pending + announced
      /\ sockSent' = sockSent + n /\ sockLast' = sockLast
  BY DEF Counters, Answer, PendingAfter
<1>4. sockLast <= sockSent
  BY DEF InOrder
<1>5. ASSUME NEW i \in 0 .. MAX_BUF_SIZE - 1
      PROVE  /\ mdm_data_buff'[i] \in Nat
             /\ mdm_data_buff'[i] # 0 => /\ i < rcvd_bytes_pending'
                                         /\ sockLast' < mdm_data_buff'[i]
                                         /\ mdm_data_buff'[i] <= sockSent'
  <2>1. CASE i < rcvd_bytes_pending
    <3>1. mdm_data_buff'[i] = mdm_data_buff[i]
      BY <2>1, AppendedIs
    <3>2. /\ mdm_data_buff[i] \in Nat
          /\ mdm_data_buff[i] # 0 => sockLast < mdm_data_buff[i] /\ mdm_data_buff[i] <= sockSent
      BY DEF InOrder
    <3> QED  BY <1>1, <1>2, <1>3, <2>1, <3>1, <3>2
  <2>2. CASE ~(i < rcvd_bytes_pending) /\ mdm_data_buff'[i] = 0
    BY <2>2
  <2>3. CASE ~(i < rcvd_bytes_pending) /\ mdm_data_buff'[i] # 0
    <3>1. /\ mdm_data_buff'[i] = sockSent + 1 + s.skip + (i - rcvd_bytes_pending)
          /\ i - rcvd_bytes_pending < s.len
          /\ i - rcvd_bytes_pending < n - s.skip
      BY <2>3, AppendedIs
    <3>2. s.len > 0 /\ announced = n
      BY <1>1, <1>2, <1>3, <2>3, <3>1
    <3> QED  BY <1>1, <1>2, <1>3, <1>4, <2>3, <3>1, <3>2
  <2> QED  BY <2>1, <2>2, <2>3
<1>6. ASSUME NEW i \in 0 .. MAX_BUF_SIZE - 1, NEW j \in 0 .. i - 1, mdm_data_buff'[i] # 0
      PROVE  mdm_data_buff'[j] < mdm_data_buff'[i]
  <2>1. j \in 0 .. MAX_BUF_SIZE - 1 /\ j < i
    BY <1>2
  <2>2. CASE i < rcvd_bytes_pending
    <3>1. mdm_data_buff'[i] = mdm_data_buff[i] /\ mdm_data_buff'[j] = mdm_data_buff[j]
      BY <1>3, <2>1, <2>2, AppendedIs
    <3> QED  BY <1>6, <3>1 DEF InOrder
  <2>3. CASE ~(i < rcvd_bytes_pending)
    <3>1. mdm_data_buff'[i] = sockSent + 1 + s.skip + (i - rcvd_bytes_pending)
      BY <1>6, <2>3, AppendedIs
    <3>2. CASE j < rcvd_bytes_pending
      <4>1. mdm_data_buff'[j] = mdm_data_buff[j]
        BY <2>1, <3>2, AppendedIs
      <4>2. mdm_data_buff[j] \in Nat /\ mdm_data_buff[j] <= sockSent
        BY <1>3, <2>1 DEF InOrder
      <4> QED  BY <1>1, <1>2, <1>3, <2>3, <3>1, <4>1, <4>2
    <3>3. CASE ~(j < rcvd_bytes_pending)
      <4>1. \/ mdm_data_buff'[j] = 0
            \/ mdm_data_buff'[j] = sockSent + 1 + s.skip + (j - rcvd_bytes_pending)
        BY <2>1, <3>3, AppendedIs
      <4> QED  BY <1>1, <1>2, <1>3, <2>1, <2>3, <3>1, <4>1
    <3> QED  BY <3>2, <3>3
  <2> QED  BY <2>2, <2>3
<1>7. sockLast' <= sockSent'
  BY <1>3, <1>4
<1> QED  BY <1>5, <1>6, <1>7 DEF InOrder

(* An answer, whole or not, leaves the buffer as described. *)
LEMMA AnswerAppended ==
    ASSUME Buffered, NEW n \in Nat \ {0}, NEW s \in Stored(n),
           NEW announced \in Announced(n, s), Answer(n, s, announced)
    PROVE  Buffered'
<1>1. /\ s.skip \in Nat /\ s.len \in Nat /\ announced \in Nat /\ announced <= n
      /\ Whole(n, s) => s.skip = 0 /\ s.len >= n /\ announced = n
  BY StoredIs
<1>2. Counters /\ InOrder /\ ~fault
  BY DEF Buffered, Answer
<1>3. /\ rcvd_bytes_pending' = rcvd_bytes_pending + announced
      /\ sockSent' = sockSent + n /\ sockGot' = sockGot /\ sockLast' = sockLast
  BY DEF Answer, PendingAfter
<1>4. cut' \in BOOLEAN /\ fault' \in BOOLEAN /\ (~cut' => ~cut /\ Whole(n, s))
  <2>1. cut' = (cut \/ ~Whole(n, s)) /\ fault' = Overrun(announced, s)
    BY DEF Answer
  <2>2. Overrun(announced, s) \in BOOLEAN
    BY OverrunIs
  <2> QED  BY <2>1, <2>2, Zenon
<1>5. DOMAIN mdm_data_buff' = 0 .. MAX_BUF_SIZE - 1
  BY <1>2 DEF Answer, Appended, Counters
<1>6. Counters'
  BY <1>1, <1>2, <1>3, <1>4, <1>5 DEF Counters
<1>7. SocketDataCounted'
  <2>1. sockGot + rcvd_bytes_pending <= sockSent
    BY <1>2 DEF Buffered, SocketDataCounted
  <2>2. ~cut' => sockSent = sockGot + rcvd_bytes_pending /\ announced = n
    BY <1>1, <1>2, <1>4 DEF Buffered, SocketDataCounted
  <2> QED  BY <1>1, <1>2, <1>3, <2>1, <2>2 DEF SocketDataCounted, Counters
<1>8. InOrder'
  BY <1>2, AnswerInOrder
<1>9. ASSUME ~fault', ~cut', NEW i \in 0 .. rcvd_bytes_pending' - 1
      PROVE  mdm_data_buff'[i] = sockGot' + 1 + i
  <2>1. s.skip = 0 /\ s.len >= n /\ announced = n
    BY <1>1, <1>4, <1>9
  <2>2. sockSent = sockGot + rcvd_bytes_pending /\ SocketDataIsData
    BY <1>2, <1>4, <1>9 DEF Buffered, SocketDataCounted
  <2>3. rcvd_bytes_pending' <= MAX_BUF_SIZE
    BY <1>1, <1>2, <1>9, Fits
  <2>4. MAX_BUF_SIZE \in Nat
    BY ServiceAssumption DEF ServiceAssumption
  <2>5. /\ rcvd_bytes_pending \in Nat /\ sockGot \in Nat
        /\ i \in Nat /\ i < rcvd_bytes_pending + n
    BY <1>1, <1>2, <1>3, <1>9, <2>1 DEF Counters
  <2>6. i \in 0 .. MAX_BUF_SIZE - 1
    BY <1>3, <2>1, <2>3, <2>4, <2>5
  <2>7. CASE i < rcvd_bytes_pending
    <3>1. mdm_data_buff'[i] = mdm_data_buff[i]
      BY <1>2, <2>6, <2>7, AppendedIs
    <3>2. mdm_data_buff[i] = sockGot + 1 + i
      BY <1>4, <1>9, <2>2, <2>5, <2>7 DEF SocketDataIsData
    <3> QED  BY <1>3, <3>1, <3>2
  <2>8. CASE ~(i < rcvd_bytes_pending)
    <3>1. i - rcvd_bytes_pending < s.len /\ i - rcvd_bytes_pending < n - s.skip
      BY <1>1, <2>1, <2>5
    <3>2. mdm_data_buff'[i] = sockSent + 1 + s.skip + (i - rcvd_bytes_pending)
      BY <1>2, <2>6, <2>8, <3>1, AppendedIs
    <3> QED  BY <1>3, <2>1, <2>2, <2>5, <3>2
  <2> QED  BY <2>7, <2>8
<1>10. ~fault' => rcvd_bytes_pending' <= MAX_BUF_SIZE
  BY <1>1, <1>2, Fits
<1>11. ~fault' => SocketDataIsData'
  BY <1>9 DEF SocketDataIsData
<1> QED  BY <1>6, <1>7, <1>8, <1>10, <1>11 DEF Buffered

(* An answer that is missed leaves the buffer as it is. *)
LEMMA AnswerMissed ==
    ASSUME Buffered, TickRingUnanswered
    PROVE  Buffered'
<1>1. PICK n \in 0 .. MaxPayload : sockSent' = sockSent + n /\ cut' = (cut \/ n > 0)
  BY DEF TickRingUnanswered
<1>2. UNCHANGED <<mdm_data_buff, rcvd_bytes_pending, fault, sockGot, sockLast>>
  BY DEF TickRingUnanswered, TickRing
<1>3. n \in Nat
  BY ServiceAssumption DEF ServiceAssumption
<1> DEFINE some == n > 0
<1>4. cut' = (cut \/ some)
  BY <1>1
<1>5. some \in BOOLEAN /\ (~some => n = 0)
  BY <1>3, SMT
<1> HIDE DEF some
<1>6. cut' \in BOOLEAN /\ (~cut' => ~cut /\ ~some)
  BY <1>4, <1>5, Zenon
<1>7. Counters'
  BY <1>1, <1>2, <1>3, <1>6 DEF Buffered, Counters
<1>8. ~cut' => ~cut /\ n = 0
  BY <1>5, <1>6, Zenon
<1>9. SocketDataCounted'
  BY <1>1, <1>2, <1>3, <1>8 DEF Buffered, Counters, SocketDataCounted
<1>10. InOrder => InOrder'
  <2> SUFFICES ASSUME InOrder PROVE InOrder'
    OBVIOUS
  <2>1. /\ sockSent \in Nat /\ sockSent' = sockSent + n
        /\ \A i \in 0 .. MAX_BUF_SIZE - 1 :
              mdm_data_buff[i] \in Nat /\ (mdm_data_buff[i] # 0 => mdm_data_buff[i] <= sockSent)
    BY <1>1 DEF Buffered, Counters, InOrder
  <2>2. \A i \in 0 .. MAX_BUF_SIZE - 1 : mdm_data_buff[i] # 0 => mdm_data_buff[i] <= sockSent'
    BY <1>3, <2>1
  <2>3. sockLast' <= sockSent'
    BY <1>2, <1>3, <2>1 DEF Buffered, Counters, InOrder
  <2> QED  BY <1>2, <2>2, <2>3 DEF InOrder
<1>11. SocketDataIsData => SocketDataIsData'
  BY <1>2, <1>8 DEF SocketDataIsData
<1> QED  BY <1>2, <1>7, <1>9, <1>10, <1>11 DEF Buffered

(* What mdm_recv() returned came from the start of the buffer, in order. *)
TakenInOrder ==
    /\ \A i \in DOMAIN taken' : taken'[i] # 0 =>
         /\ sockLast < taken'[i]
         /\ \A j \in 1 .. i - 1 : taken'[j] < taken'[i]
    /\ ~cut => \A i \in DOMAIN taken' : taken'[i] = sockGot + i

(* What mdm_recv() leaves moves to the start of the buffer. *)
LEMMA RestMoved ==
    ASSUME Buffered, NEW max_data_len \in 1 .. MAX_BUF_SIZE, mdm_recv(max_data_len)
    PROVE  Buffered' /\ TakenInOrder
<1>1. MAX_BUF_SIZE \in Nat \ {0}
  BY ServiceAssumption DEF ServiceAssumption
<1>2. ~fault /\ UNCHANGED <<fault, sockSent, cut>>
  BY DEF mdm_recv
<1> DEFINE n    == IF max_data_len < rcvd_bytes_pending THEN max_data_len
                                                        ELSE rcvd_bytes_pending
           rest == rcvd_bytes_pending - n
           got  == {sockLast} \cup ToSet(taken')
<1>3. /\ taken' = [i \in 1 .. n |-> mdm_data_buff[i - 1]]
      /\ mdm_data_buff' = [i \in DOMAIN mdm_data_buff |->
                             IF i < rest THEN mdm_data_buff[n + i] ELSE 0]
      /\ rcvd_bytes_pending' = rest
      /\ sockGot' = sockGot + n
      /\ sockLast' \in {v \in got : \A w \in got : w <= v}
  BY DEF mdm_recv
<1>4. n \in Nat /\ rest \in Nat /\ n <= rcvd_bytes_pending
  BY <1>1 DEF Buffered, Counters
<1>5. /\ rcvd_bytes_pending <= MAX_BUF_SIZE /\ rcvd_bytes_pending \in Nat
      /\ sockGot \in Nat /\ sockSent \in Nat /\ sockLast \in Nat
      /\ cut \in BOOLEAN /\ fault \in BOOLEAN
      /\ DOMAIN mdm_data_buff = 0 .. MAX_BUF_SIZE - 1
      /\ InOrder /\ SocketDataIsData
  BY <1>2 DEF Buffered, Counters
<1>6. /\ rest = rcvd_bytes_pending - n
      /\ DOMAIN taken' = 1 .. n
      /\ got = {sockLast} \cup {taken'[i] : i \in 1 .. n}
  <2>1. DOMAIN taken' = 1 .. n
    BY <1>3
  <2> QED  BY <2>1 DEF ToSet
<1> HIDE DEF n, rest, got
<1>7. ASSUME NEW i \in 1 .. n
      PROVE  i - 1 \in 0 .. MAX_BUF_SIZE - 1 /\ i - 1 \in 0 .. rcvd_bytes_pending - 1
             /\ taken'[i] = mdm_data_buff[i - 1] /\ mdm_data_buff[i - 1] \in Nat
  <2>1. i - 1 \in 0 .. MAX_BUF_SIZE - 1 /\ i - 1 \in 0 .. rcvd_bytes_pending - 1
    BY <1>1, <1>4, <1>5
  <2> QED  BY <1>3, <1>5, <2>1 DEF InOrder
<1>8. TakenInOrder
  <2>1. ASSUME NEW i \in 1 .. n, taken'[i] # 0
        PROVE  sockLast < taken'[i]
    BY <1>5, <1>7, <2>1 DEF InOrder
  <2>2. ASSUME NEW i \in 1 .. n, taken'[i] # 0, NEW j \in 1 .. i - 1
        PROVE  taken'[j] < taken'[i]
    <3>1. j \in 1 .. n /\ j - 1 \in 0 .. (i - 1) - 1
      BY <1>4
    <3>2. i - 1 \in 0 .. MAX_BUF_SIZE - 1 /\ mdm_data_buff[i - 1] # 0
      BY <1>7, <2>2
    <3>3. mdm_data_buff[j - 1] < mdm_data_buff[i - 1]
      BY <1>5, <3>1, <3>2 DEF InOrder
    <3> QED  BY <1>7, <3>1, <3>3
  <2>3. ASSUME ~cut, NEW i \in 1 .. n
        PROVE  taken'[i] = sockGot + i
    <3>1. mdm_data_buff[i - 1] = sockGot + 1 + (i - 1)
      BY <1>5, <1>7, <2>3 DEF SocketDataIsData
    <3> QED  BY <1>5, <1>7, <3>1
  <2> QED  BY <1>6, <2>1, <2>2, <2>3 DEF TakenInOrder
<1>9. sockLast' \in got /\ \A i \in 1 .. n : taken'[i] <= sockLast'
  BY <1>3, <1>6
<1>10. sockLast' \in Nat /\ sockLast' <= sockSent
  <2>1. ASSUME NEW i \in 1 .. n
        PROVE  taken'[i] \in Nat /\ taken'[i] <= sockSent
    BY <1>5, <1>7 DEF InOrder
  <2>2. sockLast <= sockSent
    BY <1>5 DEF InOrder
  <2> QED  BY <1>5, <1>6, <1>9, <2>1, <2>2
<1>11. ASSUME NEW i \in 0 .. MAX_BUF_SIZE - 1
       PROVE  \/ /\ i < rest
                 /\ n + i \in 0 .. MAX_BUF_SIZE - 1
                 /\ mdm_data_buff'[i] = mdm_data_buff[n + i]
              \/ ~(i < rest) /\ mdm_data_buff'[i] = 0
  <2>1. mdm_data_buff'[i] = IF i < rest THEN mdm_data_buff[n + i] ELSE 0
    BY <1>3, <1>5
  <2>2. i < rest => n + i \in 0 .. MAX_BUF_SIZE - 1
    BY <1>1, <1>4, <1>5, <1>6
  <2> QED  BY <2>1, <2>2
<1>12. ASSUME NEW i \in 0 .. MAX_BUF_SIZE - 1
       PROVE  /\ mdm_data_buff'[i] \in Nat
              /\ mdm_data_buff'[i] # 0 => /\ i < rest
                                          /\ sockLast' < mdm_data_buff'[i]
                                          /\ mdm_data_buff'[i] <= sockSent
  <2>1. CASE ~(i < rest)
    BY <1>11, <2>1
  <2>2. CASE i < rest
    <3>1. n + i \in 0 .. MAX_BUF_SIZE - 1 /\ mdm_data_buff'[i] = mdm_data_buff[n + i]
      BY <1>11, <2>2
    <3>2. mdm_data_buff[n + i] \in Nat
          /\ (mdm_data_buff[n + i] # 0 => /\ sockLast < mdm_data_buff[n + i]
                                          /\ mdm_data_buff[n + i] <= sockSent)
      BY <1>5, <3>1 DEF InOrder
    <3>3. ASSUME mdm_data_buff[n + i] # 0, NEW k \in 1 .. n
          PROVE  taken'[k] < mdm_data_buff[n + i]
      <4>1. k - 1 \in 0 .. (n + i) - 1
        BY <1>4
      <4>2. mdm_data_buff[k - 1] < mdm_data_buff[n + i]
        BY <1>5, <3>1, <3>3, <4>1 DEF InOrder
      <4> QED  BY <1>7, <4>2
    <3>4. mdm_data_buff[n + i] # 0 => sockLast' < mdm_data_buff[n + i]
      BY <1>6, <1>9, <3>2, <3>3
    <3> QED  BY <2>2, <3>1, <3>2, <3>4
  <2> QED  BY <2>1, <2>2
<1>13. ASSUME NEW i \in 0 .. MAX_BUF_SIZE - 1, NEW j \in 0 .. i - 1, mdm_data_buff'[i] # 0
       PROVE  mdm_data_buff'[j] < mdm_data_buff'[i]
  <2>1. j \in 0 .. MAX_BUF_SIZE - 1 /\ j < i
    BY <1>1
  <2>2. i < rest /\ n + i \in 0 .. MAX_BUF_SIZE - 1 /\ mdm_data_buff'[i] = mdm_data_buff[n + i]
    BY <1>11, <1>13
  <2>3. mdm_data_buff'[j] = mdm_data_buff[n + j]
    BY <1>4, <1>11, <2>1, <2>2
  <2>4. n + j \in 0 .. (n + i) - 1
    BY <1>4
  <2>5. mdm_data_buff[n + j] < mdm_data_buff[n + i]
    BY <1>5, <1>13, <2>2, <2>4 DEF InOrder
  <2> QED  BY <2>2, <2>3, <2>5
<1>14. InOrder'
  BY <1>2, <1>3, <1>10, <1>12, <1>13 DEF InOrder
<1>15. ASSUME ~cut, NEW i \in 0 .. rest - 1
       PROVE  mdm_data_buff'[i] = sockGot + n + 1 + i
  <2>1. i \in 0 .. MAX_BUF_SIZE - 1 /\ i < rest
    BY <1>1, <1>4, <1>5, <1>6
  <2>2. mdm_data_buff'[i] = mdm_data_buff[n + i]
    BY <1>11, <2>1
  <2>3. n + i \in 0 .. rcvd_bytes_pending - 1
    BY <1>4, <1>5, <1>6
  <2>4. mdm_data_buff[n + i] = sockGot + 1 + (n + i)
    BY <1>5, <1>15, <2>3 DEF SocketDataIsData
  <2> QED  BY <1>4, <1>5, <2>2, <2>4
<1>16. SocketDataIsData'
  BY <1>2, <1>3, <1>15 DEF SocketDataIsData
<1>17. SocketDataCounted'
  BY <1>2, <1>3, <1>4, <1>5, <1>6 DEF Buffered, SocketDataCounted
<1>18. Counters'
  <2>1. DOMAIN mdm_data_buff' = 0 .. MAX_BUF_SIZE - 1
    BY <1>3, <1>5
  <2> QED  BY <1>2, <1>3, <1>4, <1>5, <1>10, <2>1 DEF Counters
<1>19. rcvd_bytes_pending' <= MAX_BUF_SIZE
  BY <1>1, <1>3, <1>4, <1>5, <1>6
<1> QED  BY <1>8, <1>14, <1>16, <1>17, <1>18, <1>19 DEF Buffered

LEMMA BufferedKept ==
    ASSUME Buffered, [Next]_vars
    PROVE  Buffered' /\ (sockGot' # sockGot => TakenInOrder)
<1>1. CASE TickRingAnswered
  <2>1. PICK n \in 1 .. MaxPayload : \E s \in Stored(n) : \E announced \in Announced(n, s) :
          Answer(n, s, announced)
    BY <1>1 DEF TickRingAnswered, TickRing, TickRead, Answer
  <2>2. PICK s \in Stored(n) : \E announced \in Announced(n, s) : Answer(n, s, announced)
    BY <2>1
  <2>3. PICK announced \in Announced(n, s) : Answer(n, s, announced)
    BY <2>2
  <2>4. n \in Nat \ {0}
    BY ServiceAssumption DEF ServiceAssumption
  <2>5. Buffered'
    BY <2>3, <2>4, AnswerAppended
  <2>6. sockGot' = sockGot
    BY <2>3 DEF Answer
  <2> QED  BY <2>5, <2>6
<1>2. CASE TickRingUnanswered
  <2>1. sockGot' = sockGot
    BY <1>2 DEF TickRingUnanswered, TickRing
  <2> QED  BY <1>2, <2>1, AnswerMissed
<1>3. CASE \E max_data_len \in 1 .. MAX_BUF_SIZE : mdm_recv(max_data_len)
  BY <1>3, RestMoved
<1>4. CASE /\ ~TickRingAnswered /\ ~TickRingUnanswered
           /\ ~\E max_data_len \in 1 .. MAX_BUF_SIZE : mdm_recv(max_data_len)
  <2>1. UNCHANGED socket /\ (fault' = fault \/ fault' = TRUE)
    BY <1>4 DEF Next, mdm_tick, vars, ModemSends, StartCommand, TickInactive, TickRunning,
       TickIdle, TickPending, TickSuccess, TickCallback
  <2>2. UNCHANGED <<rcvd_bytes_pending, mdm_data_buff, sockSent, sockGot, sockLast, cut>>
    BY <2>1 DEF socket
  <2>3. Counters' /\ (SocketDataCounted => SocketDataCounted')
    BY <2>1, <2>2 DEF Buffered, Counters, SocketDataCounted
  <2>4. InOrder' = InOrder /\ SocketDataIsData' = SocketDataIsData
    BY <2>2 DEF InOrder, SocketDataIsData
  <2>5. ~fault' => ~fault
    BY <2>1
  <2> QED  BY <2>2, <2>3, <2>4, <2>5 DEF Buffered
<1> QED  BY <1>1, <1>2, <1>3, <1>4

LEMMA AlwaysBuffered == Spec => []Buffered
<1>1. Init => Buffered
  <2>1. MAX_BUF_SIZE \in Nat \ {0}
    BY ServiceAssumption DEF ServiceAssumption
  <2> SUFFICES ASSUME Init PROVE Buffered
    OBVIOUS
  <2>2. /\ rcvd_bytes_pending = 0 /\ sockSent = 0 /\ sockGot = 0 /\ sockLast = 0
        /\ fault = FALSE /\ cut = FALSE
        /\ mdm_data_buff = [i \in 0 .. MAX_BUF_SIZE - 1 |-> 0]
    BY DEF Init
  <2>3. SocketDataCounted /\ SocketDataIsData /\ rcvd_bytes_pending <= MAX_BUF_SIZE
    BY <2>1, <2>2 DEF SocketDataCounted, SocketDataIsData
  <2>4. Counters
    <3>1. /\ rcvd_bytes_pending \in Nat /\ sockSent \in Nat /\ sockGot \in Nat
          /\ sockLast \in Nat /\ DOMAIN mdm_data_buff = 0 .. MAX_BUF_SIZE - 1
      BY <2>2
    <3> QED  BY <2>2, <3>1, Zenon DEF Counters
  <2>5. InOrder
    <3>1. \A i \in 0 .. MAX_BUF_SIZE - 1 : mdm_data_buff[i] = 0
      BY <2>2
    <3> QED  BY <2>2, <3>1 DEF InOrder
  <2> QED  BY <2>3, <2>4, <2>5 DEF Buffered
<1>2. Buffered /\ [Next]_vars => Buffered'
  BY BufferedKept
<1> QED  BY <1>1, <1>2, PTL DEF Spec

(* As long as it fits mdm_data_buff, mdm_recv() does not return or promise more bytes than
   the modem sent; and every byte of the socket was returned or is pending, as long as no
   answer to socket_rcv() was missed or read in part. *)
THEOREM Counted == Spec => []SocketDataCounted
<1>1. Buffered => SocketDataCounted
  BY DEF Buffered
<1> QED  BY <1>1, AlwaysBuffered, PTL

(* mdm_recv() returns the bytes of the socket in order and none twice, however the answers
   were split, and exactly them as long as every answer was stored whole, whatever its
   max_data_len and the sizes of the buffer and of the answers. *)
THEOREM ReturnedInOrder == Spec => SocketDataInOrder
<1> DEFINE Ordered ==
      sockGot' # sockGot /\ ~fault =>
         /\ \A i \in DOMAIN taken' : taken'[i] # 0 =>
              /\ sockLast < taken'[i]
              /\ \A j \in 1 .. i - 1 : taken'[j] < taken'[i]
         /\ ~cut => \A i \in DOMAIN taken' : taken'[i] = sockGot + i
<1>1. ASSUME Buffered, [Next]_vars
      PROVE  Ordered
  BY <1>1, BufferedKept DEF TakenInOrder
<1>2. Spec => [][Ordered]_vars
  BY <1>1, AlwaysBuffered, PTL DEF Spec
<1> QED  BY <1>2 DEF SocketDataInOrder
=============================================================================
