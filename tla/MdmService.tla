---------------------------- MODULE MdmService ----------------------------
(***************************************************************************)
(* The modem service: modem_service/mdm_service.c.                         *)
(*                                                                         *)
(* A client starts a set of AT commands (mdm_init, mdm_open, ...) and then *)
(* calls mdm_tick() again and again; each call reads what the UART has and *)
(* takes one step of the state machine curr_status, until the client's     *)
(* callback is called.  All of it runs in the main loop: a call is atomic, *)
(* and only the modem's bytes arrive in between.                           *)
(*                                                                         *)
(* Text is a sequence of items: a result code, an unsolicited message, or  *)
(* "text" for anything that matches no string the service looks for.  An   *)
(* item occupies one unit of the buffers; mdm_read() overwrites as many    *)
(* units at the start of data_read_buff as it has and leaves the rest, as  *)
(* read() does with bytes.  The service does not see which command the     *)
(* modem answers, and the model lets the modem send anything at any time.  *)
(***************************************************************************)
EXTENDS Integers, Sequences, SequencesExt

CONSTANTS
    Ops,           \* the operations the client uses
    Busy,          \* TRUE: it also starts one while another one runs
    Chain,         \* TRUE: it also starts one from a callback
    Items,         \* what the modem can send
    BuffUnits,     \* capacity of data_read_buff in units
    MAX_BUF_SIZE,  \* capacity of mdm_data_buff in bytes
    MaxPayload,    \* bound: bytes of socket data in one #SRECV answer
    MaxSocketBytes,\* bound: bytes of socket data in a behaviour
    Trailer        \* bytes an #SRECV answer has behind its socket data

(* The command sets; open_cmds[cmd_idx] of the code is CmdSet["open"][cmd_idx + 1]. *)
CmdSet ==
    [init   |-> <<"at_echo_off", "at_cmee", "at_cgdcont", "at_sgact">>,
     open   |-> <<"at_sd">>,
     send   |-> <<"at_ssend", "socket_send">>,
     close  |-> <<"at_sh">>,
     status |-> <<"at_ss", "at_si">>]

AllItems == {"OK", "ERROR", ">", "SRING: 1", "NO CARRIER", "text"}

ASSUME ServiceAssumption ==
    /\ Ops \subseteq DOMAIN CmdSet
    /\ Items \subseteq AllItems
    /\ {Busy, Chain} \subseteq BOOLEAN
    /\ BuffUnits \in Nat \ {0} /\ MAX_BUF_SIZE \in Nat \ {0}
    /\ MaxPayload \in Nat /\ MaxSocketBytes \in Nat /\ Trailer \in Nat

VARIABLES
    inbox,               \* what the UART received since the last mdm_read()
    data_read_buff, SRING_STATUS,
    curr_status, curr_cb, curr_cmds, cmd_idx, num_cmds, return_data,
    mdm_data_buff, rcvd_bytes_pending,
    out,                 \* the commands the last step wrote to the UART
    called,              \* the callback the last step called, <<>> if none
    taken,               \* what the last mdm_recv() returned
    \* ghosts
    owed,                \* the operation not called back yet, or "none"
    succeeded,           \* commands acknowledged since it was started
    credit,              \* acknowledgements received and not used, at most CreditMax
    sockSent,            \* bytes of socket data the modem sent in its answers
    sockGot,             \* bytes mdm_recv() returned, and
    sockLast,            \* the last one of them that is a byte of the socket
    cut,                 \* an answer was missed, or not stored whole
    fault                \* a call through, or a write, past the end of an array

parser  == <<inbox, data_read_buff, SRING_STATUS, credit>>
command == <<curr_status, curr_cb, curr_cmds, cmd_idx, num_cmds, return_data,
             owed, succeeded>>
socket  == <<mdm_data_buff, rcvd_bytes_pending, taken, sockSent, sockGot, sockLast, cut>>
vars    == <<parser, command, socket, out, called, fault>>

Statuses == {"AT_INACTIVE", "AT_IDLE", "AT_PENDING", "AT_SUCCESS", "AT_ERROR",
             "AT_FINISHED"}
CreditMax == 2 * BuffUnits     \* no more acknowledgements can be stored at once

Init ==
    /\ inbox = <<>> /\ data_read_buff = <<>> /\ SRING_STATUS = 0
    /\ curr_status = "AT_INACTIVE" /\ curr_cb = "none" /\ curr_cmds = "none"
    /\ cmd_idx = 0 /\ num_cmds = 0 /\ return_data = "NULL"
    /\ mdm_data_buff = [i \in 0 .. MAX_BUF_SIZE - 1 |-> 0]
    /\ rcvd_bytes_pending = 0 /\ taken = <<>>
    /\ out = <<>> /\ called = <<>>
    /\ owed = "none" /\ succeeded = 0 /\ credit = 0
    /\ sockSent = 0 /\ sockGot = 0 /\ sockLast = 0 /\ cut = FALSE
    /\ fault = FALSE

----------------------------------------------------------------------------
(* The modem sends an item; the UART's line buffer holds it until mdm_read(). *)
ModemSends(item) ==
    /\ ~fault
    /\ Len(inbox) < BuffUnits
    /\ inbox' = Append(inbox, item)
    /\ credit' = IF item \in {"OK", ">"} /\ credit < CreditMax THEN credit + 1
                                                               ELSE credit
    /\ UNCHANGED <<data_read_buff, SRING_STATUS, command, socket, out, called, fault>>

----------------------------------------------------------------------------
(* Starting a command set *)

(* mdm_status() sets return_data, mdm_close() leaves it, the others clear it. *)
ReturnData(op) ==
    IF op = "status" THEN "sckt_status"
    ELSE IF op = "close" THEN return_data ELSE "NULL"

StartCommand(op) ==
    /\ ~fault
    /\ Busy \/ curr_status = "AT_INACTIVE"
    /\ curr_cb' = op
    /\ curr_cmds' = op
    /\ num_cmds' = Len(CmdSet[op])
    /\ return_data' = ReturnData(op)
    /\ curr_status' = "AT_IDLE"
    /\ owed' = op /\ succeeded' = 0
    /\ out' = <<>> /\ called' = <<>>
    /\ UNCHANGED <<parser, cmd_idx, socket, fault>>

----------------------------------------------------------------------------
(* mdm_tick() *)

(* data_read_buff once mdm_read() has copied the inbox over its start *)
ReadBuffMutant == data_read_buff \o inbox
ReadBuff == [i \in 1 .. IF Len(inbox) > Len(data_read_buff) THEN Len(inbox)
                                                            ELSE Len(data_read_buff) |->
               IF i <= Len(inbox) THEN inbox[i] ELSE data_read_buff[i]]
Has(item) == item \in ToSet(ReadBuff)                     \* strstr()

SringSeen == SRING_STATUS = 1 \/ Has("SRING: 1")
Reconnect == IF Has("NO CARRIER") THEN <<"at_sd">> ELSE <<>>

(* What every call does first; buff is what the case then leaves of it. *)
TickRead(buff) ==
    /\ ~fault
    /\ inbox' = <<>>
    /\ data_read_buff' = buff

TickInactive ==
    /\ curr_status = "AT_INACTIVE"
    /\ ~SringSeen
    /\ TickRead(ReadBuff)
    /\ out' = Reconnect /\ called' = <<>>
    /\ UNCHANGED <<SRING_STATUS, credit, command, socket, fault>>

(* A ring: the buffer cleared, socket_rcv() written and the UART read once more; left
   is what that read had, any text or nothing. *)
TickRing(left) ==
    /\ curr_status = "AT_INACTIVE"
    /\ SringSeen
    /\ TickRead(left)
    /\ credit' = IF left \in {<<"OK">>, <<">">>} /\ credit < CreditMax THEN credit + 1
                                                                       ELSE credit
    /\ SRING_STATUS' = 0
    /\ out' = Append(Reconnect, "socket_rcv") /\ called' = <<>>
    /\ UNCHANGED <<command, taken, sockGot, sockLast>>

Unit == {<<item>> : item \in Items \cup {"text"}}

(* No "#SRECV: " in what was read: strstr() returns NULL, and sscanf() finds none in
   the memory at address 0 either.  The answer and the n bytes in it, if there is one,
   come later and are not looked at. *)
TickRingUnanswered ==
    /\ \E left \in {<<>>} \cup Unit : TickRing(left)
    /\ \E n \in 0 .. MaxPayload :
        /\ sockSent + n <= MaxSocketBytes
        /\ sockSent' = sockSent + n
        /\ cut' = (cut \/ n > 0)
    /\ UNCHANGED <<mdm_data_buff, rcvd_bytes_pending, fault>>

(* What SRCV_FMT stores of an answer with n bytes of socket data: it skips white space
   at their start and then takes len bytes, of the data and of what follows them, up to
   a letter n, a NUL or the end of what the one mdm_read() had. *)
Stored(n) == {s \in [skip : 0 .. n, len : 0 .. n + Trailer] : s.skip + s.len <= n + Trailer}

(* The number it reads: n, unless what was read ends within its digits, of which there
   are at most three, or before them. *)
Announced(n, s) == IF s.len > 0 THEN {n} ELSE {n \div d : d \in {1, 10, 100, 1000}}

(* mdm_data_buff with these bytes at the end of what is pending there, and a NUL behind
   them; a byte of the socket is its number, any other is 0. *)
AppendedMutant(n, s) ==
    [i \in DOMAIN mdm_data_buff |->
        IF i < s.len /\ i < n - s.skip THEN sockSent + 1 + s.skip + i ELSE mdm_data_buff[i]]
Appended(n, s) ==
    [i \in DOMAIN mdm_data_buff |->
        LET j == i - rcvd_bytes_pending
        IN  IF s.len = 0 \/ j < 0 \/ j > s.len THEN mdm_data_buff[i]
            ELSE IF j < s.len /\ j < n - s.skip THEN sockSent + 1 + s.skip + j ELSE 0]

(* The bytes announced are pending, even if fewer were stored. *)
PendingAfter(announced) == rcvd_bytes_pending + announced

(* The bytes stored, or those mdm_recv() will return, go past the end of the buffer. *)
Overrun(announced, s) ==
    \/ s.len > 0 /\ rcvd_bytes_pending + s.len >= MAX_BUF_SIZE
    \/ PendingAfter(announced) > MAX_BUF_SIZE

Whole(n, s) == s.skip = 0 /\ s.len >= n

TickRingAnswered ==
    /\ \E left \in Unit : TickRing(left)
    /\ \E n \in 1 .. MaxPayload : \E s \in Stored(n) : \E announced \in Announced(n, s) :
        /\ sockSent + n <= MaxSocketBytes
        /\ sockSent' = sockSent + n
        /\ rcvd_bytes_pending' = PendingAfter(announced)
        /\ mdm_data_buff' = Appended(n, s)
        /\ cut' = (cut \/ ~Whole(n, s))
        /\ fault' = Overrun(announced, s)

(* The parts that the states of a running command set have in common *)
TickRunning ==
    /\ SRING_STATUS' = IF SringSeen THEN 1 ELSE 0
    /\ UNCHANGED <<curr_cb, curr_cmds, return_data, socket>>

TickIdle ==
    /\ curr_status = "AT_IDLE"
    /\ TickRead(ReadBuff) /\ TickRunning
    /\ IF cmd_idx < Len(CmdSet[curr_cmds])
       THEN /\ out' = Append(Reconnect, CmdSet[curr_cmds][cmd_idx + 1])
            /\ curr_status' = "AT_PENDING"
            /\ UNCHANGED fault
       ELSE /\ fault' = TRUE
            /\ UNCHANGED <<curr_status, out>>
    /\ called' = <<>>
    /\ UNCHANGED <<cmd_idx, num_cmds, owed, succeeded, credit>>

(* The answers in the order the code tests them: the buffer is cleared after a
   match, so that the later tests find nothing. *)
AcknowledgedMutant ==
    IF CmdSet[curr_cmds][cmd_idx + 1] = "at_ssend" THEN Has(">") ELSE Has("OK")
Acknowledged ==
    Has("OK") \/ (~Has("ERROR") /\ Has(">") /\ CmdSet[curr_cmds][cmd_idx + 1] = "at_ssend")

AfterMatchMutant == ReadBuff       \* no memset()
AfterMatch == <<>>

TickPending ==
    /\ curr_status = "AT_PENDING"
    /\ TickRunning
    /\ IF Acknowledged
       THEN /\ curr_status' = "AT_SUCCESS"
            /\ succeeded' = succeeded + 1
            /\ credit' = credit - 1
            /\ TickRead(AfterMatch)
       ELSE /\ UNCHANGED <<succeeded, credit>>
            /\ IF Has("ERROR") THEN /\ curr_status' = "AT_ERROR"
                                    /\ TickRead(AfterMatch)
                               ELSE /\ UNCHANGED curr_status
                                    /\ TickRead(ReadBuff)
    /\ out' = Reconnect /\ called' = <<>>
    /\ UNCHANGED <<cmd_idx, num_cmds, owed, fault>>

NextStatusMutant == IF cmd_idx + 2 >= num_cmds THEN "AT_FINISHED" ELSE "AT_IDLE"
NextStatus == IF cmd_idx + 1 = num_cmds THEN "AT_FINISHED" ELSE "AT_IDLE"

TickSuccess ==
    /\ curr_status = "AT_SUCCESS"
    /\ TickRead(ReadBuff) /\ TickRunning
    /\ cmd_idx' = cmd_idx + 1
    /\ curr_status' = NextStatus
    /\ out' = Reconnect /\ called' = <<>>
    /\ UNCHANGED <<num_cmds, owed, succeeded, credit, fault>>

IndexAfterMutant == cmd_idx
IndexAfter == 0

(* AT_FINISHED, and the default case for AT_ERROR: the callback, which may start
   another operation, and then the reset. *)
TickCallback ==
    /\ curr_status \in {"AT_FINISHED", "AT_ERROR"}
    /\ TickRead(ReadBuff)
    /\ SRING_STATUS' = IF SringSeen THEN 1 ELSE 0
    /\ called' = <<curr_cb, curr_status, return_data>>
    /\ \/ /\ owed' = "none"
          /\ UNCHANGED <<curr_cb, curr_cmds, return_data>>
       \/ /\ Chain
          /\ \E op \in Ops :
               /\ curr_cb' = op /\ curr_cmds' = op /\ owed' = op
               /\ return_data' = ReturnData(op)
    /\ succeeded' = 0
    /\ cmd_idx' = IndexAfter
    /\ num_cmds' = 0
    /\ curr_status' = "AT_INACTIVE"
    /\ out' = Reconnect
    /\ UNCHANGED <<credit, socket, fault>>

mdm_tick ==
    \/ TickInactive \/ TickRingUnanswered \/ TickRingAnswered
    \/ TickIdle \/ TickPending \/ TickSuccess \/ TickCallback

----------------------------------------------------------------------------
(* mdm_recv(): the first bytes of mdm_data_buff, the rest moved to its start and
   zeroes behind. *)
mdm_recv(max_data_len) ==
    /\ ~fault
    /\ rcvd_bytes_pending > 0
    /\ LET n == IF max_data_len < rcvd_bytes_pending THEN max_data_len
                                                     ELSE rcvd_bytes_pending
           rest == rcvd_bytes_pending - n
       IN  /\ taken' = [i \in 1 .. n |-> mdm_data_buff[i - 1]]
           /\ mdm_data_buff' = [i \in DOMAIN mdm_data_buff |->
                                  IF i < rest THEN mdm_data_buff[n + i] ELSE 0]
           /\ rcvd_bytes_pending' = rest
           /\ sockGot' = sockGot + n
    /\ LET got == {sockLast} \cup ToSet(taken')
       IN  sockLast' \in {v \in got : \A w \in got : w <= v}
    /\ out' = <<>> /\ called' = <<>>
    /\ UNCHANGED <<parser, command, sockSent, cut, fault>>

Next ==
    \/ \E item \in Items : ModemSends(item)
    \/ \E op \in Ops : StartCommand(op)
    \/ mdm_tick
    \/ \E max_data_len \in 1 .. MAX_BUF_SIZE : mdm_recv(max_data_len)

Spec == Init /\ [][Next]_vars

(* The client calls mdm_tick() for ever, and a modem that is waited for ends every
   answer with OK: it sends one again and again while a command is pending. *)
ModemAnswers == curr_status = "AT_PENDING" /\ ModemSends("OK")
Fairness == WF_vars(mdm_tick) /\ SF_vars(ModemAnswers)

FairSpec == Spec /\ Fairness
=============================================================================
