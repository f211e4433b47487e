-------------------------- MODULE MdmServiceProps --------------------------
(***************************************************************************)
(* What the clients of MdmService may rely on, and where it fails them.    *)
(***************************************************************************)
EXTENDS MdmService

Texts == BoundedSeq(Items \cup {"text"}, BuffUnits)

(* The variables have their types, the counters their ranges. *)
TypeOK ==
    /\ inbox \in Texts /\ data_read_buff \in Texts /\ SRING_STATUS \in {0, 1}
    /\ curr_status \in Statuses
    /\ curr_cb \in Ops \cup {"none"} /\ curr_cmds \in Ops \cup {"none"}
    /\ cmd_idx \in 0 .. 4 /\ num_cmds \in {0, 1, 2, 4}
    /\ return_data \in {"NULL", "sckt_status"}
    /\ rcvd_bytes_pending \in Nat
    /\ owed \in Ops \cup {"none"} /\ succeeded \in 0 .. 4
    /\ credit <= CreditMax /\ fault \in BOOLEAN

(* While a command set runs, cmd_idx is an index of curr_cmds: no call through,
   and no comparison with, what lies behind the array. *)
CommandInBounds ==
    curr_status \in {"AT_IDLE", "AT_PENDING", "AT_SUCCESS"} =>
        curr_cmds # "none" /\ cmd_idx < Len(CmdSet[curr_cmds])

(* One item "OK" or ">" acknowledges one command: none is left in the buffer to
   acknowledge the next. *)
UsesEachAckOnce == credit >= 0

(* The callback gets the socket status only of an mdm_status(), or of an mdm_close(),
   which does not reset return_data. *)
StatusGivenOnlyForStatus ==
    called # <<>> /\ called[1] \notin {"status", "close"} => called[3] = "NULL"

(* A callback is called for the operation started last, once, with AT_FINISHED exactly
   when all commands of its set, from the first on, were acknowledged, and with the data
   of its own operation. *)
CallbackMatches ==
    [][called' # <<>> /\ called' # called =>
         /\ owed = called'[1]
         /\ called'[2] = "AT_FINISHED" <=> succeeded = Len(CmdSet[owed])
         /\ StatusGivenOnlyForStatus']_vars

(* As long as what the modem sends fits mdm_data_buff: no more bytes were returned or are
   pending than the modem sent; and none is lost if every answer was stored whole. *)
SocketDataCounted ==
    ~fault => /\ sockGot + rcvd_bytes_pending <= sockSent
              /\ ~cut => sockSent = sockGot + rcvd_bytes_pending

(* As long as what the modem sends fits mdm_data_buff, the bytes of the socket among
   those mdm_recv() returns come in the order of the socket, and none comes again, however
   the answers to socket_rcv() were split; and if each of them was read and stored whole,
   it returns all bytes of the socket and nothing else.  After a part of an answer it also
   returns what else is in the buffer: the code counts what the answer announced. *)
SocketDataInOrder ==
    [][sockGot' # sockGot /\ ~fault =>
         /\ \A i \in DOMAIN taken' : taken'[i] # 0 =>
              /\ sockLast < taken'[i]
              /\ \A j \in 1 .. i - 1 : taken'[j] < taken'[i]
         /\ ~cut => \A i \in DOMAIN taken' : taken'[i] = sockGot + i]_vars

(* Whatever else the modem sends, an operation is called back if the modem goes
   on acknowledging what is pending. *)
CalledBack == \A op \in Ops : owed = op ~> (called # <<>> /\ called[1] = op)

----------------------------------------------------------------------------
(* What the comments say and the code does not do. *)

(* mdm_service.c:193 "calls the approriate call back on ERROR or FINISHED", also
   when the operation is started from a callback. *)
ChainedCalledBack == CalledBack
=============================================================================
