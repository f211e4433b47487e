------------------------------ MODULE UsartRx ------------------------------
(***************************************************************************)
(* The receive path of the modem USART: modem_usart/mdm_usart.c.           *)
(*                                                                         *)
(* The PDCA (the DMA controller) moves bytes from the USART's one-byte     *)
(* holding register to a pair of buffers: it fills gs_puc_buffer[n]        *)
(* through its load registers MAR/TCR, then gs_puc_nextbuffer[n] through   *)
(* its reload registers MARR/TCRR.  Two interrupt handlers of the same     *)
(* priority service it.  TC00_Handler, every 1/TC_FREQ s, cuts a partly    *)
(* filled pair short by clearing both counters.  USART_Handler, on RXBUFF  *)
(* (both counters zero), appends the pair to gs_v_puc_linebuffer, changes  *)
(* to the other pair and re-arms the PDCA.  The main loop takes the line   *)
(* buffer with read().                                                     *)
(*                                                                         *)
(* Each access to a PDCA register is a step, so that bytes and timer ticks *)
(* arrive between any two of them.  Bytes are numbered 1, 2, 3, ... on the *)
(* wire; 0 is the content of memory nothing was received into.             *)
(***************************************************************************)
EXTENDS Integers

CONSTANTS
    BUFFER_SIZE,   \* capacity of each of the buffers
    DataLen,       \* the data_len that the callers of read() pass
    MaxBytes,      \* bound: bytes the modem sends in a behaviour
    BurstBytes     \* bytes that can arrive during one burst of handlers

(* Definitions named ...Mutant are faults a maintainer could introduce; each comes
   before the definition it would replace, and none is part of the model. *)
MaxBufNumMutant == 2    \* the number of buffers, for the highest one
MAX_BUF_NUM == 1

ASSUME ConstantsAssumption ==
    /\ BUFFER_SIZE \in Nat /\ DataLen \in Nat
    /\ MaxBytes \in Nat /\ BurstBytes \in Nat
    \* a handler's few accesses take far less than the time of a buffer of bytes
    /\ BurstBytes + 1 < BUFFER_SIZE
    \* main passes 20 (LINEBUFFER_SIZE) and mdm_tick 128 (MAX_BUF_SIZE), B is 10
    /\ DataLen >= BUFFER_SIZE

VARIABLES
    \* the USART and the PDCA channel
    sent,          \* number of bytes the modem has put on the wire
    rhr,           \* the holding register: a byte, or 0 when it is empty
    mar, tcr,      \* load address and counter
    marr, tcrr,    \* reload address and counter
    \* the timer
    cpcs,          \* TC_SR_CPCS: the period ended, the interrupt is pending
    tcRun,         \* the timer counts
    \* memory of mdm_usart.c
    gs_puc_buffer, gs_puc_nextbuffer, gs_v_puc_linebuffer,
    gs_ul_size_buffer, gs_ul_size_nextbuffer, gs_uc_buf_num,
    g_uc_transend_flag, tail, count,
    \* control
    isr,           \* next access of the handler that runs, or "none"
    total,         \* ul_byte_total of TC00_Handler
    main,          \* where the main loop is in read()
    \* what the caller of read() has
    got,           \* number of bytes read() has returned so far
    handed,        \* the bytes the last read() returned
    \* ghosts: the program does not see them
    burst,         \* [bytes, ticks] that arrived in the current burst of handlers
    raced,         \* a byte was stored while TC00_Handler cut the pair short
    overrun        \* the holding register lost a byte

dma    == <<mar, tcr, marr, tcrr>>
bufs   == <<gs_puc_buffer, gs_puc_nextbuffer>>
sizes  == <<gs_ul_size_buffer, gs_ul_size_nextbuffer, g_uc_transend_flag>>
line   == <<gs_v_puc_linebuffer, tail, count>>
reader == <<main, got, handed>>
timer  == <<cpcs, tcRun>>
ghost  == <<burst, raced, overrun>>
vars   == <<sent, rhr, dma, timer, bufs, line, sizes, gs_uc_buf_num,
            isr, total, reader, ghost>>

Offsets == 0 .. BUFFER_SIZE - 1
Addr(area, num) == [area |-> area, num |-> num, off |-> 0]

Window   == {"tc_reload", "tc_marr", "tc_tcrr", "tc_mar", "tc_tcr"}
Rearming == {"rx_mar", "rx_tcr", "rx_marr", "rx_tcrr", "rx_start"}
IsrSteps == {"none", "tc_load", "rx_concat", "corrupt"} \cup Window \cup Rearming

RxBuff == tcr = 0 /\ tcrr = 0      \* US_CSR_RXBUFF
Quiet  == isr = "none" /\ ~cpcs /\ ~RxBuff

(* The state console_run() leaves: the PDCA armed from pdca_rx_options, the
   timer started, the interrupts enabled. *)
Init ==
    /\ sent = 0 /\ rhr = 0
    /\ mar = Addr("buffer", 0) /\ tcr = BUFFER_SIZE
    /\ marr = Addr("nextbuffer", 0) /\ tcrr = BUFFER_SIZE
    /\ cpcs = FALSE /\ tcRun = TRUE
    /\ gs_puc_buffer = [n \in 0 .. 1 |-> [i \in Offsets |-> 0]]
    /\ gs_puc_nextbuffer = [n \in 0 .. 1 |-> [i \in Offsets |-> 0]]
    /\ gs_v_puc_linebuffer = [i \in Offsets |-> 0]
    /\ gs_ul_size_buffer = BUFFER_SIZE /\ gs_ul_size_nextbuffer = BUFFER_SIZE
    /\ gs_uc_buf_num = 0 /\ g_uc_transend_flag = 0
    /\ tail = 0 /\ count = 0
    /\ isr = "none" /\ total = 0
    /\ main = "check" /\ got = 0 /\ handed = [i \in {} |-> 0]
    /\ burst = [bytes |-> 0, ticks |-> 0]
    /\ raced = FALSE /\ overrun = FALSE

----------------------------------------------------------------------------
(* The hardware *)

(* The PDCA stores byte b at MAR; a load counter that reaches zero takes the
   reload registers. *)
Store(b) ==
    /\ IF mar.area = "buffer"
       THEN /\ gs_puc_buffer' = [gs_puc_buffer EXCEPT ![mar.num][mar.off] = b]
            /\ UNCHANGED gs_puc_nextbuffer
       ELSE /\ gs_puc_nextbuffer' = [gs_puc_nextbuffer EXCEPT ![mar.num][mar.off] = b]
            /\ UNCHANGED gs_puc_buffer
    /\ IF tcr = 1 /\ tcrr > 0
       THEN mar' = marr /\ tcr' = tcrr /\ tcrr' = 0
       ELSE mar' = [mar EXCEPT !.off = @ + 1] /\ tcr' = tcr - 1 /\ UNCHANGED tcrr
    /\ UNCHANGED marr
    /\ raced' = (raced \/ isr \in Window)

(* A new burst of handlers begins with a byte that fills the pair (or with a
   timer tick, below); at most BurstBytes arrive while it lasts. *)
CountByte ==
    IF Quiet
    THEN burst' = [bytes |-> 0, ticks |-> 0]
    ELSE /\ burst.bytes < BurstBytes
         /\ burst' = [burst EXCEPT !.bytes = @ + 1]

(* A byte completes in the USART's receiver and the PDCA stores it at once... *)
ReceiveToMemory ==
    /\ isr # "corrupt" /\ sent < MaxBytes
    /\ tcr > 0 /\ rhr = 0
    /\ CountByte
    /\ Store(sent + 1)
    /\ sent' = sent + 1
    /\ UNCHANGED <<rhr, timer, line, sizes, gs_uc_buf_num, isr, total, reader, overrun>>

(* ... or, the PDCA being stopped, it stays in the holding register, where it
   replaces a byte that was not taken. *)
ReceiveToRhr ==
    /\ isr # "corrupt" /\ sent < MaxBytes
    /\ tcr = 0
    /\ CountByte
    /\ rhr' = sent + 1
    /\ overrun' = (overrun \/ rhr # 0)
    /\ sent' = sent + 1
    /\ UNCHANGED <<dma, timer, bufs, line, sizes, gs_uc_buf_num, isr, total,
                   reader, raced>>

(* The PDCA, armed again, takes the byte that waited. *)
StoreHeld ==
    /\ isr # "corrupt"
    /\ rhr # 0 /\ tcr > 0
    /\ Store(rhr)
    /\ rhr' = 0
    /\ UNCHANGED <<sent, timer, line, sizes, gs_uc_buf_num, isr, total, reader,
                   burst, overrun>>

(* The timer's period ends.  A period is far longer than a burst of handlers,
   so that a burst sees one end of period at most. *)
TimerTick ==
    /\ isr # "corrupt"
    /\ tcRun /\ ~cpcs
    /\ Quiet \/ burst.ticks = 0
    /\ cpcs' = TRUE
    /\ burst' = IF Quiet THEN [bytes |-> 0, ticks |-> 1]
                         ELSE [burst EXCEPT !.ticks = 1]
    /\ UNCHANGED <<sent, rhr, dma, tcRun, bufs, line, sizes, gs_uc_buf_num, isr,
                   total, reader, raced, overrun>>

----------------------------------------------------------------------------
(* TC00_Handler.  When both interrupts are pending it runs first: the two have
   the same priority and TC00_IRQn is the smaller number. *)

TcGetStatus ==
    /\ isr = "none" /\ cpcs
    /\ cpcs' = FALSE                      \* reading TC_SR clears it
    /\ isr' = "tc_load"
    /\ UNCHANGED <<sent, rhr, dma, tcRun, bufs, line, sizes, gs_uc_buf_num, total,
                   reader, ghost>>

TcReadLoadSize ==
    /\ isr = "tc_load"
    /\ total' = BUFFER_SIZE - tcr
    /\ isr' = IF total' \in {0, BUFFER_SIZE} THEN "none" ELSE "tc_reload"
    /\ UNCHANGED <<sent, rhr, dma, timer, bufs, line, sizes, gs_uc_buf_num, reader,
                   ghost>>

(* <<gs_ul_size_buffer, gs_ul_size_nextbuffer>>, from the reload counter read *)
RecordedSizesMutant(reload) ==  \* the two cases exchanged
    IF reload # 0 THEN <<BUFFER_SIZE, total>> ELSE <<total, 0>>
RecordedSizes(reload) ==
    IF reload = 0 THEN <<BUFFER_SIZE, total>> ELSE <<total, 0>>

TcReadReloadSize ==
    /\ isr = "tc_reload"
    /\ g_uc_transend_flag' = 1
    /\ gs_ul_size_buffer' = RecordedSizes(tcrr)[1]
    /\ gs_ul_size_nextbuffer' = RecordedSizes(tcrr)[2]
    /\ isr' = "tc_marr"
    /\ UNCHANGED <<sent, rhr, dma, timer, bufs, line, gs_uc_buf_num, total, reader,
                   ghost>>

(* A write to one of the PDCA's registers, the step of the handler that makes it
   and the one that follows; changes is what it does to <<mar, tcr, marr, tcrr>>. *)
WritePdca(from, to, changes) ==
    /\ isr = from
    /\ changes
    /\ isr' = to
    /\ UNCHANGED <<sent, rhr, bufs, line, sizes, gs_uc_buf_num, total, reader, cpcs,
                   ghost>>

(* pdca_channel_write_reload(gs_puc_nextbuffer[gs_uc_buf_num], 0) *)
TcWriteMarr == WritePdca("tc_marr", "tc_tcrr",
    marr' = Addr("nextbuffer", gs_uc_buf_num) /\ UNCHANGED <<mar, tcr, tcrr, tcRun>>)
TcWriteTcrr == WritePdca("tc_tcrr", "tc_mar",
    tcrr' = 0 /\ UNCHANGED <<mar, tcr, marr, tcRun>>)
(* pdca_channel_write_load(gs_puc_buffer[gs_uc_buf_num], 0) *)
TcWriteMar == WritePdca("tc_mar", "tc_tcr",
    mar' = Addr("buffer", gs_uc_buf_num) /\ UNCHANGED <<tcr, marr, tcrr, tcRun>>)
TcWriteTcr == WritePdca("tc_tcr", "none",
    tcr' = 0 /\ UNCHANGED <<mar, marr, tcrr, tcRun>>)

TC00_Handler ==
    \/ TcGetStatus \/ TcReadLoadSize \/ TcReadReloadSize
    \/ TcWriteMarr \/ TcWriteTcrr \/ TcWriteMar \/ TcWriteTcr

----------------------------------------------------------------------------
(* USART_Handler *)

RxGetStatus ==
    /\ isr = "none" /\ ~cpcs /\ RxBuff
    /\ isr' = "rx_concat"
    /\ UNCHANGED <<sent, rhr, dma, timer, bufs, line, sizes, gs_uc_buf_num, total,
                   reader, ghost>>

(* dma_usart_bufs_concat(): append len_b0 bytes of buff0 and len_b1 of buff1 *)
ConcatMutant(buff0, buff1, len_b0, len_b1) ==  \* the whole pair at the start
    /\ gs_v_puc_linebuffer' =
         [i \in Offsets |->
            IF i < len_b0 THEN buff0[i]
            ELSE IF i < len_b0 + len_b1 THEN buff1[i - len_b0]
            ELSE gs_v_puc_linebuffer[i]]
    /\ tail' = tail + len_b0 + len_b1
    /\ count' = count + len_b0 + len_b1
Concat(buff0, buff1, len_b0, len_b1) ==
    /\ gs_v_puc_linebuffer' =
         [i \in Offsets |->
            IF i < tail \/ i >= tail + len_b0 + len_b1 THEN gs_v_puc_linebuffer[i]
            ELSE IF i < tail + len_b0 THEN buff0[i - tail]
            ELSE buff1[i - tail - len_b0]]
    /\ tail' = tail + len_b0 + len_b1
    /\ count' = count + len_b0 + len_b1

(* memcpy() writes past the end of gs_v_puc_linebuffer *)
LineOverflows == tail + gs_ul_size_buffer + gs_ul_size_nextbuffer > BUFFER_SIZE

(* The timer stopped, the pair appended, the sizes restored, the pairs swapped.
   Writing past the line buffer is undefined: the model stops there. *)
RxConcat ==
    /\ isr = "rx_concat"
    /\ ~LineOverflows
    /\ tcRun' = FALSE
    /\ Concat(gs_puc_buffer[gs_uc_buf_num], gs_puc_nextbuffer[gs_uc_buf_num],
              gs_ul_size_buffer, gs_ul_size_nextbuffer)
    /\ IF g_uc_transend_flag = 1
       THEN /\ gs_ul_size_buffer' = BUFFER_SIZE
            /\ gs_ul_size_nextbuffer' = BUFFER_SIZE
            /\ g_uc_transend_flag' = 0
       ELSE UNCHANGED sizes
    /\ gs_uc_buf_num' = MAX_BUF_NUM - gs_uc_buf_num
    /\ isr' = "rx_mar"
    /\ UNCHANGED <<sent, rhr, dma, cpcs, bufs, total, reader, ghost>>

RxConcatOverflow ==
    /\ isr = "rx_concat"
    /\ LineOverflows
    /\ isr' = "corrupt"
    /\ UNCHANGED <<sent, rhr, dma, timer, bufs, line, sizes, gs_uc_buf_num, total,
                   reader, ghost>>

(* pdca_channel_write_load(gs_puc_buffer[gs_uc_buf_num], BUFFER_SIZE) *)
RxWriteMarMutant == WritePdca("rx_mar", "rx_tcr",  \* the address not restarted
    UNCHANGED <<mar, tcr, marr, tcrr, tcRun>>)
RxWriteMar == WritePdca("rx_mar", "rx_tcr",
    mar' = Addr("buffer", gs_uc_buf_num) /\ UNCHANGED <<tcr, marr, tcrr, tcRun>>)
RxWriteTcr == WritePdca("rx_tcr", "rx_marr",
    tcr' = BUFFER_SIZE /\ UNCHANGED <<mar, marr, tcrr, tcRun>>)
(* pdca_channel_write_reload(gs_puc_nextbuffer[gs_uc_buf_num], BUFFER_SIZE) *)
RxWriteMarr == WritePdca("rx_marr", "rx_tcrr",
    marr' = Addr("nextbuffer", gs_uc_buf_num) /\ UNCHANGED <<mar, tcr, tcrr, tcRun>>)
RxWriteTcrr == WritePdca("rx_tcrr", "rx_start",
    tcrr' = BUFFER_SIZE /\ UNCHANGED <<mar, tcr, marr, tcRun>>)
RxTcStartMutant == WritePdca("rx_start", "none", UNCHANGED <<dma, tcRun>>)
RxTcStart == WritePdca("rx_start", "none",
    tcRun' = TRUE /\ UNCHANGED dma)

USART_Handler ==
    \/ RxGetStatus \/ RxConcat \/ RxConcatOverflow \/ RxWriteMar \/ RxWriteTcr
    \/ RxWriteMarr \/ RxWriteTcrr \/ RxTcStart

----------------------------------------------------------------------------
(* read(), called by the main loop; a handler that runs suspends it. *)

(* "if (count > 0)", with the interrupts enabled *)
ReadCheck ==
    /\ isr = "none" /\ main = "check"
    /\ count > 0
    /\ main' = "copy"
    /\ UNCHANGED <<sent, rhr, dma, timer, bufs, line, sizes, gs_uc_buf_num, isr,
                   total, got, handed, ghost>>

ReadSize == IF DataLen < count THEN DataLen ELSE count

(* between cpu_irq_disable() and cpu_irq_enable() *)
ReadCopy ==
    /\ isr = "none" /\ main = "copy"
    /\ handed' = [i \in 1 .. ReadSize |-> gs_v_puc_linebuffer[i - 1]]
    /\ got' = got + ReadSize
    /\ tail' = 0 /\ count' = 0
    /\ main' = "check"
    /\ UNCHANGED <<sent, rhr, dma, timer, bufs, gs_v_puc_linebuffer, sizes,
                   gs_uc_buf_num, isr, total, ghost>>

Next ==
    \/ ReceiveToMemory \/ ReceiveToRhr \/ StoreHeld \/ TimerTick
    \/ TC00_Handler \/ USART_Handler
    \/ ReadCheck \/ ReadCopy

Spec == Init /\ [][Next]_vars

(* The hardware and the processor do not stop: the PDCA stores a byte that waits,
   the timer's periods end, a handler once pending runs to its end and the main
   loop goes on reading: the handlers, a few microseconds in 100 ms, interrupt it
   again and again but leave it time (strong fairness).  The modem need not send
   anything. *)
Fairness ==
    /\ WF_vars(StoreHeld)
    /\ WF_vars(TimerTick)
    /\ WF_vars(TC00_Handler)
    /\ WF_vars(USART_Handler)
    /\ SF_vars(ReadCheck)
    /\ SF_vars(ReadCopy)

FairSpec == Spec /\ Fairness
=============================================================================
