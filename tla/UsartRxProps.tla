--------------------------- MODULE UsartRxProps ---------------------------
(***************************************************************************)
(* What the receive path of UsartRx promises, and where it breaks it.      *)
(***************************************************************************)
EXTENDS UsartRx

Pairs == [0 .. 1 -> [Offsets -> Nat]]
Addresses == [area : {"buffer", "nextbuffer"}, num : 0 .. 1,
              off : 0 .. BUFFER_SIZE]

(* The variables have their types, the counters their ranges. *)
TypeOK ==
    /\ sent \in Nat /\ rhr \in Nat /\ total \in 0 .. BUFFER_SIZE
    /\ mar \in Addresses /\ marr \in Addresses
    /\ tcr \in 0 .. BUFFER_SIZE /\ tcrr \in {0, BUFFER_SIZE}
    /\ cpcs \in BOOLEAN /\ tcRun \in BOOLEAN
    /\ gs_puc_buffer \in Pairs /\ gs_puc_nextbuffer \in Pairs
    /\ gs_v_puc_linebuffer \in [Offsets -> Nat]
    /\ gs_ul_size_buffer \in 0 .. BUFFER_SIZE
    /\ gs_ul_size_nextbuffer \in 0 .. BUFFER_SIZE
    /\ gs_uc_buf_num \in 0 .. 1 /\ g_uc_transend_flag \in {0, 1}
    /\ tail \in 0 .. BUFFER_SIZE /\ count \in 0 .. BUFFER_SIZE
    /\ isr \in IsrSteps /\ main \in {"check", "copy"} /\ got \in Nat
    /\ burst \in [bytes : 0 .. BurstBytes, ticks : {0, 1}]
    /\ raced \in BOOLEAN /\ overrun \in BOOLEAN

(* The PDCA never writes outside the buffer MAR is in, at whatever step of
   TC00_Handler and USART_Handler the byte comes: MAR and TCR are written one
   after the other, and the PDCA goes on between the two writes. *)
DmaInBounds == tcr > 0 => mar.off + tcr <= BUFFER_SIZE

(* Bytes in the holding register. *)
Held == IF rhr = 0 THEN 0 ELSE 1

(* Bytes in the pair gs_uc_buf_num: what TC00_Handler recorded once it did, what
   the PDCA's counters say otherwise. *)
Fill ==
    IF isr \in {"rx_mar", "rx_tcr"} THEN 0
    ELSE IF RxBuff \/ isr \in {"tc_marr", "tc_tcrr", "tc_mar", "tc_tcr"}
    THEN gs_ul_size_buffer + gs_ul_size_nextbuffer
    ELSE IF isr \in {"rx_marr", "rx_tcrr"} THEN BUFFER_SIZE - tcr
    ELSE 2 * BUFFER_SIZE - tcr - tcrr

(* The two ways the hardware can get ahead of the handlers: a byte stored while
   TC00_Handler cuts the pair short, two bytes while the PDCA is stopped. *)
Late == raced \/ overrun

(* Unless that happens each byte on the wire is in exactly one place: returned by
   read(), in the line buffer, in the pair being filled or in the holding register.
   What the two handlers record and what the PDCA's registers say never disagree. *)
NothingLostOrInvented == ~Late => sent = got + count + Fill + Held

(* read() is a lossless FIFO of the bytes of the wire until the hardware gets
   ahead of the handlers or the line buffer overflows. *)
Channel == INSTANCE ByteChannel WITH
    delivered <- got, block <- handed, fault <- Late \/ isr = "corrupt"
ImplementsChannel == Channel!Spec

(* The receiver waits with exactly BUFFER_SIZE bytes: the PDCA went over to
   gs_puc_nextbuffer and TC00_Handler takes the full load counter for "nothing
   received". *)
AtBoundary == mar.area = "nextbuffer" /\ tcr = BUFFER_SIZE

(* The timer's flush: whatever the modem sent is read in the end without its
   having to send more, save for the exceptions above and a pair that stays filled
   exactly to the boundary of its two buffers. *)
FlushedUnlessBoundary ==
    \A n \in 1 .. MaxBytes :
        [](sent >= n => <>(got >= n \/ Late \/ isr = "corrupt" \/ []AtBoundary))

----------------------------------------------------------------------------
(* What the comments say and the code does not do. *)

(* mdm_usart.c:110 "check for size of buffer": dma_usart_bufs_concat() appends
   to the line buffer no more than it has room for. *)
LineBufferFits == isr # "corrupt"
=============================================================================
