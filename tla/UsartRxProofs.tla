-------------------------- MODULE UsartRxProofs --------------------------
(***************************************************************************)
(* Proofs about UsartRx for every value of its constants: the types, that  *)
(* the PDCA stays inside its buffers, that no byte is lost or invented and *)
(* all are in order until the hardware gets ahead of the handlers, and so  *)
(* that read() implements the abstract ByteChannel.                        *)
(***************************************************************************)
EXTENDS UsartRxProps, TLAPS

B == BUFFER_SIZE

(* The steps of TC00_Handler after it recorded the sizes. *)
Cutting == {"tc_marr", "tc_tcrr", "tc_mar", "tc_tcr"}

(* The PDCA's registers at each step of the handlers, raced or not.  A byte that
   waits in the holding register is the first of a freshly armed pair, or came
   while the PDCA was stopped, in the current burst: that bounds how far the PDCA
   gets while USART_Handler writes the reload registers. *)
RegInv ==
    /\ tcr = 0 => tcrr = 0
    /\ isr \in {"rx_concat", "rx_mar", "rx_tcr", "corrupt"} => tcr = 0
    /\ isr \in {"rx_marr", "rx_tcrr"} =>
         tcrr = 0 /\ B - tcr + Held <= burst.bytes
    /\ isr \in {"tc_mar", "tc_tcr"} => tcrr = 0
    /\ rhr # 0 => \/ tcr = B /\ isr \notin Window
                  \/ tcr = 0 /\ burst.bytes >= 1
    /\ isr = "rx_tcr" => mar = Addr("buffer", gs_uc_buf_num)
    /\ isr = "rx_tcrr" => marr = Addr("nextbuffer", gs_uc_buf_num)
    /\ tcrr = B => marr = Addr("nextbuffer", gs_uc_buf_num)
    /\ marr.off = 0
    /\ tcr > 0 => mar.off + tcr <= B

(* What the handlers record: the sizes are the full ones except between
   TC00_Handler's record and USART_Handler's copy. *)
SizeInv ==
    /\ tail = count
    /\ main = "copy" => count > 0
    /\ g_uc_transend_flag = 0 =>
         gs_ul_size_buffer = B /\ gs_ul_size_nextbuffer = B
    /\ gs_ul_size_nextbuffer > 0 => gs_ul_size_buffer = B
    /\ g_uc_transend_flag = 1 =>
         \/ isr \in Cutting
         \/ tcr = 0 /\ isr \in {"none", "tc_load", "rx_concat", "corrupt"}

(* While the hardware has not got ahead: the PDCA is stopped by nothing but
   TC00_Handler, MAR is where the counters say, the byte held is the last one. *)
ExactInv ==
    /\ isr \in Window => 0 < tcr /\ tcr < B
    /\ isr = "tc_reload" => total = B - tcr
    /\ tcr > 0 /\ isr \notin Window =>
         mar = [area |-> IF tcrr = B \/ isr \in {"rx_marr", "rx_tcrr"}
                         THEN "buffer" ELSE "nextbuffer",
                num |-> gs_uc_buf_num, off |-> B - tcr]
    /\ rhr # 0 => rhr = sent

IInv == /\ TypeOK /\ RegInv /\ SizeInv
        /\ ~Late => ExactInv
        /\ NothingLostOrInvented

LEMMA Store_Type ==
  ASSUME ConstantsAssumption, TypeOK, RegInv, NEW b \in Nat, tcr > 0, Store(b)
  PROVE  /\ mar' \in Addresses /\ marr' \in Addresses
         /\ tcr' \in 0 .. B /\ tcrr' \in {0, B}
         /\ gs_puc_buffer' \in Pairs /\ gs_puc_nextbuffer' \in Pairs
         /\ raced' \in BOOLEAN
<1>1. mar' \in Addresses
  BY DEF TypeOK, RegInv, Store, Addresses, B
<1>2. tcr' \in 0 .. B /\ tcrr' \in {0, B}
  BY DEF ConstantsAssumption, TypeOK, Store, B
<1>3. gs_puc_buffer' \in Pairs
  BY DEF TypeOK, Store, Pairs
<1>4. raced' \in BOOLEAN
  BY DEF TypeOK, Store
<1>5. marr' \in Addresses
  BY DEF TypeOK, RegInv, Store, Addresses, B
<1>6. gs_puc_nextbuffer' \in Pairs
  BY DEF TypeOK, Store, Pairs
<1> QED BY <1>1, <1>2, <1>3, <1>4, <1>5, <1>6

LEMMA ReceiveToMemory_Step == ASSUME ConstantsAssumption, IInv, ReceiveToMemory PROVE IInv'
<1> USE DEF vars, dma, bufs, sizes, line, reader, timer, ghost
<1>1. TypeOK'
  <2>1. sent + 1 \in Nat /\ tcr > 0 BY DEF IInv, TypeOK, ReceiveToMemory
  <2>2. burst' \in [bytes : 0 .. BurstBytes, ticks : {0, 1}]
    BY DEF IInv, TypeOK, ReceiveToMemory, CountByte, ConstantsAssumption
  <2>3. /\ mar' \in Addresses /\ marr' \in Addresses
         /\ tcr' \in 0 .. B /\ tcrr' \in {0, B}
         /\ gs_puc_buffer' \in Pairs /\ gs_puc_nextbuffer' \in Pairs
         /\ raced' \in BOOLEAN
    BY <2>1, Store_Type DEF IInv, ReceiveToMemory
  <2> QED BY <2>1, <2>2, <2>3 DEF IInv, TypeOK, ReceiveToMemory, B
<1>2. RegInv'
  BY DEF IInv, TypeOK, RegInv, ReceiveToMemory, CountByte, Store,
       ConstantsAssumption, Held, B, Addr, Addresses, Window, Quiet, RxBuff
<1>3. SizeInv'
  BY DEF IInv, TypeOK, RegInv, SizeInv, ReceiveToMemory, Store, B, Cutting
<1>4. ~Late' => ExactInv'
  <2> SUFFICES ASSUME ~Late' PROVE ExactInv' OBVIOUS
  <2>1. ~Late BY DEF ReceiveToMemory, Store, Late
  <2>2. isr \notin Window BY DEF ReceiveToMemory, Store, Late
  <2> QED
    BY <2>1, <2>2 DEF IInv, TypeOK, RegInv, ExactInv, ReceiveToMemory, Store, B, Addr,
       Window, Addresses
<1>5. NothingLostOrInvented'
  <2> SUFFICES ASSUME ~Late' PROVE (sent = got + count + Fill + Held)'
    BY DEF NothingLostOrInvented
  <2>1. ~Late BY DEF ReceiveToMemory, Store, Late
  <2>2. isr \notin Window BY DEF ReceiveToMemory, Store, Late
  <2>3. Held' = Held  BY DEF ReceiveToMemory, Held
  <2>4. Fill' = Fill + 1  BY <2>2 DEF IInv, TypeOK, RegInv, SizeInv,
       ReceiveToMemory, Store, Fill, RxBuff, Window, B, Cutting, CountByte, Quiet,
       ConstantsAssumption, Held
  <2> QED BY <2>1, <2>3, <2>4 DEF NothingLostOrInvented, ReceiveToMemory, IInv,
       TypeOK, Held, Fill
<1> QED BY <1>1, <1>2, <1>3, <1>4, <1>5 DEF IInv

LEMMA TimerTick_Step == ASSUME ConstantsAssumption, IInv, TimerTick PROVE IInv'
<1> USE DEF vars, dma, bufs, sizes, line, reader, timer, ghost
<1>1. TypeOK'
  BY DEF IInv, TypeOK, RegInv, SizeInv, TimerTick, Quiet, RxBuff, IsrSteps, Window,
       Rearming, ConstantsAssumption, Addr, Addresses, Offsets, B
<1>2. RegInv'
  BY DEF IInv, TypeOK, RegInv, TimerTick, Quiet, RxBuff, Held, Addr, Addresses,
       Window, ConstantsAssumption, B
<1>3. SizeInv'
  BY DEF IInv, TypeOK, RegInv, SizeInv, TimerTick, Quiet, RxBuff, Cutting, Window,
       ConstantsAssumption, B
<1>4. ~Late' => ExactInv'
  <2> SUFFICES ASSUME ~Late' PROVE ExactInv' OBVIOUS
  <2>1. ~Late BY DEF TimerTick, Quiet, RxBuff, Late
  <2> QED BY <2>1 DEF IInv, TypeOK, RegInv, ExactInv, TimerTick, Quiet, RxBuff,
       Addr, Window, B, ConstantsAssumption, Late
<1>5. NothingLostOrInvented'
  <2> SUFFICES ASSUME ~Late' PROVE (sent = got + count + Fill + Held)'
    BY DEF NothingLostOrInvented
  <2>1. ~Late BY DEF TimerTick, Quiet, RxBuff, Late
  <2> QED BY <2>1 DEF IInv, TypeOK, RegInv, SizeInv, ExactInv,
       NothingLostOrInvented, TimerTick, Quiet, RxBuff, Fill, Held, Window, Cutting,
       B, ConstantsAssumption, Late
<1> QED BY <1>1, <1>2, <1>3, <1>4, <1>5 DEF IInv

LEMMA ReceiveToRhr_Step == ASSUME ConstantsAssumption, IInv, ReceiveToRhr PROVE IInv'
<1> USE DEF vars, dma, bufs, sizes, line, reader, timer, ghost
<1>1. TypeOK'
  BY DEF IInv, TypeOK, RegInv, SizeInv, ReceiveToRhr, CountByte, Quiet, RxBuff,
       IsrSteps, Window, Rearming, ConstantsAssumption, Addr, Addresses, Offsets, B
<1>2. RegInv'
  BY DEF IInv, TypeOK, RegInv, ReceiveToRhr, CountByte, Quiet, RxBuff, Held, Addr,
       Addresses, Window, ConstantsAssumption, B
<1>3. SizeInv'
  BY DEF IInv, TypeOK, RegInv, SizeInv, ReceiveToRhr, CountByte, Quiet, RxBuff,
       Cutting, Window, ConstantsAssumption, B
<1>4. ~Late' => ExactInv'
  <2> SUFFICES ASSUME ~Late' PROVE ExactInv' OBVIOUS
  <2>1. ~Late BY DEF ReceiveToRhr, CountByte, Quiet, RxBuff, Late
  <2> QED BY <2>1 DEF IInv, TypeOK, RegInv, ExactInv, ReceiveToRhr, CountByte,
       Quiet, RxBuff, Addr, Window, B, ConstantsAssumption, Late
<1>5. NothingLostOrInvented'
  <2> SUFFICES ASSUME ~Late' PROVE (sent = got + count + Fill + Held)'
    BY DEF NothingLostOrInvented
  <2>1. ~Late /\ rhr = 0 BY DEF ReceiveToRhr, Late
  <2>2. Held = 0 /\ Held' = 1 BY <2>1 DEF ReceiveToRhr, Held, IInv, TypeOK
  <2>3. Fill' = Fill BY DEF ReceiveToRhr, Fill, RxBuff
  <2>4. Fill \in Int BY DEF IInv, TypeOK, Fill, ConstantsAssumption
  <2> QED BY <2>1, <2>2, <2>3, <2>4 DEF IInv, TypeOK, NothingLostOrInvented,
       ReceiveToRhr
<1> QED BY <1>1, <1>2, <1>3, <1>4, <1>5 DEF IInv

LEMMA StoreHeld_Step == ASSUME ConstantsAssumption, IInv, StoreHeld PROVE IInv'
<1> USE DEF vars, dma, bufs, sizes, line, reader, timer, ghost
<1>1. TypeOK'
  <2>1. /\ mar' \in Addresses /\ marr' \in Addresses
        /\ tcr' \in 0 .. B /\ tcrr' \in {0, B}
        /\ gs_puc_buffer' \in Pairs /\ gs_puc_nextbuffer' \in Pairs
        /\ raced' \in BOOLEAN
    BY Store_Type DEF IInv, TypeOK, StoreHeld
  <2> QED BY <2>1 DEF IInv, TypeOK, StoreHeld, B
<1>2. RegInv'
  <2>1. tcr = B /\ isr \notin Window /\ B > 1
    BY DEF IInv, TypeOK, RegInv, StoreHeld, ConstantsAssumption, B
  <2>2. tcr' = B - 1 /\ tcrr' = tcrr /\ mar' = [mar EXCEPT !.off = @ + 1]
    BY <2>1 DEF IInv, TypeOK, StoreHeld, Store, ConstantsAssumption, B
  <2>3. Held = 1 /\ Held' = 0 BY DEF StoreHeld, Held
  <2> QED BY <2>1, <2>2, <2>3 DEF IInv, TypeOK, RegInv, StoreHeld, Store, Addr,
       Addresses, Window, ConstantsAssumption, B
<1>3. SizeInv'
  BY DEF IInv, TypeOK, RegInv, SizeInv, StoreHeld, Store, Cutting, Window, RxBuff,
       ConstantsAssumption, B
<1>4. ~Late' => ExactInv'
  <2> SUFFICES ASSUME ~Late' PROVE ExactInv' OBVIOUS
  <2>1. ~Late BY DEF StoreHeld, Store, Late
  <2> QED BY <2>1 DEF IInv, TypeOK, RegInv, ExactInv, StoreHeld, Store, Addr,
       Window, B, ConstantsAssumption, Late
<1>5. NothingLostOrInvented'
  <2> SUFFICES ASSUME ~Late' PROVE (sent = got + count + Fill + Held)'
    BY DEF NothingLostOrInvented
  <2>1. ~Late BY DEF StoreHeld, Store, Late
  <2> QED BY <2>1 DEF IInv, TypeOK, RegInv, SizeInv, ExactInv,
       NothingLostOrInvented, StoreHeld, Store, Fill, Held, RxBuff, Window, Cutting,
       B, ConstantsAssumption, Late
<1> QED BY <1>1, <1>2, <1>3, <1>4, <1>5 DEF IInv

LEMMA TcGetStatus_Step == ASSUME ConstantsAssumption, IInv, TcGetStatus PROVE IInv'
<1> USE DEF vars, dma, bufs, sizes, line, reader, timer, ghost
<1>1. TypeOK'
  BY DEF IInv, TypeOK, RegInv, SizeInv, TcGetStatus, IsrSteps, Window, Rearming,
       ConstantsAssumption, Addr, Addresses, Offsets, B
<1>2. RegInv'
  BY DEF IInv, TypeOK, RegInv, TcGetStatus, Held, Addr, Addresses, Window,
       ConstantsAssumption, B, RxBuff
<1>3. SizeInv'
  BY DEF IInv, TypeOK, RegInv, SizeInv, TcGetStatus, Cutting, Window, RxBuff,
       ConstantsAssumption, B
<1>4. ~Late' => ExactInv'
  <2> SUFFICES ASSUME ~Late' PROVE ExactInv' OBVIOUS
  <2>1. ~Late BY DEF TcGetStatus, Late
  <2> QED BY <2>1 DEF IInv, TypeOK, RegInv, ExactInv, TcGetStatus, Addr, Window, B,
       ConstantsAssumption, Late
<1>5. NothingLostOrInvented'
  <2> SUFFICES ASSUME ~Late' PROVE (sent = got + count + Fill + Held)'
    BY DEF NothingLostOrInvented
  <2>1. ~Late BY DEF TcGetStatus, Late
  <2> QED BY <2>1 DEF IInv, TypeOK, RegInv, SizeInv, ExactInv,
       NothingLostOrInvented, TcGetStatus, Fill, Held, RxBuff, Window, Cutting, B,
       ConstantsAssumption, Late
<1> QED BY <1>1, <1>2, <1>3, <1>4, <1>5 DEF IInv

LEMMA TcReadLoadSize_Step == ASSUME ConstantsAssumption, IInv, TcReadLoadSize PROVE IInv'
<1> USE DEF vars, dma, bufs, sizes, line, reader, timer, ghost
<1>1. TypeOK'
  BY DEF IInv, TypeOK, RegInv, SizeInv, TcReadLoadSize, IsrSteps, Window, Rearming,
       ConstantsAssumption, Addr, Addresses, Offsets, B
<1>2. RegInv'
  BY DEF IInv, TypeOK, RegInv, TcReadLoadSize, Held, Addr, Addresses, Window,
       ConstantsAssumption, B, RxBuff
<1>3. SizeInv'
  BY DEF IInv, TypeOK, RegInv, SizeInv, TcReadLoadSize, Cutting, Window, RxBuff,
       ConstantsAssumption, B
<1>4. ~Late' => ExactInv'
  <2> SUFFICES ASSUME ~Late' PROVE ExactInv' OBVIOUS
  <2>1. ~Late BY DEF TcReadLoadSize, Late
  <2> QED BY <2>1 DEF IInv, TypeOK, RegInv, ExactInv, TcReadLoadSize, Addr, Window,
       B, ConstantsAssumption, Late
<1>5. NothingLostOrInvented'
  <2> SUFFICES ASSUME ~Late' PROVE (sent = got + count + Fill + Held)'
    BY DEF NothingLostOrInvented
  <2>1. ~Late BY DEF TcReadLoadSize, Late
  <2> QED BY <2>1 DEF IInv, TypeOK, RegInv, SizeInv, ExactInv,
       NothingLostOrInvented, TcReadLoadSize, Fill, Held, RxBuff, Window, Cutting,
       B, ConstantsAssumption, Late
<1> QED BY <1>1, <1>2, <1>3, <1>4, <1>5 DEF IInv

LEMMA TcReadReloadSize_Step == ASSUME ConstantsAssumption, IInv, TcReadReloadSize PROVE IInv'
<1> USE DEF vars, dma, bufs, sizes, line, reader, timer, ghost
<1>1. TypeOK'
  BY DEF IInv, TypeOK, RegInv, SizeInv, TcReadReloadSize, RecordedSizes, IsrSteps,
       Window, Rearming, ConstantsAssumption, Addr, Addresses, Offsets, B
<1>2. RegInv'
  BY DEF IInv, TypeOK, RegInv, TcReadReloadSize, RecordedSizes, Held, Addr,
       Addresses, Window, ConstantsAssumption, B, RxBuff
<1>3. SizeInv'
  BY DEF IInv, TypeOK, RegInv, SizeInv, TcReadReloadSize, RecordedSizes, Cutting,
       Window, RxBuff, ConstantsAssumption, B
<1>4. ~Late' => ExactInv'
  <2> SUFFICES ASSUME ~Late' PROVE ExactInv' OBVIOUS
  <2>1. ~Late BY DEF TcReadReloadSize, RecordedSizes, Late
  <2> QED BY <2>1 DEF IInv, TypeOK, RegInv, ExactInv, TcReadReloadSize,
       RecordedSizes, Addr, Window, B, ConstantsAssumption, Late
<1>5. NothingLostOrInvented'
  <2> SUFFICES ASSUME ~Late' PROVE (sent = got + count + Fill + Held)'
    BY DEF NothingLostOrInvented
  <2>1. ~Late BY DEF TcReadReloadSize, RecordedSizes, Late
  <2> QED BY <2>1 DEF IInv, TypeOK, RegInv, SizeInv, ExactInv,
       NothingLostOrInvented, TcReadReloadSize, RecordedSizes, Fill, Held, RxBuff,
       Window, Cutting, B, ConstantsAssumption, Late
<1> QED BY <1>1, <1>2, <1>3, <1>4, <1>5 DEF IInv

LEMMA TcWriteMarr_Step == ASSUME ConstantsAssumption, IInv, TcWriteMarr PROVE IInv'
<1> USE DEF vars, dma, bufs, sizes, line, reader, timer, ghost
<1>1. TypeOK'
  BY DEF IInv, TypeOK, RegInv, SizeInv, TcWriteMarr, WritePdca, IsrSteps, Window,
       Rearming, ConstantsAssumption, Addr, Addresses, Offsets, B
<1>2. RegInv'
  BY DEF IInv, TypeOK, RegInv, TcWriteMarr, WritePdca, Held, Addr, Addresses,
       Window, ConstantsAssumption, B, RxBuff
<1>3. SizeInv'
  BY DEF IInv, TypeOK, RegInv, SizeInv, TcWriteMarr, WritePdca, Cutting, Window,
       RxBuff, ConstantsAssumption, B
<1>4. ~Late' => ExactInv'
  <2> SUFFICES ASSUME ~Late' PROVE ExactInv' OBVIOUS
  <2>1. ~Late BY DEF TcWriteMarr, WritePdca, Late
  <2> QED BY <2>1 DEF IInv, TypeOK, RegInv, ExactInv, TcWriteMarr, WritePdca, Addr,
       Window, B, ConstantsAssumption, Late
<1>5. NothingLostOrInvented'
  <2> SUFFICES ASSUME ~Late' PROVE (sent = got + count + Fill + Held)'
    BY DEF NothingLostOrInvented
  <2>1. ~Late BY DEF TcWriteMarr, WritePdca, Late
  <2> QED BY <2>1 DEF IInv, TypeOK, RegInv, SizeInv, ExactInv,
       NothingLostOrInvented, TcWriteMarr, WritePdca, Fill, Held, RxBuff, Window,
       Cutting, B, ConstantsAssumption, Late
<1> QED BY <1>1, <1>2, <1>3, <1>4, <1>5 DEF IInv

LEMMA TcWriteTcrr_Step == ASSUME ConstantsAssumption, IInv, TcWriteTcrr PROVE IInv'
<1> USE DEF vars, dma, bufs, sizes, line, reader, timer, ghost
<1>1. TypeOK'
  BY DEF IInv, TypeOK, RegInv, SizeInv, TcWriteTcrr, WritePdca, IsrSteps, Window,
       Rearming, ConstantsAssumption, Addr, Addresses, Offsets, B
<1>2. RegInv'
  BY DEF IInv, TypeOK, RegInv, TcWriteTcrr, WritePdca, Held, Addr, Addresses,
       Window, ConstantsAssumption, B, RxBuff
<1>3. SizeInv'
  BY DEF IInv, TypeOK, RegInv, SizeInv, TcWriteTcrr, WritePdca, Cutting, Window,
       RxBuff, ConstantsAssumption, B
<1>4. ~Late' => ExactInv'
  <2> SUFFICES ASSUME ~Late' PROVE ExactInv' OBVIOUS
  <2>1. ~Late BY DEF TcWriteTcrr, WritePdca, Late
  <2> QED BY <2>1 DEF IInv, TypeOK, RegInv, ExactInv, TcWriteTcrr, WritePdca, Addr,
       Window, B, ConstantsAssumption, Late
<1>5. NothingLostOrInvented'
  <2> SUFFICES ASSUME ~Late' PROVE (sent = got + count + Fill + Held)'
    BY DEF NothingLostOrInvented
  <2>1. ~Late BY DEF TcWriteTcrr, WritePdca, Late
  <2> QED BY <2>1 DEF IInv, TypeOK, RegInv, SizeInv, ExactInv,
       NothingLostOrInvented, TcWriteTcrr, WritePdca, Fill, Held, RxBuff, Window,
       Cutting, B, ConstantsAssumption, Late
<1> QED BY <1>1, <1>2, <1>3, <1>4, <1>5 DEF IInv

LEMMA TcWriteMar_Step == ASSUME ConstantsAssumption, IInv, TcWriteMar PROVE IInv'
<1> USE DEF vars, dma, bufs, sizes, line, reader, timer, ghost
<1>1. TypeOK'
  BY DEF IInv, TypeOK, RegInv, SizeInv, TcWriteMar, WritePdca, IsrSteps, Window,
       Rearming, ConstantsAssumption, Addr, Addresses, Offsets, B
<1>2. RegInv'
  BY DEF IInv, TypeOK, RegInv, TcWriteMar, WritePdca, Held, Addr, Addresses, Window,
       ConstantsAssumption, B, RxBuff
<1>3. SizeInv'
  BY DEF IInv, TypeOK, RegInv, SizeInv, TcWriteMar, WritePdca, Cutting, Window,
       RxBuff, ConstantsAssumption, B
<1>4. ~Late' => ExactInv'
  <2> SUFFICES ASSUME ~Late' PROVE ExactInv' OBVIOUS
  <2>1. ~Late BY DEF TcWriteMar, WritePdca, Late
  <2> QED BY <2>1 DEF IInv, TypeOK, RegInv, ExactInv, TcWriteMar, WritePdca, Addr,
       Window, B, ConstantsAssumption, Late
<1>5. NothingLostOrInvented'
  <2> SUFFICES ASSUME ~Late' PROVE (sent = got + count + Fill + Held)'
    BY DEF NothingLostOrInvented
  <2>1. ~Late BY DEF TcWriteMar, WritePdca, Late
  <2> QED BY <2>1 DEF IInv, TypeOK, RegInv, SizeInv, ExactInv,
       NothingLostOrInvented, TcWriteMar, WritePdca, Fill, Held, RxBuff, Window,
       Cutting, B, ConstantsAssumption, Late
<1> QED BY <1>1, <1>2, <1>3, <1>4, <1>5 DEF IInv

LEMMA TcWriteTcr_Step == ASSUME ConstantsAssumption, IInv, TcWriteTcr PROVE IInv'
<1> USE DEF vars, dma, bufs, sizes, line, reader, timer, ghost
<1>1. TypeOK'
  BY DEF IInv, TypeOK, RegInv, SizeInv, TcWriteTcr, WritePdca, IsrSteps, Window,
       Rearming, ConstantsAssumption, Addr, Addresses, Offsets, B
<1>2. RegInv'
  BY DEF IInv, TypeOK, RegInv, TcWriteTcr, WritePdca, Held, Addr, Addresses, Window,
       ConstantsAssumption, B, RxBuff
<1>3. SizeInv'
  BY DEF IInv, TypeOK, RegInv, SizeInv, TcWriteTcr, WritePdca, Cutting, Window,
       RxBuff, ConstantsAssumption, B
<1>4. ~Late' => ExactInv'
  <2> SUFFICES ASSUME ~Late' PROVE ExactInv' OBVIOUS
  <2>1. ~Late BY DEF TcWriteTcr, WritePdca, Late
  <2> QED BY <2>1 DEF IInv, TypeOK, RegInv, ExactInv, TcWriteTcr, WritePdca, Addr,
       Window, B, ConstantsAssumption, Late
<1>5. NothingLostOrInvented'
  <2> SUFFICES ASSUME ~Late' PROVE (sent = got + count + Fill + Held)'
    BY DEF NothingLostOrInvented
  <2>1. ~Late BY DEF TcWriteTcr, WritePdca, Late
  <2> QED BY <2>1 DEF IInv, TypeOK, RegInv, SizeInv, ExactInv,
       NothingLostOrInvented, TcWriteTcr, WritePdca, Fill, Held, RxBuff, Window,
       Cutting, B, ConstantsAssumption, Late
<1> QED BY <1>1, <1>2, <1>3, <1>4, <1>5 DEF IInv

LEMMA RxGetStatus_Step == ASSUME ConstantsAssumption, IInv, RxGetStatus PROVE IInv'
<1> USE DEF vars, dma, bufs, sizes, line, reader, timer, ghost
<1>1. TypeOK'
  BY DEF IInv, TypeOK, RegInv, SizeInv, RxGetStatus, RxBuff, IsrSteps, Window,
       Rearming, ConstantsAssumption, Addr, Addresses, Offsets, B
<1>2. RegInv'
  BY DEF IInv, TypeOK, RegInv, RxGetStatus, RxBuff, Held, Addr, Addresses, Window,
       ConstantsAssumption, B
<1>3. SizeInv'
  BY DEF IInv, TypeOK, RegInv, SizeInv, RxGetStatus, RxBuff, Cutting, Window,
       ConstantsAssumption, B
<1>4. ~Late' => ExactInv'
  <2> SUFFICES ASSUME ~Late' PROVE ExactInv' OBVIOUS
  <2>1. ~Late BY DEF RxGetStatus, RxBuff, Late
  <2> QED BY <2>1 DEF IInv, TypeOK, RegInv, ExactInv, RxGetStatus, RxBuff, Addr,
       Window, B, ConstantsAssumption, Late
<1>5. NothingLostOrInvented'
  <2> SUFFICES ASSUME ~Late' PROVE (sent = got + count + Fill + Held)'
    BY DEF NothingLostOrInvented
  <2>1. ~Late BY DEF RxGetStatus, RxBuff, Late
  <2> QED BY <2>1 DEF IInv, TypeOK, RegInv, SizeInv, ExactInv,
       NothingLostOrInvented, RxGetStatus, RxBuff, Fill, Held, Window, Cutting, B,
       ConstantsAssumption, Late
<1> QED BY <1>1, <1>2, <1>3, <1>4, <1>5 DEF IInv

LEMMA RxConcat_Step == ASSUME ConstantsAssumption, IInv, RxConcat PROVE IInv'
<1> USE DEF vars, dma, bufs, sizes, line, reader, timer, ghost
<1>1. TypeOK'
  <2>1. gs_v_puc_linebuffer' \in [Offsets -> Nat]
    <3>1. PICK b0 \in [Offsets -> Nat], b1 \in [Offsets -> Nat] :
            gs_v_puc_linebuffer' =
              [i \in Offsets |->
                IF i < tail \/ i >= tail + gs_ul_size_buffer + gs_ul_size_nextbuffer
                THEN gs_v_puc_linebuffer[i]
                ELSE IF i < tail + gs_ul_size_buffer THEN b0[i - tail]
                ELSE b1[i - tail - gs_ul_size_buffer]]
      BY DEF RxConcat, Concat, IInv, TypeOK, Pairs
    <3> QED BY <3>1 DEF IInv, TypeOK, Offsets, ConstantsAssumption
  <2>2. tail' \in 0 .. B /\ count' \in 0 .. B
    BY DEF IInv, TypeOK, SizeInv, RxConcat, Concat, LineOverflows,
         ConstantsAssumption, B
  <2>3. /\ gs_uc_buf_num' \in 0 .. 1 /\ isr' \in IsrSteps
        /\ gs_ul_size_buffer' \in 0 .. B /\ gs_ul_size_nextbuffer' \in 0 .. B
        /\ g_uc_transend_flag' \in {0, 1}
    BY DEF IInv, TypeOK, RxConcat, MAX_BUF_NUM, IsrSteps, Rearming,
         ConstantsAssumption, B
  <2> QED BY <2>1, <2>2, <2>3 DEF IInv, TypeOK, RxConcat, B
<1>2. RegInv'
  BY DEF IInv, TypeOK, RegInv, RxConcat, Concat, LineOverflows, MAX_BUF_NUM, Held,
       Addr, Addresses, Window, ConstantsAssumption, B, RxBuff
<1>3. SizeInv'
  BY DEF IInv, TypeOK, RegInv, SizeInv, RxConcat, Concat, LineOverflows,
       MAX_BUF_NUM, Cutting, Window, RxBuff, ConstantsAssumption, B
<1>4. ~Late' => ExactInv'
  <2> SUFFICES ASSUME ~Late' PROVE ExactInv' OBVIOUS
  <2>1. ~Late BY DEF RxConcat, Concat, LineOverflows, MAX_BUF_NUM, Late
  <2> QED BY <2>1 DEF IInv, TypeOK, RegInv, ExactInv, RxConcat, Concat,
       LineOverflows, MAX_BUF_NUM, Addr, Window, B, ConstantsAssumption, Late
<1>5. NothingLostOrInvented'
  <2> SUFFICES ASSUME ~Late' PROVE (sent = got + count + Fill + Held)'
    BY DEF NothingLostOrInvented
  <2>1. ~Late BY DEF RxConcat, Concat, LineOverflows, MAX_BUF_NUM, Late
  <2> QED BY <2>1 DEF IInv, TypeOK, RegInv, SizeInv, ExactInv,
       NothingLostOrInvented, RxConcat, Concat, LineOverflows, MAX_BUF_NUM, Fill,
       Held, RxBuff, Window, Cutting, B, ConstantsAssumption, Late
<1> QED BY <1>1, <1>2, <1>3, <1>4, <1>5 DEF IInv

LEMMA RxConcatOverflow_Step == ASSUME ConstantsAssumption, IInv, RxConcatOverflow PROVE IInv'
<1> USE DEF vars, dma, bufs, sizes, line, reader, timer, ghost
<1>1. TypeOK'
  BY DEF IInv, TypeOK, RegInv, SizeInv, RxConcatOverflow, IsrSteps, Window,
       Rearming, ConstantsAssumption, Addr, Addresses, Offsets, B
<1>2. RegInv'
  BY DEF IInv, TypeOK, RegInv, RxConcatOverflow, Held, Addr, Addresses, Window,
       ConstantsAssumption, B, RxBuff
<1>3. SizeInv'
  BY DEF IInv, TypeOK, RegInv, SizeInv, RxConcatOverflow, Cutting, Window, RxBuff,
       ConstantsAssumption, B
<1>4. ~Late' => ExactInv'
  <2> SUFFICES ASSUME ~Late' PROVE ExactInv' OBVIOUS
  <2>1. ~Late BY DEF RxConcatOverflow, Late
  <2> QED BY <2>1 DEF IInv, TypeOK, RegInv, ExactInv, RxConcatOverflow, Addr,
       Window, B, ConstantsAssumption, Late
<1>5. NothingLostOrInvented'
  <2> SUFFICES ASSUME ~Late' PROVE (sent = got + count + Fill + Held)'
    BY DEF NothingLostOrInvented
  <2>1. ~Late BY DEF RxConcatOverflow, Late
  <2> QED BY <2>1 DEF IInv, TypeOK, RegInv, SizeInv, ExactInv,
       NothingLostOrInvented, RxConcatOverflow, Fill, Held, RxBuff, Window, Cutting,
       B, ConstantsAssumption, Late
<1> QED BY <1>1, <1>2, <1>3, <1>4, <1>5 DEF IInv

LEMMA RxWriteMar_Step == ASSUME ConstantsAssumption, IInv, RxWriteMar PROVE IInv'
<1> USE DEF vars, dma, bufs, sizes, line, reader, timer, ghost
<1>1. TypeOK'
  BY DEF IInv, TypeOK, RegInv, SizeInv, RxWriteMar, WritePdca, IsrSteps, Window,
       Rearming, ConstantsAssumption, Addr, Addresses, Offsets, B
<1>2. RegInv'
  BY DEF IInv, TypeOK, RegInv, RxWriteMar, WritePdca, Held, Addr, Addresses, Window,
       ConstantsAssumption, B, RxBuff
<1>3. SizeInv'
  BY DEF IInv, TypeOK, RegInv, SizeInv, RxWriteMar, WritePdca, Cutting, Window,
       RxBuff, ConstantsAssumption, B
<1>4. ~Late' => ExactInv'
  <2> SUFFICES ASSUME ~Late' PROVE ExactInv' OBVIOUS
  <2>1. ~Late BY DEF RxWriteMar, WritePdca, Late
  <2> QED BY <2>1 DEF IInv, TypeOK, RegInv, ExactInv, RxWriteMar, WritePdca, Addr,
       Window, B, ConstantsAssumption, Late
<1>5. NothingLostOrInvented'
  <2> SUFFICES ASSUME ~Late' PROVE (sent = got + count + Fill + Held)'
    BY DEF NothingLostOrInvented
  <2>1. ~Late BY DEF RxWriteMar, WritePdca, Late
  <2> QED BY <2>1 DEF IInv, TypeOK, RegInv, SizeInv, ExactInv,
       NothingLostOrInvented, RxWriteMar, WritePdca, Fill, Held, RxBuff, Window,
       Cutting, B, ConstantsAssumption, Late
<1> QED BY <1>1, <1>2, <1>3, <1>4, <1>5 DEF IInv

LEMMA RxWriteTcr_Step == ASSUME ConstantsAssumption, IInv, RxWriteTcr PROVE IInv'
<1> USE DEF vars, dma, bufs, sizes, line, reader, timer, ghost
<1>1. TypeOK'
  BY DEF IInv, TypeOK, RegInv, SizeInv, RxWriteTcr, WritePdca, IsrSteps, Window,
       Rearming, ConstantsAssumption, Addr, Addresses, Offsets, B
<1>2. RegInv'
  BY DEF IInv, TypeOK, RegInv, RxWriteTcr, WritePdca, Held, Addr, Addresses, Window,
       ConstantsAssumption, B, RxBuff
<1>3. SizeInv'
  BY DEF IInv, TypeOK, RegInv, SizeInv, RxWriteTcr, WritePdca, Cutting, Window,
       RxBuff, ConstantsAssumption, B
<1>4. ~Late' => ExactInv'
  <2> SUFFICES ASSUME ~Late' PROVE ExactInv' OBVIOUS
  <2>1. ~Late BY DEF RxWriteTcr, WritePdca, Late
  <2> QED BY <2>1 DEF IInv, TypeOK, RegInv, ExactInv, RxWriteTcr, WritePdca, Addr,
       Window, B, ConstantsAssumption, Late
<1>5. NothingLostOrInvented'
  <2> SUFFICES ASSUME ~Late' PROVE (sent = got + count + Fill + Held)'
    BY DEF NothingLostOrInvented
  <2>1. ~Late BY DEF RxWriteTcr, WritePdca, Late
  <2> QED BY <2>1 DEF IInv, TypeOK, RegInv, SizeInv, ExactInv,
       NothingLostOrInvented, RxWriteTcr, WritePdca, Fill, Held, RxBuff, Window,
       Cutting, B, ConstantsAssumption, Late
<1> QED BY <1>1, <1>2, <1>3, <1>4, <1>5 DEF IInv

LEMMA RxWriteMarr_Step == ASSUME ConstantsAssumption, IInv, RxWriteMarr PROVE IInv'
<1> USE DEF vars, dma, bufs, sizes, line, reader, timer, ghost
<1>1. TypeOK'
  BY DEF IInv, TypeOK, RegInv, SizeInv, RxWriteMarr, WritePdca, IsrSteps, Window,
       Rearming, ConstantsAssumption, Addr, Addresses, Offsets, B
<1>2. RegInv'
  BY DEF IInv, TypeOK, RegInv, RxWriteMarr, WritePdca, Held, Addr, Addresses,
       Window, ConstantsAssumption, B, RxBuff
<1>3. SizeInv'
  BY DEF IInv, TypeOK, RegInv, SizeInv, RxWriteMarr, WritePdca, Cutting, Window,
       RxBuff, ConstantsAssumption, B
<1>4. ~Late' => ExactInv'
  <2> SUFFICES ASSUME ~Late' PROVE ExactInv' OBVIOUS
  <2>1. ~Late BY DEF RxWriteMarr, WritePdca, Late
  <2> QED BY <2>1 DEF IInv, TypeOK, RegInv, ExactInv, RxWriteMarr, WritePdca, Addr,
       Window, B, ConstantsAssumption, Late
<1>5. NothingLostOrInvented'
  <2> SUFFICES ASSUME ~Late' PROVE (sent = got + count + Fill + Held)'
    BY DEF NothingLostOrInvented
  <2>1. ~Late BY DEF RxWriteMarr, WritePdca, Late
  <2> QED BY <2>1 DEF IInv, TypeOK, RegInv, SizeInv, ExactInv,
       NothingLostOrInvented, RxWriteMarr, WritePdca, Fill, Held, RxBuff, Window,
       Cutting, B, ConstantsAssumption, Late
<1> QED BY <1>1, <1>2, <1>3, <1>4, <1>5 DEF IInv

LEMMA RxWriteTcrr_Step == ASSUME ConstantsAssumption, IInv, RxWriteTcrr PROVE IInv'
<1> USE DEF vars, dma, bufs, sizes, line, reader, timer, ghost
<1>1. TypeOK'
  BY DEF IInv, TypeOK, RegInv, SizeInv, RxWriteTcrr, WritePdca, IsrSteps, Window,
       Rearming, ConstantsAssumption, Addr, Addresses, Offsets, B
<1>2. RegInv'
  BY DEF IInv, TypeOK, RegInv, RxWriteTcrr, WritePdca, Held, Addr, Addresses,
       Window, ConstantsAssumption, B, RxBuff
<1>3. SizeInv'
  BY DEF IInv, TypeOK, RegInv, SizeInv, RxWriteTcrr, WritePdca, Cutting, Window,
       RxBuff, ConstantsAssumption, B
<1>4. ~Late' => ExactInv'
  <2> SUFFICES ASSUME ~Late' PROVE ExactInv' OBVIOUS
  <2>1. ~Late BY DEF RxWriteTcrr, WritePdca, Late
  <2> QED BY <2>1 DEF IInv, TypeOK, RegInv, ExactInv, RxWriteTcrr, WritePdca, Addr,
       Window, B, ConstantsAssumption, Late
<1>5. NothingLostOrInvented'
  <2> SUFFICES ASSUME ~Late' PROVE (sent = got + count + Fill + Held)'
    BY DEF NothingLostOrInvented
  <2>1. ~Late BY DEF RxWriteTcrr, WritePdca, Late
  <2> QED BY <2>1 DEF IInv, TypeOK, RegInv, SizeInv, ExactInv,
       NothingLostOrInvented, RxWriteTcrr, WritePdca, Fill, Held, RxBuff, Window,
       Cutting, B, ConstantsAssumption, Late
<1> QED BY <1>1, <1>2, <1>3, <1>4, <1>5 DEF IInv

LEMMA RxTcStart_Step == ASSUME ConstantsAssumption, IInv, RxTcStart PROVE IInv'
<1> USE DEF vars, dma, bufs, sizes, line, reader, timer, ghost
<1>1. TypeOK'
  BY DEF IInv, TypeOK, RegInv, SizeInv, RxTcStart, WritePdca, IsrSteps, Window,
       Rearming, ConstantsAssumption, Addr, Addresses, Offsets, B
<1>2. RegInv'
  BY DEF IInv, TypeOK, RegInv, RxTcStart, WritePdca, Held, Addr, Addresses, Window,
       ConstantsAssumption, B, RxBuff
<1>3. SizeInv'
  BY DEF IInv, TypeOK, RegInv, SizeInv, RxTcStart, WritePdca, Cutting, Window,
       RxBuff, ConstantsAssumption, B
<1>4. ~Late' => ExactInv'
  <2> SUFFICES ASSUME ~Late' PROVE ExactInv' OBVIOUS
  <2>1. ~Late BY DEF RxTcStart, WritePdca, Late
  <2> QED BY <2>1 DEF IInv, TypeOK, RegInv, ExactInv, RxTcStart, WritePdca, Addr,
       Window, B, ConstantsAssumption, Late
<1>5. NothingLostOrInvented'
  <2> SUFFICES ASSUME ~Late' PROVE (sent = got + count + Fill + Held)'
    BY DEF NothingLostOrInvented
  <2>1. ~Late BY DEF RxTcStart, WritePdca, Late
  <2> QED BY <2>1 DEF IInv, TypeOK, RegInv, SizeInv, ExactInv,
       NothingLostOrInvented, RxTcStart, WritePdca, Fill, Held, RxBuff, Window,
       Cutting, B, ConstantsAssumption, Late
<1> QED BY <1>1, <1>2, <1>3, <1>4, <1>5 DEF IInv

LEMMA ReadCheck_Step == ASSUME ConstantsAssumption, IInv, ReadCheck PROVE IInv'
<1> USE DEF vars, dma, bufs, sizes, line, reader, timer, ghost
<1>1. TypeOK'
  BY DEF IInv, TypeOK, RegInv, SizeInv, ReadCheck, IsrSteps, Window, Rearming,
       ConstantsAssumption, Addr, Addresses, Offsets, B
<1>2. RegInv'
  BY DEF IInv, TypeOK, RegInv, ReadCheck, Held, Addr, Addresses, Window,
       ConstantsAssumption, B, RxBuff
<1>3. SizeInv'
  BY DEF IInv, TypeOK, RegInv, SizeInv, ReadCheck, Cutting, Window, RxBuff,
       ConstantsAssumption, B
<1>4. ~Late' => ExactInv'
  <2> SUFFICES ASSUME ~Late' PROVE ExactInv' OBVIOUS
  <2>1. ~Late BY DEF ReadCheck, Late
  <2> QED BY <2>1 DEF IInv, TypeOK, RegInv, ExactInv, ReadCheck, Addr, Window, B,
       ConstantsAssumption, Late
<1>5. NothingLostOrInvented'
  <2> SUFFICES ASSUME ~Late' PROVE (sent = got + count + Fill + Held)'
    BY DEF NothingLostOrInvented
  <2>1. ~Late BY DEF ReadCheck, Late
  <2> QED BY <2>1 DEF IInv, TypeOK, RegInv, SizeInv, ExactInv,
       NothingLostOrInvented, ReadCheck, Fill, Held, RxBuff, Window, Cutting, B,
       ConstantsAssumption, Late
<1> QED BY <1>1, <1>2, <1>3, <1>4, <1>5 DEF IInv

LEMMA ReadCopy_Step == ASSUME ConstantsAssumption, IInv, ReadCopy PROVE IInv'
<1> USE DEF vars, dma, bufs, sizes, line, reader, timer, ghost
<1>1. TypeOK'
  BY DEF IInv, TypeOK, RegInv, SizeInv, ReadCopy, ReadSize, IsrSteps, Window,
       Rearming, ConstantsAssumption, Addr, Addresses, Offsets, B
<1>2. RegInv'
  BY DEF IInv, TypeOK, RegInv, ReadCopy, ReadSize, Held, Addr, Addresses, Window,
       ConstantsAssumption, B, RxBuff
<1>3. SizeInv'
  BY DEF IInv, TypeOK, RegInv, SizeInv, ReadCopy, ReadSize, Cutting, Window, RxBuff,
       ConstantsAssumption, B
<1>4. ~Late' => ExactInv'
  <2> SUFFICES ASSUME ~Late' PROVE ExactInv' OBVIOUS
  <2>1. ~Late BY DEF ReadCopy, ReadSize, Late
  <2> QED BY <2>1 DEF IInv, TypeOK, RegInv, ExactInv, ReadCopy, ReadSize, Addr,
       Window, B, ConstantsAssumption, Late
<1>5. NothingLostOrInvented'
  <2> SUFFICES ASSUME ~Late' PROVE (sent = got + count + Fill + Held)'
    BY DEF NothingLostOrInvented
  <2>1. ~Late BY DEF ReadCopy, ReadSize, Late
  <2> QED BY <2>1 DEF IInv, TypeOK, RegInv, SizeInv, ExactInv,
       NothingLostOrInvented, ReadCopy, ReadSize, Fill, Held, RxBuff, Window,
       Cutting, B, ConstantsAssumption, Late
<1> QED BY <1>1, <1>2, <1>3, <1>4, <1>5 DEF IInv

LEMMA Next_Step == ASSUME ConstantsAssumption, IInv, [Next]_vars PROVE IInv'
<1>1. CASE UNCHANGED vars
  BY <1>1 DEF vars, dma, bufs, sizes, line, reader, timer, ghost, IInv, TypeOK,
       RegInv, SizeInv, ExactInv, NothingLostOrInvented, Late, Fill, Held, RxBuff
<1>2. CASE TC00_Handler
  BY <1>2, TcGetStatus_Step, TcReadLoadSize_Step, TcReadReloadSize_Step,
       TcWriteMarr_Step, TcWriteTcrr_Step, TcWriteMar_Step, TcWriteTcr_Step DEF
       TC00_Handler
<1>3. CASE USART_Handler
  BY <1>3, RxGetStatus_Step, RxConcat_Step, RxConcatOverflow_Step, RxWriteMar_Step,
       RxWriteTcr_Step, RxWriteMarr_Step, RxWriteTcrr_Step, RxTcStart_Step DEF
       USART_Handler
<1> QED BY <1>1, <1>2, <1>3, ReceiveToMemory_Step, ReceiveToRhr_Step,
     StoreHeld_Step, TimerTick_Step, ReadCheck_Step, ReadCopy_Step DEF Next

LEMMA Init_IInv == ASSUME ConstantsAssumption, Init PROVE IInv
<1>1. TypeOK
  <2>1. mar \in Addresses /\ marr \in Addresses
    BY DEF ConstantsAssumption, Init, Addr, Addresses
  <2>2. /\ gs_puc_buffer \in Pairs /\ gs_puc_nextbuffer \in Pairs
        /\ gs_v_puc_linebuffer \in [Offsets -> Nat]
    BY DEF Init, Pairs
  <2>3. burst \in [bytes : 0 .. BurstBytes, ticks : {0, 1}]
    BY DEF ConstantsAssumption, Init
  <2> QED BY <2>1, <2>2, <2>3 DEF ConstantsAssumption, Init, TypeOK, IsrSteps
<1>2. RegInv
  BY DEF ConstantsAssumption, Init, RegInv, Addr, Held, Window, B
<1>3. SizeInv /\ ExactInv
  BY DEF ConstantsAssumption, Init, SizeInv, ExactInv, Cutting, Window, Addr, B
<1>4. NothingLostOrInvented
  BY DEF ConstantsAssumption, Init, NothingLostOrInvented, Fill, Held, RxBuff,
       Cutting
<1> QED BY <1>1, <1>2, <1>3, <1>4 DEF IInv

(* The inductive invariant holds: it is what the theorems below rest on. *)
THEOREM Inductive == Spec => []IInv
<1>1. Init => IInv BY ConstantsAssumption, Init_IInv
<1>2. IInv /\ [Next]_vars => IInv' BY ConstantsAssumption, Next_Step
<1> QED BY <1>1, <1>2, PTL DEF Spec

(* The variables of mdm_usart.c and of the PDCA keep their types and ranges. *)
THEOREM TypeCorrect == Spec => []TypeOK
<1>1. IInv => TypeOK BY DEF IInv
<1> QED BY <1>1, Inductive, PTL

(* The PDCA never writes outside the buffer it is in (mdm_usart.c:83-86, 148-151),
   whatever the size of the buffers, raced or not. *)
THEOREM DmaStaysInBounds == Spec => []DmaInBounds
<1>1. IInv => DmaInBounds BY DEF IInv, RegInv, DmaInBounds, B
<1> QED BY <1>1, Inductive, PTL

(* No byte is lost, counted twice or invented until the hardware gets ahead of the
   handlers, for buffers of every size. *)
THEOREM NothingLost == Spec => []NothingLostOrInvented
<1>1. IInv => NothingLostOrInvented BY DEF IInv
<1> QED BY <1>1, Inductive, PTL

LEMMA Fill_Int == ASSUME ConstantsAssumption, IInv, IInv'
                  PROVE  Fill \in Int /\ Fill' \in Int
  BY DEF IInv, TypeOK, Fill, ConstantsAssumption

(* Each byte that NothingLostOrInvented counts is in its place: the line buffer and then
   the pair hold the next bytes of the wire in order. *)
InOrder ==
    ~Late =>
    /\ \A i \in 0 .. count - 1 : gs_v_puc_linebuffer[i] = got + 1 + i
    /\ isr # "corrupt" =>
       \A i \in Offsets :
         /\ i < Fill => gs_puc_buffer[gs_uc_buf_num][i] = got + count + 1 + i
         /\ BUFFER_SIZE + i < Fill =>
              gs_puc_nextbuffer[gs_uc_buf_num][i] = got + count + BUFFER_SIZE + 1 + i

(***************************************************************************)
(* The content: a step that moves no byte and changes no buffer keeps the  *)
(* order, because IInv before and after pins Fill.                         *)
(***************************************************************************)
LEMMA SameContent ==
  ASSUME ConstantsAssumption, IInv, IInv', InOrder,
         UNCHANGED <<sent, rhr, bufs, line, gs_uc_buf_num, got>>,
         ~Late' => ~Late, isr' # "corrupt" => isr # "corrupt"
  PROVE  InOrder'
<1> SUFFICES ASSUME ~Late' PROVE InOrder' BY DEF InOrder
<1>1. Fill \in Int /\ Fill' \in Int BY Fill_Int
<1>2. Held' = Held /\ Held \in Int BY DEF Held
<1>3. Fill' = Fill
  <2>1. sent = got + count + Fill + Held BY DEF IInv, NothingLostOrInvented
  <2>2. (sent = got + count + Fill + Held)' BY DEF IInv, NothingLostOrInvented
  <2>3. sent' = sent /\ got' = got /\ count' = count BY DEF line
  <2>4. sent \in Int /\ got \in Int /\ count \in Int BY DEF IInv, TypeOK,
       ConstantsAssumption
  <2>5. PICK f \in Int, g \in Int, h \in Int : f = Fill /\ g = Fill' /\ h = Held
    BY <1>1, <1>2
  <2>6. sent = got + count + f + h /\ sent = got + count + g + h
    BY <1>2, <2>1, <2>2, <2>3, <2>5
  <2>7. f = g BY <2>4, <2>6
  <2> QED BY <2>5, <2>7
<1> QED BY <1>3 DEF InOrder, bufs, line

(* The byte stored is the next one, and it goes where the pair's next byte does. *)
LEMMA Store_InOrder ==
  ASSUME ConstantsAssumption, IInv, IInv', InOrder, NEW b \in Nat,
         tcr > 0, Store(b), isr # "corrupt",
         b = got + count + Fill + 1, Fill' = Fill + 1,
         UNCHANGED <<line, gs_uc_buf_num, got, isr>>, ~Late' => ~Late
  PROVE  InOrder'
<1> SUFFICES ASSUME ~Late' PROVE InOrder' BY DEF InOrder
<1> USE DEF line
<1>1. ~Late /\ isr \notin Window BY DEF Store, Late
<1>2. mar = [area |-> IF tcrr = B \/ isr \in {"rx_marr", "rx_tcrr"}
                      THEN "buffer" ELSE "nextbuffer",
             num |-> gs_uc_buf_num, off |-> B - tcr]
  BY <1>1 DEF IInv, ExactInv, TypeOK
<1>3. Fill = IF mar.area = "buffer" THEN B - tcr ELSE 2 * B - tcr
  BY <1>1, <1>2 DEF IInv, TypeOK, RegInv, Fill, RxBuff, Window, B,
       ConstantsAssumption
<1>4. CASE mar.area = "buffer"
  <2>1. \A i \in 0 .. count' - 1 : gs_v_puc_linebuffer'[i] = got' + 1 + i
    BY <1>1 DEF InOrder
  <2>2. ASSUME NEW i \in Offsets
        PROVE  /\ i < Fill' => gs_puc_buffer'[gs_uc_buf_num][i] = got + count + 1 + i
               /\ B + i < Fill' =>
                    gs_puc_nextbuffer'[gs_uc_buf_num][i] = got + count + B + 1 + i
    <3>1. /\ i < Fill => gs_puc_buffer[gs_uc_buf_num][i] = got + count + 1 + i
          /\ B + i < Fill =>
               gs_puc_nextbuffer[gs_uc_buf_num][i] = got + count + B + 1 + i
      BY <1>1, <2>2 DEF InOrder, B
    <3>2. /\ gs_puc_buffer' = [gs_puc_buffer EXCEPT ![gs_uc_buf_num][B - tcr] = b]
          /\ gs_puc_nextbuffer' = gs_puc_nextbuffer
      BY <1>2, <1>4 DEF Store
    <3>3. /\ gs_puc_buffer \in [0 .. 1 -> [Offsets -> Nat]]
          /\ gs_uc_buf_num \in 0 .. 1
      BY DEF IInv, TypeOK, Pairs
    <3>6. /\ B \in Nat /\ tcr \in 1 .. B /\ i \in 0 .. B - 1
          /\ got \in Nat /\ count \in Nat
      BY <2>2 DEF IInv, TypeOK, Offsets, B, ConstantsAssumption
    <3>4. Fill = B - tcr BY <1>3, <1>4
    <3>5. gs_puc_buffer'[gs_uc_buf_num][i] =
            IF i = B - tcr THEN b ELSE gs_puc_buffer[gs_uc_buf_num][i]
      BY <3>2, <3>3, <3>6, <2>2
    <3> QED BY <3>1, <3>2, <3>6, <3>4, <3>5
  <2> QED BY <2>1, <2>2 DEF InOrder, B
<1>5. CASE mar.area # "buffer"
  <2>1. \A i \in 0 .. count' - 1 : gs_v_puc_linebuffer'[i] = got' + 1 + i
    BY <1>1 DEF InOrder
  <2>2. ASSUME NEW i \in Offsets
        PROVE  /\ i < Fill' => gs_puc_buffer'[gs_uc_buf_num][i] = got + count + 1 + i
               /\ B + i < Fill' =>
                    gs_puc_nextbuffer'[gs_uc_buf_num][i] = got + count + B + 1 + i
    <3>1. /\ i < Fill => gs_puc_buffer[gs_uc_buf_num][i] = got + count + 1 + i
          /\ B + i < Fill =>
               gs_puc_nextbuffer[gs_uc_buf_num][i] = got + count + B + 1 + i
      BY <1>1, <2>2 DEF InOrder, B
    <3>2. /\ gs_puc_nextbuffer' = [gs_puc_nextbuffer EXCEPT ![gs_uc_buf_num][B - tcr] = b]
          /\ gs_puc_buffer' = gs_puc_buffer
      BY <1>2, <1>5 DEF Store
    <3>3. /\ gs_puc_nextbuffer \in [0 .. 1 -> [Offsets -> Nat]]
          /\ gs_uc_buf_num \in 0 .. 1
      BY DEF IInv, TypeOK, Pairs
    <3>6. /\ B \in Nat /\ tcr \in 1 .. B /\ i \in 0 .. B - 1
          /\ got \in Nat /\ count \in Nat
      BY <2>2 DEF IInv, TypeOK, Offsets, B, ConstantsAssumption
    <3>4. Fill = 2 * B - tcr BY <1>3, <1>5
    <3>5. gs_puc_nextbuffer'[gs_uc_buf_num][i] =
            IF i = B - tcr THEN b ELSE gs_puc_nextbuffer[gs_uc_buf_num][i]
      BY <3>2, <3>3, <3>6, <2>2
    <3> QED BY <3>1, <3>2, <3>6, <3>4, <3>5
  <2> QED BY <2>1, <2>2 DEF InOrder, B
<1> QED BY <1>4, <1>5

LEMMA RxConcat_InOrder ==
  ASSUME ConstantsAssumption, IInv, IInv', InOrder, RxConcat
  PROVE  InOrder'
<1> SUFFICES ASSUME ~Late' PROVE InOrder' BY DEF InOrder
<1> DEFINE s0 == gs_ul_size_buffer
           s1 == gs_ul_size_nextbuffer
           b0 == gs_puc_buffer[gs_uc_buf_num]
           b1 == gs_puc_nextbuffer[gs_uc_buf_num]
<1>1. ~Late BY DEF RxConcat, Late, ghost
<1>2. Fill = s0 + s1 /\ Fill' = 0
  BY DEF IInv, RegInv, RxConcat, Fill, RxBuff
<1>3. /\ \A i \in 0 .. count - 1 : gs_v_puc_linebuffer[i] = got + 1 + i
      /\ \A i \in Offsets : i < s0 => b0[i] = got + count + 1 + i
      /\ \A i \in Offsets : i < s1 => b1[i] = got + count + s0 + 1 + i
  <2>1. /\ \A i \in 0 .. count - 1 : gs_v_puc_linebuffer[i] = got + 1 + i
        /\ \A i \in Offsets :
             /\ i < Fill => b0[i] = got + count + 1 + i
             /\ B + i < Fill => b1[i] = got + count + B + 1 + i
    BY <1>1 DEF InOrder, RxConcat, B
  <2>2. s0 \in 0 .. B /\ s1 \in 0 .. B /\ B \in Nat /\ (s1 > 0 => s0 = B)
    BY DEF IInv, TypeOK, SizeInv, B, ConstantsAssumption
  <2> QED BY <1>2, <2>1, <2>2 DEF Offsets
<1>4. /\ count' = count + s0 + s1 /\ tail = count /\ got' = got
      /\ count' <= B
      /\ gs_v_puc_linebuffer' =
           [i \in Offsets |->
             IF i < tail \/ i >= tail + s0 + s1 THEN gs_v_puc_linebuffer[i]
             ELSE IF i < tail + s0 THEN b0[i - tail] ELSE b1[i - tail - s0]]
  BY DEF RxConcat, Concat, LineOverflows, IInv, TypeOK, SizeInv, reader, B,
       ConstantsAssumption
<1>5. ASSUME NEW i \in 0 .. count' - 1
      PROVE  gs_v_puc_linebuffer'[i] = got' + 1 + i
  <2>2. s0 \in 0 .. B /\ s1 \in 0 .. B /\ count \in 0 .. B /\ got \in Nat /\ B \in Nat
    BY DEF IInv, TypeOK, B, ConstantsAssumption
  <2>1. i \in Offsets /\ i \in Nat
    BY <1>4, <2>2 DEF Offsets, B
  <2>3. CASE i < tail
    BY <1>3, <1>4, <2>1, <2>2, <2>3
  <2>4. CASE i >= tail /\ i < tail + s0
    <3>1. i - tail \in Offsets /\ i - tail < s0
      BY <1>4, <2>1, <2>2, <2>4 DEF Offsets, B
    <3>2. gs_v_puc_linebuffer'[i] = b0[i - tail]
      BY <1>4, <2>1, <2>2, <2>4
    <3> QED BY <1>3, <1>4, <2>1, <2>2, <3>1, <3>2
  <2>5. CASE i >= tail + s0
    <3>1. i - tail - s0 \in Offsets /\ i - tail - s0 < s1
      BY <1>4, <2>1, <2>2, <2>5 DEF Offsets, B
    <3>2. gs_v_puc_linebuffer'[i] = b1[i - tail - s0]
      BY <1>4, <2>1, <2>2, <2>5
    <3> QED BY <1>3, <1>4, <2>1, <2>2, <3>1, <3>2
  <2> QED BY <1>4, <2>1, <2>2, <2>3, <2>4, <2>5
<1>6. \A i \in Offsets : ~(i < Fill') /\ ~(B + i < Fill')
  BY <1>2 DEF Offsets, B, ConstantsAssumption
<1> QED BY <1>5, <1>6 DEF InOrder, B

LEMMA ReceiveToMemory_InOrder ==
  ASSUME ConstantsAssumption, IInv, IInv', InOrder, ReceiveToMemory
  PROVE  InOrder'
<1> SUFFICES ASSUME ~Late' PROVE InOrder' BY DEF InOrder
<1>1. ~Late BY DEF ReceiveToMemory, Store, Late
<1>2. PICK f \in Int, g \in Int : f = Fill /\ g = Fill'
  BY Fill_Int
<1>3. Held = 0 /\ Held' = 0 BY DEF ReceiveToMemory, Held
<1>4. got' = got /\ count' = count /\ got \in Int /\ count \in Int /\ sent \in Nat
  BY DEF ReceiveToMemory, IInv, TypeOK, line, reader
<1>5. sent = got + count + f + 0 BY <1>1, <1>2, <1>3 DEF IInv, NothingLostOrInvented
<1>6. sent + 1 = got + count + g + 0
  BY <1>2, <1>3, <1>4 DEF IInv, NothingLostOrInvented, ReceiveToMemory
<1>7. sent + 1 = got + count + f + 1 /\ g = f + 1 /\ sent + 1 \in Nat
  BY <1>4, <1>5, <1>6
<1> QED BY <1>1, <1>2, <1>7, Store_InOrder DEF ReceiveToMemory, reader, line

LEMMA StoreHeld_InOrder ==
  ASSUME ConstantsAssumption, IInv, IInv', InOrder, StoreHeld
  PROVE  InOrder'
<1> SUFFICES ASSUME ~Late' PROVE InOrder' BY DEF InOrder
<1>1. ~Late BY DEF StoreHeld, Store, Late
<1>2. PICK f \in Int, g \in Int : f = Fill /\ g = Fill'
  BY Fill_Int
<1>3. Held = 1 /\ Held' = 0 /\ rhr = sent
  BY <1>1 DEF StoreHeld, Held, IInv, ExactInv
<1>4. /\ got' = got /\ count' = count /\ sent' = sent
      /\ got \in Int /\ count \in Int /\ sent \in Nat
  BY DEF StoreHeld, IInv, TypeOK, line, reader
<1>5. sent = got + count + f + 1 BY <1>1, <1>2, <1>3 DEF IInv, NothingLostOrInvented
<1>6. sent = got + count + g + 0
  BY <1>2, <1>3, <1>4 DEF IInv, NothingLostOrInvented
<1>7. sent = got + count + f + 1 /\ g = f + 1
  BY <1>4, <1>5, <1>6
<1> QED BY <1>1, <1>2, <1>3, <1>4, <1>7, Store_InOrder DEF StoreHeld, reader, line

LEMMA ReceiveToRhr_InOrder ==
  ASSUME IInv, InOrder, ReceiveToRhr
  PROVE  InOrder'
<1>1. Fill' = Fill BY DEF ReceiveToRhr, Fill, RxBuff, dma, sizes
<1>2. ~Late' => ~Late BY DEF ReceiveToRhr, Late
<1> QED BY <1>1, <1>2 DEF ReceiveToRhr, InOrder, line, reader, bufs

LEMMA ReadCopy_InOrder ==
  ASSUME ConstantsAssumption, IInv, InOrder, ReadCopy
  PROVE  InOrder'
<1>1. Fill' = Fill BY DEF ReadCopy, Fill, RxBuff, dma, sizes
<1>2. ~Late' => ~Late BY DEF ReadCopy, Late, ghost
<1>3. ReadSize = count BY DEF IInv, TypeOK, ReadSize, ConstantsAssumption
<1>4. /\ count' = 0 /\ got' = got + count /\ got' + count' = got + count
      /\ got \in Nat /\ count \in Nat
  BY <1>3 DEF ReadCopy, IInv, TypeOK, ConstantsAssumption
<1> QED BY <1>1, <1>2, <1>4 DEF ReadCopy, InOrder, bufs

LEMMA Next_InOrder ==
  ASSUME ConstantsAssumption, IInv, InOrder, [Next]_vars
  PROVE  InOrder'
<1> USE Next_Step DEF vars, reader, ghost
<1>1. CASE ReceiveToMemory BY <1>1, ReceiveToMemory_InOrder
<1>2. CASE StoreHeld BY <1>2, StoreHeld_InOrder
<1>3. CASE ReceiveToRhr BY <1>3, ReceiveToRhr_InOrder
<1>4. CASE ReadCopy BY <1>4, ReadCopy_InOrder
<1>5. CASE RxConcat BY <1>5, RxConcat_InOrder
<1>6. CASE TimerTick
  BY <1>6, SameContent DEF TimerTick, Late
<1>7. CASE TC00_Handler
  BY <1>7, SameContent DEF TC00_Handler, Late, TcGetStatus, TcReadLoadSize,
       TcReadReloadSize, TcWriteMarr, TcWriteTcrr, TcWriteMar, TcWriteTcr, WritePdca
<1>8. CASE RxGetStatus \/ RxConcatOverflow \/ RxWriteMar \/ RxWriteTcr
           \/ RxWriteMarr \/ RxWriteTcrr \/ RxTcStart
  BY <1>8, SameContent DEF Late, RxGetStatus, RxConcatOverflow, RxWriteMar,
       RxWriteTcr, RxWriteMarr, RxWriteTcrr, RxTcStart, WritePdca
<1>9. CASE ReadCheck
  BY <1>9, SameContent DEF ReadCheck, Late, line
<1>10. CASE UNCHANGED vars
  BY <1>10, SameContent DEF Late
<1> QED BY <1>1, <1>2, <1>3, <1>4, <1>5, <1>6, <1>7, <1>8, <1>9, <1>10 DEF Next,
     USART_Handler

(* The line buffer and the pair hold the next bytes of the wire in order, for
   buffers of every size, until the hardware gets ahead of the handlers. *)
THEOREM OrderKept == Spec => []InOrder
<1>1. Init => InOrder
  BY ConstantsAssumption DEF Init, InOrder, Fill, RxBuff, Offsets,
       ConstantsAssumption
<1>2. IInv /\ InOrder /\ [Next]_vars => InOrder'
  BY ConstantsAssumption, Next_InOrder
<1> QED BY <1>1, <1>2, Inductive, PTL DEF Spec

----------------------------------------------------------------------------
(* The refinement: each step is a step of ByteChannel or changes nothing it sees. *)

LEMMA ReadCopy_Delivers ==
  ASSUME ConstantsAssumption, IInv, InOrder, ReadCopy, ~Late, isr # "corrupt"
  PROVE  Channel!Deliver
<1>1. ReadSize = count /\ count \in 1 .. B /\ got \in Nat /\ sent \in Nat /\ B \in Nat
  BY DEF IInv, TypeOK, SizeInv, ReadCopy, ReadSize, ConstantsAssumption, B
<1>2. Fill \in Nat /\ Held \in Nat
  BY DEF IInv, TypeOK, Fill, Held, ConstantsAssumption
<1>3. PICK f \in Nat, h \in Nat : f = Fill /\ h = Held BY <1>2
<1>4. sent = got + count + f + h BY <1>3 DEF IInv, NothingLostOrInvented
<1>5. count \in 1 .. sent - got BY <1>1, <1>4
<1>6. \A i \in 1 .. count : gs_v_puc_linebuffer[i - 1] = got + i
  <2> SUFFICES ASSUME NEW i \in 1 .. count
               PROVE  gs_v_puc_linebuffer[i - 1] = got + i
    OBVIOUS
  <2>1. i - 1 \in 0 .. count - 1 /\ got + 1 + (i - 1) = got + i BY <1>1
  <2> QED BY <2>1 DEF InOrder
<1>7. handed' = [i \in 1 .. count |-> got + i]
  BY <1>1, <1>6 DEF ReadCopy
<1> QED BY <1>1, <1>5, <1>7 DEF ReadCopy, Channel!Deliver, Late, ghost

LEMMA FaultLasts ==
  ASSUME Late \/ isr = "corrupt", [Next]_vars
  PROVE  Late' \/ isr' = "corrupt"
  BY DEF Next, vars, ghost, Late, ReceiveToMemory, ReceiveToRhr, StoreHeld, Store,
       TimerTick, TC00_Handler, TcGetStatus, TcReadLoadSize, TcReadReloadSize,
       TcWriteMarr, TcWriteTcrr, TcWriteMar, TcWriteTcr, USART_Handler, RxGetStatus,
       RxConcat, RxConcatOverflow, RxWriteMar, RxWriteTcr, RxWriteMarr, RxWriteTcrr,
       RxTcStart, WritePdca, ReadCheck, ReadCopy

LEMMA Next_Channel ==
  ASSUME ConstantsAssumption, IInv, InOrder, [Next]_vars
  PROVE  [Channel!Next]_(Channel!cvars)
<1> DEFINE fault == Late \/ isr = "corrupt"
<1> USE DEF vars, reader, ghost
<1>1. CASE fault
  <2>1. Late' \/ isr' = "corrupt" BY <1>1, FaultLasts
  <2> QED BY <1>1, <2>1 DEF Channel!Next
<1>2. CASE ~fault
  <2>1. CASE ReceiveToMemory \/ ReceiveToRhr
    BY <1>2, <2>1 DEF ReceiveToMemory, ReceiveToRhr, Channel!Next, Channel!Send
  <2>2. CASE ReadCopy
    BY <1>2, <2>2, ReadCopy_Delivers DEF Channel!Next
  <2>3. ASSUME UNCHANGED <<sent, got, handed>>
        PROVE  [Channel!Next]_(Channel!cvars)
    BY <1>2, <2>3 DEF Channel!Next, Channel!Fail, Channel!cvars
  <2>4. CASE StoreHeld \/ TimerTick \/ ReadCheck
    BY <2>3, <2>4 DEF StoreHeld, TimerTick, ReadCheck
  <2>5. CASE TC00_Handler
    BY <2>3, <2>5 DEF TC00_Handler, TcGetStatus, TcReadLoadSize, TcReadReloadSize,
         TcWriteMarr, TcWriteTcrr, TcWriteMar, TcWriteTcr, WritePdca
  <2>6. CASE USART_Handler
    BY <2>3, <2>6 DEF USART_Handler, RxGetStatus, RxConcat, RxConcatOverflow,
         RxWriteMar, RxWriteTcr, RxWriteMarr, RxWriteTcrr, RxTcStart, WritePdca
  <2>7. CASE UNCHANGED vars
    BY <2>3, <2>7
  <2> QED BY <2>1, <2>2, <2>4, <2>5, <2>6, <2>7 DEF Next
<1> QED BY <1>1, <1>2

(* read() implements ByteChannel: every byte of the wire once and in order, until
   a fault, for every buffer size and every pattern of arrivals. *)
THEOREM Refinement == Spec => ImplementsChannel
<1>1. Init => Channel!Init
  BY DEF Init, Channel!Init, Late
<1>2. IInv /\ InOrder /\ [Next]_vars => [Channel!Next]_(Channel!cvars)
  BY ConstantsAssumption, Next_Channel
<1> QED BY <1>1, <1>2, Inductive, OrderKept, PTL DEF Spec, ImplementsChannel,
     Channel!Spec

=============================================================================
