# Verification of the SAM4L cellular printer firmware

The firmware (`src/`, C, for an Atmel SAM4L8) receives text over a cellular modem on
a UART and prints it on a label printer that is a USB device. Its own code is small:
the modem's receive path, a service that runs AT commands, and a printer client. Most
of the program logic that can go wrong is in the USB host stack it is built on
(`usbc_host.c`, `uhc.c`, `uhi_vendor.c`), which is in the repository and compiled with
it. There is no operating system: a main loop and interrupt handlers share global
variables.

This directory holds TLA+ models of that code, TLC configurations that check them, and
proofs, checked by TLAPS, of the properties that matter most for all values of the
constants.

## 1. Inventory

Paths are relative to `src/src/`.

| Part | State it keeps | Operations | Who runs it |
|---|---|---|---|
| Modem receive path `modem_usart/mdm_usart.c` | two pairs of DMA buffers, the line buffer with `tail` and `count`, recorded sizes, `gs_uc_buf_num`, `g_uc_transend_flag`; the PDCA's address and counter registers | `TC00_Handler`, `USART_Handler`, `read()`, set-up | two interrupts of one priority, the main loop, and the DMA itself |
| AT command service `modem_service/mdm_service.c` | `curr_status`, `curr_cmds`, `cmd_idx`, `num_cmds`, `curr_cb`, `return_data`; `data_read_buff`, `SRING_STATUS`; `mdm_data_buff`, `rcvd_bytes_pending` | `mdm_init/open/send/close/status`, `mdm_tick`, `mdm_recv`, `mdm_data_rdy` | the main loop; the modem's bytes come in between |
| USB driver, control endpoint `asf/sam/drivers/usbc/usbc_host.c` | the queue of setup requests, phase, timeout, bytes moved, pipe 0's registers | `uhd_setup_request`, `uhd_ep0_alloc`, `uhd_ep_free`, `uhd_ctrl_interrupt`, the SOF interrupt | main loop and USB interrupt |
| USB driver, line state (same file) | `uhd_suspend_start`, `uhd_resume_start`, `uhd_b_suspend_requested`, `uhd_state`, SOF enable, the frozen clock, interrupt enables | `uhd_suspend`, `uhd_resume`, `uhd_sleep_mode`, the bus interrupts, `uhd_enable/disable` | main loop and USB interrupt |
| Sleep manager `sleepmgr/sleepmgr.h` | `sleepmgr_locks[]` | `sleepmgr_lock_mode`, `sleepmgr_unlock_mode`, `sleepmgr_get_sleep_mode` | the USB driver and the PDCA driver |
| USB driver, other pipes (same file) | `uhd_pipe_job[]`, the pipes' registers | `uhd_ep_alloc`, `uhd_ep_run`, `uhd_ep_abort`, pipe interrupts, timeouts | main loop and USB interrupt |
| USB host controller service `asf/common/services/usb/uhc/uhc.c` | `g_uhc_device_root` (address, `conf_desc`), `uhc_enum_try`, `uhc_sof_timeout*` | connection, 15 steps of the enumeration, `uhc_suspend`, `uhc_resume` | USB interrupt, main loop |
| Vendor interface `.../vendor/host/uhi_vendor.c` | `uhi_vendor_dev` | install, enable, uninstall, transfers | USB interrupt, main loop |
| User interface `.../ui.c` | `ui_enum_status`, LED counters | events of the enumeration, SOF | USB interrupt |
| Printer client `usb/cp_usb.c`, `printer/cp_printer.c` | `main_b_usb_dev`, transfer flags | `print_bulk_out`, `printer_read` | main loop, callbacks |
| Flash controller `flashcalw.c` | the flash, page buffer, lock bits, fuses, `flashcalw_error_status` | `flashcalw_memset/memcpy`, commands on pages, regions and fuses | nobody calls it here; a reset may come at any time |
| Clocks, interrupt masking, watchdog, EIC, GPIO, BPM, serial, boards | registers | configuration, `cpu_irq_save` | set-up code |
| Main program `main.c`, timer example, empty stubs, CMSIS headers | — | — | — |

How they interact. `main.c` calls `read()` of the receive path in its loop.
`mdm_tick()` calls the same `read()`, parses what it returned, writes commands and
calls back its client. The USB interrupt runs the driver, the driver calls the UHC
(connection, end of a bus reset, SOF, wakeup) and the callbacks of requests and
transfers; the UHC calls back into the driver from there (`uhd_setup_request`,
`uhd_ep0_alloc`, ...), installs `uhi_vendor`, and tells the user interface and the
printer client about the device. The main loop starts USB transfers and may suspend
and resume the bus.

What is hard in it:

* **Interleaving with hardware.** The PDCA stores bytes between any two register
  accesses of the handlers that reprogram it.
* **Main loop against interrupts.** `uhd_setup_request()`, `uhd_suspend()` and
  `uhc_suspend()` test state with interrupts enabled and act on it afterwards.
* **Late answers.** A request times out at a SOF while its answer is already flagged.
* **Re-entry from callbacks.** A callback queues the next request or starts the next
  command while the code that called it has not finished its update.
* **Order of release.** A device is unplugged in any of the fifteen steps, with
  requests queued, memory allocated and an interface half installed.
* **A clock that is off.** While the bus is suspended the clock is frozen, register writes
  are lost, and only one of three interrupts can bring it back.
* **Reset in the middle.** A page of the flash is erased and then written.
* **Boundaries.** A buffer filled exactly, a line buffer smaller than what is copied
  to it, a count kept over several calls.

The properties each part owes:

* receive path: the DMA stays inside its buffers; `read()` returns each byte once and
  in order; input is flushed without further input.
* command service: no call behind a command array; each acknowledgement used once;
  each operation called back, for the right commands; socket data kept in order.
* control endpoint: every request is called back; none moves more data than it has
  buffer for; no answer is taken for another request's.
* other pipes: a job is called back once, with the bytes it moved; the hardware moves none
  after its end; it ends with its timeout at the latest.
* line state: a device that comes or goes is noticed in every power state; a suspended bus
  can be woken; the sleep locks are those of the state.
* flash: a copy stores its bytes and nothing else, a reset costs one page at most, the error
  status is that of all commands.
* host controller service: the enumeration ends; what is reported ready is ready; what
  is gone is released; memory is owned by one.

`PROJECT.json` lists the components with their files, and the hazards with their lines.

## 2. Modules

| Module | Contents |
|---|---|
| `ByteChannel` | abstract specification of a serial receiver: a FIFO delivered in blocks, until a fault |
| `UsartRx` | receive path: USART, PDCA, timer, two handlers, `read()`, one register access per step |
| `UsartRxProps` | its invariants, its refinement of `ByteChannel`, its liveness |
| `UsartRxProofs` | proofs for every `BUFFER_SIZE`, `DataLen`, `BurstBytes` |
| `MdmService`, `MdmServiceProps` | AT command service and its properties |
| `MdmServiceProofs` | proofs for every set of operations, every text and every size |
| `UhdControl`, `UhdControlProps` | control endpoint of the USB driver with a reduced UHC and a client in the main loop |
| `UhdControlProofs` | proofs of its invariants for all sizes, timeouts and numbers of requests and connections |
| `Uhc`, `UhcProps` | enumeration, connection, suspend and resume, with the control endpoint reduced to its queue |
| `UhcProofs` | proofs of its invariants for any number of tries, connections and calls |
| `UhdPipes`, `UhdPipesProps` | one bulk pipe of the USB driver, its job, and the main loop in `uhd_ep_run()` and `uhd_suspend()` |
| `UhdPipesProofs` | proofs of its invariants for all sizes, timeouts and numbers of jobs |
| `SleepManager` | the counted locks of the sleep manager, as operators |
| `UhdPower`, `UhdPowerProps` | power states of the USB driver: enable, suspend, resume, connection, with their sleep locks |
| `UhdPowerProofs` | proofs of its invariants for every length of the resume and any number of calls |
| `FlashFuses` | the fuse functions of the flash driver, as operators |
| `FlashFusesProofs` | what these functions do, for every number of fuses, field and value |
| `Flashcalw`, `FlashcalwProps` | the flash driver: commands, `flashcalw_memset()`, `flashcalw_memcpy()` |
| `FlashcalwProofs` | proofs of its invariants for every size of the flash, its pages, the patterns and the source |
| `MC*` | the module TLC is started on; the `.cfg` files give the constants |

A definition named `...Mutant` is a fault that a maintainer could introduce (a dropped
reset, an off-by-one). It comes before the definition it would replace and nothing
refers to it; `PROJECT.json` pairs it with the property that finds it.

Variables described as ghosts are not in the program: they record what the properties
compare with (bytes sent, acknowledgements not used yet, attempts made).

### UsartRx

Bytes are numbered as they appear on the wire, so that a buffer's content shows which
byte is where. `ReceiveToMemory`, `ReceiveToRhr` and `StoreHeld` are the hardware: a
byte goes to memory at once, or stays in the holding register while the PDCA is stopped,
where the next one overwrites it. `TC00_Handler` is seven actions (status, the two
counters read, four registers written), `USART_Handler` eight, `read()` two, since it
tests `count` before it disables the interrupts. `isr` is the next access of the running
handler; the handlers have the same priority and do not preempt each other, and TC00
wins when both are pending. `DataLen`, the `data_len` of `read()`'s callers, is at least
the size of the line buffer, as in both callers.

How far the hardware can get in one burst of handlers is the constant `BurstBytes`,
with `BurstBytes + 1 < BUFFER_SIZE`: a handler makes a few register accesses, a buffer of
ten bytes takes 0.87 ms at 115200 baud. One timer period (1/`TC_FREQ` s) ends in a burst
at most. Two events are recorded as ghosts, `raced` (a byte was stored between the reads
and the writes of `TC00_Handler`) and `overrun` (two bytes while the PDCA was stopped);
`Late` is either. The code has no defence against them and what the properties about
content say ends there; `DmaInBounds` does not. A copy past the line buffer is undefined:
the model goes to `isr = "corrupt"` and stops.

### MdmService

`mdm_tick()` runs in the main loop only, so that a call is atomic; the modem's items
arrive between calls (`ModemSends`). There is one action per case of its `switch`, each
with everything that call does: reading the UART over the start of `data_read_buff`
(what is behind it stays), the `SRING` and `NO CARRIER` tests, the case, its memsets.
`TickRingUnanswered` and `TickRingAnswered` are the two outcomes of the one read that follows
`socket_rcv()` at once. It has at most what is in the UART's line buffer, so that it may
miss the answer, or end anywhere in it: `Stored` and `Announced` are what `sscanf()` makes of it (bytes
skipped at the start, bytes stored of the data and of the `Trailer` behind them, the number read).
The number is added to `rcvd_bytes_pending` even if fewer bytes were stored, and the ghost `cut` is
set. Text is a sequence of items (a result code, an unsolicited
message, or other text), and the modem may send anything at any time: the service does
not see which command an item answers.

Constants select the client: `Busy`, whether it starts an operation while one runs;
`Chain`, whether it starts one in a callback.

What is written to the UART is the name of the command; its arguments are left out.

### UhdControl

The driver's variables, pipe 0 and the reduced UHC are one record `usb`; every interrupt
handler is a function from one such record to the next, since it runs to its end.
`uhd_setup_request()` from the main loop is one action per access that a handler could
see (`MainQueue`, `MainCheck`, `MainRefuse`, `MainFill`, `MainTimeout`, `MainEnable`).
The device answers the armed transaction with data of any length, a stall or an error, or
never. Freezing, the event flags and the interrupt enables of the pipe are kept, because
what outlives a request is in them.

`callback_run` is NULL in every call of the repository and left out. `uhd_suspend()` is
not called in this module; `Uhc` has it. After an enumeration that failed, when the real
driver suspends the line, SOFs go on here, which allows more behaviours than the code.

`usb.failed` collects the driver's assertions that failed. Once an assertion fails the
driver has taken something late for a request that timed out, and the properties
`NoneForgotten`, `WithinBuffer` and `AnswersAreOwn` are stated up to that point (`Sane`);
that it can fail is a finding. The model stops (`Running`) where the program does: at the use of an
empty queue's head, a null pointer, and in `while (!Is_uhd_pipe_frozen(0))` (1272), where the handler
waits for ever when an IN packet came so late that the next request has unfrozen the pipe
(`WaitsForEver`). TLC found that no OUT transaction is armed then, the one that the bus could
still end there. `MainAnswered` is stated up to these two points.

### Uhc

One record `u` and one action per interrupt, as above. The fifteen steps are the
functions `step1` ... `step15` with the steps that only wait in `ResetDone` and
`DelayOver`; a value of `Outcomes` says what a step meets (a failing `malloc()`, a bad
packet size, too much power, no interface, too many endpoints, remote wakeup). The
control endpoint is a queue whose head is answered, times out or is freed, which is what
`UhdControl` has. A delay ends at some SOF. `uhd_suspend_start` and `uhd_resume_start`
count three SOFs and some more in the code; here one SOF step ends them, and they hold
up the delays and timeouts as in `uhd_sof_interrupt()`. `uhc_suspend()` is the test of
`uhc_enum_try` and then `uhd_suspend()`'s test and its two outcomes, each an action.
`u.heap` records what happened to the memory of `conf_desc`.

### UhdPipes

The pipe, its job and what is shared with it are the record `p`. The main loop's
`uhd_ep_run()` is one action per access (`Run` ... `Enable`, with `uhd_get_pipe()` before the
lock), the same `uhd_pipe_trans_complet()` is one step in the interrupt. The hardware moves
packets while a transfer is armed and not frozen (`InPacket`, `OutPacket`, with multi-packet
IN and the zero-length packet of AUTOZLP), the device stalls or fails, SOFs count the
timeout. Freezing, enabling and the pending flags are kept, since a stale flag is what
breaks the next job.

`p.odd` records what the code does not guard against, and each property names the members
it excepts: `lost` (a job set on a pipe freed after `uhd_get_pipe()`; its timeout then enables that
pipe again, without a device; the next device gets another pipe, which is not followed), `memory` (a
failing `malloc()` of the internal buffer ends a job as NOERROR, and a disconnection may end it
again), `raced` (see the findings below), `stray` (a resume unfreezes a pipe whose transfer
is complete; a job that times out while the main loop waits leaves its transfer to the next job, and
nothing is said of the data after that), `hung` (the handler of such a pipe waits for it in
`while (!frozen)` (1754) and does not return: no SOF, timeout or main loop follows, and the model
stops there, `Hung`), `again` (a second suspend saves frozen pipes), `NULL` (the client's callback reads a
device that is gone).

Assumed of time: the timeout is longer than `uhd_ep_run()`, a transaction fits a frame, a
pending interrupt is served before the main loop goes on and before the second SOF after it,
and an enumeration is longer than `uhd_ep_run()`. Left out: `uhd_ep_abort()` (not called),
data toggles, isochronous transfers, other pipes. In the run a transfer has at most five bytes, a packet two: a job
of six takes two transfers with a tail through the internal buffer.

### SleepManager and UhdPower

`SleepManager` is `sleepmgr_lock_mode()` and its fellows over a function from modes 0..7 to
counts. `UhdPower` has the variables of the driver as a record `u`; its interrupt is a disjunct for
each branch, in the order in which `uhd_interrupt()` tests them, and the main loop takes
`uhd_resume()` in steps: SOFs, unfreezing, enabling, the resume signal, and the four
statements of its `uhd_sleep_mode()`. A device is plugged and taken out at any time; the
controller detects it (`Detect`) and flags interrupts, of which only the asynchronous ones
come while the clock is frozen. Register writes with the clock frozen are lost, as the
hardware manual has it. `pdca` is the lock of the PDCA driver, the other client.

`raced` records that an interrupt came between the statements of the `uhd_sleep_mode()` in
`uhd_resume()`: a finding. The test of `sleepmgr_unlock_mode()` is outside its critical
section and is therefore apart (`MayUnlock`, `Unlocked`); being in an endless loop is
`pc = "hung"` in the main loop and `u.hung` in a handler. Assumed: a handler is over before a
hand has plugged or unplugged again, and before three SOFs. `Assert(false)` is compiled to
nothing and `AllManaged` says that it is not reached. A branch of the handler is one step, and so
is `uhd_disable()`, although interrupts can come between its writes. The branch of the disconnection freezes
the clock (1038) before the UHC disables the pipes (1042): whether these writes still reach the pipes' registers
is not examined, and `UhdControl`, `Uhc` and `UhdPipes` let them.

### FlashFuses and Flashcalw

`FlashFuses` writes each fuse function as a function from one record of the fuses, the
Security bit and the status to the next, with commands that the controller may refuse.
`Flashcalw` has the commands on pages and regions as one action each, and a copy as a state
machine that clears the page buffer, fills it, erases and writes a page: one step per command
that changes the flash, because a reset can come in between. Writing to the buffer and to the
flash clears bits only; the controller remembers the page last written to in the buffer
(`pagen`) and `erase_page(-1)` goes there. `FillMemset` says which bytes of a page the code
takes from the flash, from the source, and from the two mixed double-words at the ends.

External, modelled from how the code uses it: the controller's commands. Left out: Programming
Errors, the bootloader's area, the chip erase, the PicoCache, wait states, interrupts, the
results of checks. A fuse function is one step, so that a reset between the erasure of all fuses and their
rewriting is not examined. The lock bits, fuses in the hardware, are kept apart from the others, since
the code writes them with the commands for regions. A command on the User page is never refused. A `memcpy` keeps to the
array or the User page, as its `Assert` says.

## 3. Runs

All passing runs together fire every action.

| Run | Question | Bounds, and why they are enough |
|---|---|---|
| `usart_receive` | Is `read()` a FIFO of the wire, is the DMA in bounds, is input flushed? | `BUFFER_SIZE` 3, the least with `BurstBytes` 1; 7 bytes are more than a pair of buffers, so that pairs are changed, filled exactly, cut short and overflow |
| `usart_overflow` (violation) | Does a pair fit the line buffer? | as above |
| `service_commands` | Are commands of all five sets, chained or not, run in bounds, acknowledged once and called back? | buffers of two items, so that an old item is left behind a new one; all items |
| `service_socket` | Is socket data kept in order, with and between commands, and is each operation called back? | answers of up to three bytes, four in all, into a buffer of five, each missed, read in part or whole: appended, taken in part, overflowing; numbers of one digit (the proofs have all) |
| `service_chain` (violation) | Is an operation started from a callback called back? | two operations |
| `control_requests` | Are requests of the main loop and of the enumeration answered, whatever comes in between? | two requests of the main loop, to have one queued behind the other; two connections, so that something can outlive the first; data of one and a half packets; a timeout of three SOFs, so that it comes between any two steps and two SOFs can come before it |
| `control_ongoing` (violation) | Does an answer always find its request? | as above |
| `uhc_enumeration` | Does each enumeration end, with everything consistent? | the code's four tries, every outcome at every step, three connections, three calls of suspend or resume |
| `pipe_jobs` | Is each job called back once, with what it moved, and does it end? | jobs of one and six bytes with transfers of five and packets of two: one and two transfers, tails, zero-length packets; two jobs, two connections and a suspend, so that what a job leaves meets the next |
| `power_states` | Are devices noticed and locks balanced in every power state? | two connections, two calls of suspend or resume, two of enable: each order of two; a resume of two SOFs |
| `power_locks` (violation) | Can a sleep lock be released twice? | as above |
| `flash_copies` | Are copies exact at every alignment, and the fuses and the status kept? | two pages of three double-words of two bytes, a gap, the User page: copies of up to three pages from and to every byte; three calls, the last of which may be a copy, so that a region is locked or a status left before; fuses in two bytes of two |

`CHECK_DEADLOCK FALSE` is given where the model really stops: at a bound of the
environment (no more connections), or at undefined behaviour (a write past a buffer, the
use of a null pointer).

What the properties say:

* `DmaInBounds`: whatever byte comes at whatever step of the handlers, the PDCA's address
  plus counter stays in the buffer. It rests on the order of the register writes.
* `NothingLostOrInvented`: what the handlers recorded and what the registers say never
  disagree.
* `ImplementsChannel`: the receive path implements `ByteChannel`.
* `FlushedUnlessBoundary`: under fairness all input is read in the end, except for a pair
  that stays filled exactly to the boundary of its two buffers.
* `CommandInBounds`, `UsesEachAckOnce`, `CallbackMatches`:
  for a client that waits, or chains in its callback. With `Busy = TRUE`
  `CommandInBounds` fails: an operation started while another runs keeps its `cmd_idx`.
  Nothing in the repository says which clients are legal, so that this is recorded as a
  hazard and not as a finding.
* `SocketDataInOrder`: until the data overflows `mdm_data_buff`. Exact only while every answer was
  stored whole; after a part of one `mdm_recv()` also returns bytes that were never received, and what holds
  is that the bytes of the socket come in order and none comes twice.
* `CalledBack`: if the modem acknowledges what is pending.
* `AnswersAreOwn`: over the requests that ended before, whose answers, flags and interrupt enables are
  still there; not once a zero-length packet left over was started for a later request
  (`misplaced`, see below).
* `NoneForgotten`: a queued request is being worked on; with the fairness below it is what
  `MainAnswered` needs, which excepts a driver that has stopped (`Running`).
* `DescriptorOwned`, `ReadyWhenEnumerated`, `ReleasedWhenGone`: over retries, aborted
  enumerations, requests that outlive their device, reconnections, suspend and resume.
* `TriesBounded`: `UHC_ENUM_NB_TRY + 1`. The one more is a request of SET_ADDRESS that a
  disconnection did not abort: its end counts in the next enumeration.
* `EnumerationEnds`: with an event, a disconnection or a suspend.
* `CalledBackOnce`, `ReportIsTrue`, `WithinBuffer`: whichever of the last packet, a stall, an
  error, the timeout and the disconnection ends a job first, and whatever is pending then.
* `BusyIsWorkedOn`, `NeverHangs`, `JobEnds`: a job that is busy has a transfer running or an
  interrupt to come; nothing waits for what will not happen. `NeverHangs` excepts a stray resume, and
  `JobEnds` the wait for ever that it may lead to (`Hung`).
* `LocksHaveHolders`: counts, not only signs: a lock too many keeps the CPU awake for ever, one
  too few is an endless loop.
* `AwakeWhileActive`, `SuspendedCanWake`, `AllManaged`, `Noticed`: the interrupt enables that
  each branch leaves are those that the next event needs.
* `Stored`, `OnePageAtRisk`: `Stored` at the end of a copy, `OnePageAtRisk` at every step of it.
* `StatusIsTrue`, `FusesKept`: over functions of many commands, some of them refused.

### Fairness

* `UsartRx`: a byte that waits is stored and timer periods end (weak); a pending handler
  runs to its end (weak: nothing of the same or lower priority stops it); the main loop
  goes on reading (strong: the handlers interrupt it again and again, and take a few
  microseconds in each period). Nothing makes the modem send.
* `MdmService`: `mdm_tick()` is called for ever (weak). A modem that is waited for
  acknowledges (strong, on `OK` while a command is pending): that is an assumption about
  the modem, and without it the service waits for ever, since it uses no timeout.
* `UhdControl`: a pending pipe interrupt is served and the main loop goes on in its call
  (weak); SOFs (strong: a device that is plugged in again and again has SOFs in between).
  The device need not answer.
* `UhdPipes`: a pending interrupt is served, SOFs and the end of a suspend come, and the main
  loop goes on in its call (weak); it resumes a suspended bus again and again (strong). The device
  need not answer: `JobEnds` rests on the timeout.
* `UhdPower`: a change on the bus is detected, a pending interrupt served, SOFs sent, the resume signal
  ends, and the main loop goes on in `uhd_resume()`.
* `Uhc`: a bus reset ends, and the SOFs that end delays, timeouts, suspends and resumes
  come while a device stays (weak on each).

## 4. What is proved

`UsartRxProofs`, from `ConstantsAssumption` only, for every buffer size and every burst
the assumption allows:

* `TypeCorrect`, `DmaStaysInBounds`, `NothingLost`: `Spec => []` of the invariants of the run;
* `OrderKept`: what the line buffer and the PDCA's buffers hold comes next on the wire, in order;
* `Refinement`: `Spec => Channel!Spec`. Until a fault `read()` is a lossless FIFO.

The argument. `NothingLostOrInvented` is not inductive: it has to be known which
registers have which values at which step of the handlers. `IInv` adds that in three
parts. `RegInv` holds always: the counters and addresses at each step, and how far the
PDCA can be when the reload registers are written, which is what bounds it
(`B - tcr + Held <= burst.bytes`). `SizeInv` says when the recorded sizes are not the full
ones: only from `TC00_Handler`'s record to `USART_Handler`'s copy. `ExactInv` holds while
the hardware has not got ahead: MAR is where the counters say. There is one lemma per
action. `InOrder` is then proved on top of `IInv` through the lemmas `Store_InOrder` (a
stored byte is the next one) and `RxConcat_InOrder` (the copy keeps the order), and the
refinement from both.

`MdmServiceProofs`, from `ServiceAssumption`:

* `StaysInBounds` (`Busy = FALSE /\ Spec => []CommandInBounds`) and `CallbacksMatch`: the
  invariant is how `curr_status`, `cmd_idx`, `num_cmds` and the number of acknowledged
  commands go together (`Progress`), and that a running set belongs to its callback
  (`Running`). `Busy = FALSE` is used in one place, the start of an operation, where
  `cmd_idx` has to be 0; the reset after the callback gives that also for chained ones.
* `AckUsedOnce`, for every client: the acknowledgements not used yet are at least those in the
  buffers (`Unused`), of which each case of `mdm_tick()` uses the one that it finds.
* `TypeCorrect`, for a client that waits, since the range of `cmd_idx` is that of its set.
* `StatusOnlyForStatus`, for every client.
* `Counted` and `ReturnedInOrder`, for every client, every split of the answers and every number they
  announce: the bytes of the socket in the buffer are pending, in order, and later than
  those returned (`InOrder`), and while nothing was cut they fill what is pending (`SocketDataIsData`).
  Appending an answer (`AppendedIs`, `AnswerInOrder`), missing one and moving the rest to the
  front keep that.

`UhdPowerProofs`, from `PowerAssumption`: `TypeCorrect`, `LocksBalance`, `Awakes`, `CanWake`,
`Managed`. None of the invariants is inductive alone. `Wake` says, for each of the power states and
each step of `uhd_resume()`, which interrupts are enabled and whether the clock and the SOFs
run; `Locks` is `LocksHaveHolders` with what is known of `copy` in `uhd_sleep_mode()`. The proof goes
action by action.

`UhcProofs`, from `UhcAssumption`, for any number of tries, connections and calls:
`TypeCorrect`, `Owned`, `ReadyThen`, `ReleasedThen`, `TriesEnd`. The invariant is that an
enumeration is in one of six phases (`Starting` to step4, `Low` while the device has address 0,
`High` while it gets its own, `Configuring`, `Ready`, `Failed`), or that there is no device
(`Gone`). A phase says who has the next step: a reset, a delay, or exactly one request of the queue
(`One`), since the others have no callback. `Stale` is the request that outlives its device, the
reason for the one try more of `TriesBounded`. `Held` and `Sound` add what pipe 0 and the queue are
when the device has lost its address. There is one lemma for each function of the code; `ErrorIs`
is `uhc_enumeration_error()`, and `CalledBackIs` goes through the callbacks of all steps.

`UhdControlProofs`, from `ControlAssumption`, for all sizes, timeouts and numbers of requests and
connections: `TypeCorrect`, `NothingForgotten`, `BuffersHold`, `AnswersBelong`. The invariant
says of a queue with requests in it that its timeout runs (`Working`), or that the main loop is
between its two updates and neither the timeout nor an error of the pipe is set (`Waiting`): that
is what keeps the interrupt from ending a request the main loop is about to start. `Own` relates
the transaction that is armed, the pipe's token and the answers to the phase of the request; it is
lost where `misplaced` becomes true, and nowhere else. `Delays` and `Addressed` are about the UHC: pipe 0
has address 1 only when no delay of the enumeration runs, so that no SOF frees it under a request.
There is a lemma for each function of the driver that says what it makes of the state, one for each
handler (`InterruptServes`, `SofIs`), and one for each action. `Least` is the one use of
well-founded induction: it finds the first request that `uhd_ctrl_phase_setup()` does not refuse.
TLC found no violation of the invariant on the instances of the runs; the proofs are about the
states before an assertion of the driver has failed, as the properties are.

`UhdPipesProofs`, from `PipeAssumption`, for all sizes of packets, transfers and buffers and any number
of jobs: `CalledBackThen`, `TypeCorrect`, `StaysInBuffer`, `ReportsTruly`, `WorkedOn`, `NeverWaits`.
`Counted` needs only that each function of the driver keeps the number of accepted jobs (`Keeps`).
The rest is `Sane`, which holds until a resume unfreezes a pipe without a transfer (`stray`): `Flow` says
that a job is in the hands of `uhd_ep_run()`, with the pipe frozen and untouched, or in the pipe, or
over with an interrupt to be served; `LoadedIn` and `LoadedOut` relate `size`, `ctn` and the IN requests
to the rest of the job, which makes the tail that `uhd_pipe_trans_complet()` computes as
`buf_size % PipeSize` the rest (`LeftOver`); `Worked` is what `uhd_suspend()` and the resume keep of the
freeze. There is a lemma for each function (`TransferSane`, `InterruptSane`, `SofSane`) and for each
step of the main loop. TLC found no violation of `Sane` on the instance of the run.

`FlashcalwProofs`, from `FlashAssumption` and `FuseAssumption`, for every size of the flash, of its pages,
regions and double-words, and every number of fuses: `StoresBytes`, `ResetCostsOnePage`, `StatusTells`,
`OtherFusesStay`, `TypeCorrect`. `Stored` and `OnePageAtRisk` speak of the whole flash, and what a step adds
depends on where the copy is; `CopyInv` says that. `Working` is the page the copy is at, `Place` how `dest` and
PAGEN relate to it (the first page of a `memset` begins anywhere, the others at their start, and after the
buffer is filled `dest` is behind the page or the end), `Buffered` that the page buffer holds the page as it
is to be, and `Progress` that the pages before it are done, those behind untouched, and this one erased at
most. The core is `MemsetPage`: whatever the alignment of the two ends, the five pieces that `flashcalw_memset64()`
writes to the buffer cover the page, each byte once, the bytes of the pattern from the destination to the end and
those of the flash elsewhere; `SourceByte` says that the widened pattern has each byte of the pattern at its
place, which is where the size of a pattern must divide a double-word's. `NextPage` and `LastPage` carry it
across the gap between the array and the User page. `FuseInv` relates `f.status` to what was refused (through
`errors` in a copy).

`FlashFusesProofs`, from `FuseAssumption`: `EraseByteEffect`, `SetFieldEffect`, `SetByteEffect` and the same for the
other functions, as lemmas. Each loop is a fold of the community modules, and a fold chooses a function on the
sets of the numbers of its steps; that there is one is `FoldSolved`, and what every step keeps holds at the
end by `LoopInvariant`. Both are by induction over a set of naturals (`Induction`, from
`NatLessThanWellFounded` and `WFMin`), with the step written as a function, so that no lemma takes an operator. `Done` is the
invariant of the loops over bits: the first bits have their value unless a command was refused, and no other
bit has changed. That a field of up to `FuseNumber` bits writes no bit twice, also round the end, is `Distinct`.
`write_gp_fuse_bitfield()` keeps less (`Kept`): it can only clear bits, and its status the one
that section 5 describes.

TLC found no violation of `CopyInv` and `FuseInv` on the instance of the run.

Only model-checked: liveness under fairness (out of TLAPS's reach: `FlushedUnlessBoundary`,
`CalledBack`, `MainAnswered`, `EnumerationEnds`, `JobEnds`, `Noticed`). Every invariant of the runs that pass
is proved.

## 5. Findings

Each has a run that shows it; `PROJECT.json` quotes the text it contradicts.

1. `usart_overflow`: `dma_usart_bufs_concat()` copies up to two buffers to a line buffer
   of the size of one without the check its comment names.
2. `service_chain`: an operation started from a callback is overwritten by the reset that
   follows the callback.
3. `control_ongoing`: a request that times out leaves pipe 0's interrupts enabled; its
   late answer is handled with no request.
4. `power_locks`: an interrupt in the `uhd_sleep_mode()` of `uhd_resume()` releases the lock that
   the main loop then releases again, and the sleep manager loops for ever.

Seen in behaviours of the models and left without a run of their own:

* `mdm_usart.c:70`: exactly `BUFFER_SIZE` received bytes look like none to `TC00_Handler`, and stay
  until the modem sends more, although `mdm_usart.h:47` says the interrupt is there to flush.
  `FlushedUnlessBoundary` excepts this case only.
* `mdm_service.c:199`: one `mdm_read()` has at most what the line buffer of `BUFFER_SIZE` (10) bytes holds, as
  many as `#SRECV: 1,` has, and the rest of the answer is not looked at; `%[^n]` (16) where `%[^\n]` is meant
  ends socket data at its first n. What was announced is pending all the same (204), and `mdm_recv()`
  returns bytes that were never received.
* `uhc.c:1089`: a device plugged in while the main loop is in `uhc_suspend()` is suspended in its
  enumeration; `uhd_b_suspend_requested`, set for a request that has just ended, does the same
  to a later one. `EnumerationEnds` excepts an enumeration that was suspended.
* `uhc.c:1110`: a resume in the SOFs between `uhc_suspend()` and the suspend does nothing, so that the
  branch of `uhd_resume()` for that time is never taken with a device.
* `usbc_host.c:707`: `uhd_suspend()` reads whether a pipe is frozen and freezes it with interrupts enabled;
  a transfer that starts in between is not saved and stays frozen after the resume (`raced`).
* `usbc_host.c:1197`: `uhd_b_zlp_out_delayed` is not reset when the request ends before the SOF (by an
  error flagged with the last data). The SOF then starts pipe 0 in another phase of the next
  request, whose own zero-length packet may later be taken as answered before it was sent.
  It takes two SOFs before the timeout, hence a timeout of three (`misplaced` in `UhdControl`).
* `usbc_host.c:1272`: an IN packet that is late by a request, which has unfrozen pipe 0 (1365), makes the
  interrupt wait for ever for the pipe to freeze.
* `usbc_host.c:920`, 1761, 1754, 705: the members `lost`, `memory`, `stray` with `hung`, and `again` of `odd`
  in `UhdPipes`. An error flagged just before the last packet of a job ends the next one
  with ERROR (1838).
* `usbc_host.c:1875`: a job that is aborted with its tail in the internal buffer reports the bytes
  received there, up to a packet and so more than the job asked for; none is in the user's buffer.
* `uhc_is_suspend()` is true without a device: `uhc_resume()` then starts the clock, and the sleep stays
  at SLEEP_0 until a device has come and gone. A glitch that wakes the controller up leaves its
  wakeup interrupt disabled.
* `flashcalw.c:867`: `flashcalw_write_gp_fuse_bitfield()` adds the error status it finds, for each bit that
  needs no command. `flashcalw_erase_user_page(true)` (1225) loses the status of the erase. The check of
  `flashcalw_erase_gp_fuse_bitfield()` (739) fails for a field that goes round. A `memset` of nothing sets the
  status with no command. `flashcalw_issue_command()` reads the status right after the command, and
  the loop that waits for its end clears what comes later.
* `cp_usb.c:52`: the second `uhi_vendor_bulk_out_run()` of `print_bulk_out()` is refused while the first runs,
  and its result ignored.
* `mdm_service.c:137`: `mdm_data_rdy()` returns an `int` as a `uint8_t`; 256 bytes overflow `mdm_data_buff` before.

Being consequences of the above or contradicting no text: the phase assertion at `usbc_host.c:1284` fails in the same way as the one at 1224;
`uhc.c:279` ("Abort all transfers") does not when SET_ADDRESS is under way, since the
device has its new address and pipe 0 the old; `uhc_remotewakeup()` reads `conf_desc` when
it is NULL or freed; an enumeration that ends with OVERCURRENT, UNSUPPORTED or
HARDWARE_LIMIT leaves `uhc_enum_try` set, so that `uhc_suspend()` is refused;
`uhc_dev_get_string()` asks address 0; the loop `while(!mdm_tick());` of `mdm_service.c:271`
runs while nothing is to be done, AT_INACTIVE being 0; a byte stored in `TC00_Handler`'s window
makes what it records differ from the "number of bytes received" of `mdm_usart.h:52`, which is
the ghost `raced`.

## 6. What is not modelled, and the plan

Not modelled: register configuration at start-up, clocks, watchdog, GPIO, EIC, BPM, serial
console (sequential writes to registers), the stubs (empty), CMSIS (vendor headers, most of the
lines of the repository), USB hub and LPM code (not compiled). Text is not modelled character by
character, descriptors not byte by byte.

What comes next, most important first:

1. A specification of the control endpoint's queue implemented by `UhdControl` and used by
   `Uhc` in place of its own reduced queue.
2. Two pipes that share the controller's pipes and the main loop: `uhd_ep_alloc()` when none is
   left, and the isochronous transfers.
3. The shared masks of the bus clocks (`sysclk.c`).
